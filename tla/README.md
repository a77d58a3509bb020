# hftp: models, checks and proofs

hftp is an interactive HTTP client. One thread, the *patcher*, waits with
`epoll_wait` for lines of input and for sockets to become readable, and hands
the work to a pool of *worker* threads. A worker runs one half of an exchange,
`http_request` or `http_response`, then looks for more work in two queues, and
goes to rest. A second program, the one-shot client, runs one exchange in one
thread. This directory holds TLA+ models of both, the instances TLC checks, and
theorems that TLAPS proves for every size.

Line numbers refer to the files in the source directory (`threads.c`,
`http_core.c`, `http_method.c`, ...). `PROJECT.json` names for every definition
the lines it stands for.

## 1. Inventory

| Component | Where | State it keeps | Operations |
|---|---|---|---|
| patcher | `threads.c` 455-574 | the batch of events, locals of the event or command in hand | `epoll_patcher`: wait, dispatch an event, reserve a worker or queue |
| command acceptance | `threads.c` 243-446 | none of its own; claims slots of `g_conn_workspace` | `interprete_multiple_commands`, `interprete_single_command` |
| workers | `threads.c` 759-920 | `g_workspace` (what to run, on which connection, a scratch chunk), `g_thread_work_flag` | `epoll_worker`, `is_idle_thread` |
| event queues | `threads.c` 77-89, 576-712 | two rings of 256 events: `g_conn_event_queue`, `g_epoll_event_queue` | enqueue, dequeue, search |
| connections | `threads.c` 58-66, `http_core.h` | 512 slots: method, state, socket, response and parser state, callbacks | claimed by the patcher, used and given up by workers |
| exchange | `http_core.c` 323-479 | the slot of the connection | `http_request`, `http_response`, `http_one_req_resp` |
| request methods | `http_method.c` | `union method_chunks` of the worker that sends, `conn->filefd` | the callbacks of get, put, propfind, delete |
| response header parser | `http_core.c` 127-278 | `conn->ctx`, `conn->resp` | `http_parse_response_header_per_buffer`, `_line` |
| chunked body | `http_core.c` 483-727 | `conn->ctx` | `http_chunked_response_body` |
| response body | `http_core.c` 729-825 | `conn->ctx`, locals of the loop | `http_internal_response` |
| input handling | `threads.c` 184-234 | `g_input_buffer`, the mutex of the log | `input_handling` |
| startup and shutdown | `hftp_entry.c`, `threads.c` 128-182, 714-772, 924-951 | `g_fixed_input`, `g_remain_count`, `g_continue_input_flag` | `main`, `threads_init`, `input_cond_blocking`, the joins |
| one-shot client | `http_net_proc.c` | one connection | `http_conn_proc`, `process_method` |
| url parser | `url.c` | none | `url_to_words`, `url_to_data` |
| mime types | `mime_type.c` | a table | search by name, by extension |
| log, utilities | `hftp.c`, `utilities.c` | one mutex | output; name resolution |

**How they interact.** The patcher and the workers share everything by global
variables. The patcher gives work to a worker by writing `http_process` and
`conn_index` of its workspace, setting its bit of the flag word and signalling
its condition variable; when no bit is clear it queues the work. A worker takes
from the queues when it has finished something, and clears its bit when there
is nothing. The connection slots are written by the patcher (when it claims
one) and by workers (socket, state) without any lock; the flag word has a
read-write lock, each queue a lock that the searches of the patcher do not
take. The callbacks of a connection point into the scratch chunk of the worker
that sent its request, while another worker may read its response.

**What is hard.** The interleavings of patcher and workers: decisions on state
that changes before they are carried out, events of descriptors that are gone
or have been given out again, signals that come before a wait. The order of
close and clear. Responses that come in arbitrary pieces, in a buffer that
holds older bytes, on a slot that keeps the state of its last exchange. Rings
that wrap and are searched without a lock. `PROJECT.json` lists these, each at
its line, under `hazards`.

**What makes each part correct.**

- *patcher, workers*: work goes only to workers that rest, and a worker that
  has begun is left alone; an accepted command is in exactly one place until it
  is sent; what is queued is queued once, or does no harm, and is dequeued; a
  reserved worker runs; every response is run on a connection with a socket.
- *connections*: one slot for each socket, except between the close and the
  clearing; what epoll watches belongs to a slot.
- *queues*: first in, first out; a search beside dequeues gives an answer its
  caller may rely on.
- *methods*: a request is written; each callback reads, writes and closes the
  file of its own exchange; files are given back; what is put is the file, what
  is got is in the file.
- *response*: the callbacks get the body in order and complete for every way it
  is cut, the loop ends, and the result does not depend on earlier exchanges.
- *startup*: nobody uses the workspaces before they are made or after they are
  freed; the process ends when the user quits.
- *input*: the commands are those typed, once and in order; lines do not stay
  behind; nobody waits for ever on the log.
- *url*: host and port are those that the url names.

## 2. Modules

| Module | What it is |
|---|---|
| `EventQueue` | the two rings and their searches, read by read |
| `Fifo` | what a caller expects of a queue; `EventQueue` implements it |
| `HftpThreads` | patcher, command acceptance, workers, slots, flag word, queues, kernel and servers |
| `Response` | one slot and the bytes of its responses: loop, header parser, chunk decoder |
| `Transfer` | what the callbacks expect of a reader; `Response` implements it |
| `Session` | main from start to exit, the patcher as the reader of the input, the mutex of the log, the cancelling of the workers |
| `UrlWords` | the two parsers of urls, as operators |
| `Exchange` | the methods' callbacks on slots, local files and the descriptor table, in the client and in the one-shot program; extends `UrlWords` |
| `EventQueueProofs` | the rings are queues, what the searches miss and report |
| `HftpThreadsProofs` | types, reservations |
| `HftpConnectionsProofs` | slots, sockets, queues and commands; extends `HftpThreadsProofs` |
| `SessionProofs` | startup and shutdown, types, the reading and splitting of the input |
| `ResponseProofs` | types, the refinement of `Transfer` |
| `ExchangeProofs` | files and descriptors |
| `ExchangeContentsProofs` | types, what is sent and what is written; extends `ExchangeProofs` |
| `InductionProofs` | induction and recursion over an interval of numbers |
| `MCEventQueue`, `MCHftpThreads`, `MCResponse`, `MCSession`, `MCExchange` | constants of the instances |

The four large modules look at one program from four sides. `HftpThreads` has
the hand-over of work between threads and takes the input, the bytes and the
files as given; `Session` has the life of the threads and the input, and takes
an exchange to be a piece of work that ends or not; `Exchange` has what the
callbacks do to files, where at most one thread works on a slot; `Response` has
the bytes of one slot.

### EventQueue

`ring`, `start`, `count` are the array and the two globals of a queue;
`snapshot` says which of the two it is, because their searches differ:
`epoll_queue_have_sockfd` runs to a copy of the count that it takes first,
`conn_queue_have_conn_index` compares with the live count. A search is four
kinds of steps (read the count, read the start, compare one element, return),
and any number of dequeues may come between two of them. A dequeue is two steps,
`TakeEvent` (copy the event, lower the count) and `AdvanceStart`, because a search
takes no lock and may read between the two writes; `dequeuing` says that one is
between them, and `Oldest` is where the content begins meanwhile. Enqueues come
into neither: only the patcher enqueues and only the patcher searches, and the
lock keeps enqueues and dequeues apart. `had`, `stayed` and `torn` are history:
whether the key was queued when the search began, has been since, and whether the
search has read count and start in the middle of one dequeue. The guard
`count < Outstanding` of `Enqueue` is not a test of the code, which has none:
it is how many events its callers can have in the queue.

### HftpThreads

One action is what a thread does between two points at which another thread can
see or change something it uses. The pc labels of the patcher (`ppc`) and of
the workers (`wpc`) are named after what the thread is about to do.

- *Patcher.* `WaitSockets`/`WaitInput` take a batch from `epoll_wait`,
  `NextEvent` takes one of it. For a command: `Connect` or `RejectCommand`
  (anything that fails before there is a socket), `ScanSlot`, `ScanWorker`,
  `SearchConnQueue`, `SkipQueuedSlot`, `ClaimSlot` (the search for a slot reads
  sockets, workers and the queue one after the other), `Register`, then `Reserve`
  and `CommandSignal`, or `NoneIdle` and `EnqueueConn`. For a socket:
  `EventWorker`, `EventCount`, `EventQueued`, `EventIdle`, and then `EventAssign`,
  `EventFlag`, `EventSignal`, or `EnqueueEpoll`.
- *Searches.* A search of a queue is two steps with dequeues between them, and
  answers what it can answer on the ring. The conn search fixes where it can meet
  the slot (`place`, from the start index it reads), and misses it when dequeues
  have lowered the live count below that place, although the slot is still queued.
  The epoll search takes the count (`cnt`), and then as many events from the start
  index; between the two writes of a dequeue (`taking`) the event that is being
  taken is still the first of them, and the youngest is beyond the count. With a
  count older than the start index it goes on into elements of an earlier lap,
  which may hold any descriptor.
- *Workers.* `CheckIdle`, `Park`, `ChooseProcess` are the waiting loop and the
  switch; `BeginRequest` to `EndRequest` are `http_request`, `BeginResponse` to
  `ReadEnds` are `http_response`, with `Close` and `ClearSocket` after both;
  `Reset`, `DequeueConn`/`NoConnEvent`, `TakeEpoll`, `DequeueEpoll`/`NoEpollEvent`
  and `ClearFlag` are the end of the loop.
- *Ends of the process.* `AssertFails` (the program is built without `NDEBUG`),
  `BrokenPipe` (SIGPIPE is not handled) and `TakesStdin`, where a worker is left
  with descriptor 0: `outcome` says which, and the model stops there.
- *History.* `sent` counts the headers written for a slot. `crossed` becomes true
  when the patcher, or a worker that dequeues an event, gives out the response of
  a connection that is in other hands: in the conn queue, at the patcher, or with
  a worker that has not finished what it runs (`InHand`). The searches before
  (517-532) are meant to exclude this and do not (section 5). No guard reads it.
- *World.* `wire` is the state of a descriptor between kernel and server:
  `free`, `quiet` (connected), `asked`, `answered`, `read` (what has come is
  read, the response has not ended), `hungup`. `epoll_wait` is level-triggered.
  `socket` gives out the lowest free descriptor.

Abstractions: input is interactive (`g_fixed_input` is 0) and the workers are
running (`Session` has the rest); the queues are sequences, and a dequeue of the
conn queue is one step, because its search, with the live count, cannot tell one
between its writes from one that comes right after it has read the start; the
elements a search compares are read in one step (`EventQueue` has them one by
one); the fields of a slot that a claim sets are set in one step; a comparison
with `conn_index` reads it once; the element before `g_conn_workspace` that
`conn_index` -1 names is taken to hold no socket; the parts of a request after
its header are not told apart; the log, empty lines and the end of input are
`Session`'s.

### Response

A byte is a member of a small set. Words that the code compares as a whole
("HTTP", a field name, ": ", "chunked") are one byte each; digits, CR and LF are
themselves, because where a read cuts between them is what matters. `buffer`
keeps what earlier reads left, and begins with zeros or with older bytes.
`Read(n)` is the `read` of the loop; `KeepRest`, `FirstLine`, `HeaderLine`,
`BadLine`, `BlankLine` are the iterations of the parser's loop; `HeaderEnd`,
`PlainBody`, `ReadMore`, `EndOfBody`, `ReadNothing`, `ReadFails` are the body of
the loop and its exits; `NothingRead`, `EnterDecoder`, `LastChunk`,
`PartOfSize`, `Size`, `SeparatorMid`, `ChunkData`, `SeparatorEnd` are the labels
of the decoder. `NextExchange` is the next use of the slot: it sets what
`interprete_single_command` and the head of `http_internal_response` set, and
nothing else.

A read may return any number of the bytes that have been sent, a server may write
the size of a chunk with one to four digits, and responses may follow each other
on a slot in any order. The code does not stand all of that. `misread` is a history
variable that becomes true, for the exchange, in the step in which the code takes
bytes or state for what they are not: it reads on behind the part of a line it has
kept, which the parser then does not look at (`Read`), or takes a full buffer for
the end of the connection (`ReadNothing`); it frames a body by what an earlier
response has left (`Inherits`, in `HeaderEnd`); it takes the length 0 of what is
left for the whole buffer (`Unread`, in `EnterDecoder`); it takes bytes for a size
or for the last chunk that have not been read, or are no digits (`LastChunk`,
`PartOfSize`, `Size`). No guard reads it. The model goes on behind such a step as
the code does, and so the bytes and the state it leaves are there for the next
exchange, which begins with `misread` FALSE.

Abstractions: a chunk has fewer than ten bytes; fields that nothing reads
afterwards are ignored, a Content-Length has one digit, the results of the callbacks
are not looked at (the code does not either).

### Session

`main`, `reader` and `wpc` say what the main thread, the patcher and each worker
are about to do. The reader is the patcher, except that a regular file, which
epoll refuses, is read by the main thread inside `input_init`; the actions of
`input_handling` are the same.

- *Input.* `arrived`, `fetched` and `taken` count the characters that the kernel
  has, that stdio has read, and that `fgetc` has returned: `Refill` is the read
  of stdio, one line from a terminal and all there is from a pipe or a file, and
  `InputReady` is what epoll reports, which knows nothing of stdio. `LockInput`,
  `ReadChar`, `ReadEof`, `LineRead` are the loop of `input_handling` with the
  mutex of the log (`log`) held while a line is read; `SkipEmpty`, `Refuse`,
  `Accept` are the rounds of `interprete_multiple_commands`, and `Command` the
  words that `strtok` leaves of a part (`Filtered`). `Line` is
  `g_input_buffer`: at an end of input its last character is lost.
- *Patcher.* `Test`, `Wait`, `EventStdin`, `EventSocket`, `BatchDone`: the loop
  of `epoll_patcher`, with the flag that ends it. Events of sockets and accepted
  commands hand out work (`HandOut`) and read `g_workspace`, null before
  `AllocWorkspace`.
- *Workers.* `Begin`, `Check`, `Park`, `Run`, `Log`, `Finish`; `Finish` has the
  counting for fixed input. `Cancelled` is the deferred cancellation: in a wait,
  in an exchange, or in the middle of a message, when the mutex of the log goes
  with the thread.
- *Main.* `InputInit` to `SpawnWorkers` are `threads_init`; `TestContinue`,
  `WaitContinue`, `MainWakes` are `input_cond_blocking`; `Announce` to `Exit` are
  the shutdown. `StartFails` is any call of the startup that fails.

Abstractions: a word of a command is one token; `Run` stands for an exchange;
the store before the buffer (208) and the size of the buffer are left out;
failures of `epoll_wait` are `HftpThreads`'.

### UrlWords and Exchange

`UrlWords` computes with `strstr`, `strncpy` and `strtol` as the code does: the
path is cut to the length of the host, a missing path leaves what was there, the
port is taken modulo 65536, `url_to_data` appends the rubbish that `cstrndup`
leaves without a terminator. Accounts are skipped and not kept: no caller reads
them.

`Exchange` has one program counter for each slot, the fields of `struct
http_connection` that the callbacks use (`sockfd`, `filefd`, `code`), the scratch
word (`header`), the descriptor table `desc` of the process, with the lowest free
number given out, and the contents of the local files (`disk`). `Command` claims
a slot and leaves `filefd` and `code` as they are; `BeforeRequest`, `WriteHeader`,
`WriteFile`, `ReadFileFails`, `AfterRequest` are the request, `StatusLine`,
`HeaderArrives`, `HangUp`, `BodyArrives`, `BodyEnds`, `ResponseFails`,
`AfterResponse`, `Close` the response; `Abort` has the assertions. `StatusLine` sets
the code (`http_core.c` 197) and `HeaderArrives` runs the header's callback behind
the blank line (766); `HangUp` is a connection that ends before the one or the
other, or a blank line that the parser does not see (`Response`), and goes on to
`AfterResponse` with the code of the last exchange or of this one. `astray` becomes
true when that makes a get close a number it has not opened, which it then does.
`OneShot` is `http_conn_proc`, which never writes the names of its connection, so
that its local file is the empty name. `astray`, `lost`, `opened` and `sent` are
history, and no guard reads them.

Abstractions: a file and a body have two blocks; a response is 200 or another
code; one thread works on a slot at a time (two may, see section 5); commands at
work name different local files; writes are not short.

## 3. Runs

`tlc -config <run>.cfg <module>.tla` repeats a run; `PROJECT.json` has the
module of each.

| Run | Checks | Instance |
|---|---|---|
| `event_queue` | `TypeOK`, `MissesTheYoungest`, `NoStaleHit`, refinement of `Fifo` | ring of 3, 4 events, both queues |
| `threads_exchange` | `UniqueSockets`, `HeldOnce`, `RequestSent`, `WatchedHasSlot`, `ReservationSafe`, `Undisturbed` | 2 workers, 2 slots, 2 descriptors, a get and then a put, every fault |
| `threads_backlog` | `TypeOK`, `DuplicatesAdjoin`, liveness `QueueDrains` | 1 worker, 2 slots, 3 deletes, servers that hang up |
| `session` | `TypeOK`, `TakenInOrder`, `PatcherHasWorkspace`, `FlagsOnlyFall`, liveness `WorkerLogs`, `LineTaken`, `QuitEnds` | 2 workers, 7 inputs (2 terminals, 3 pipes, 2 files), 1 socket event |
| `exchange` | `TypeOK`, `OwnFile`, `FilesClosed`, `PutWhole`, `GetWritten`, `UrlTarget` | 2 slots (symmetric), 3 exchanges, 8 commands, both programs |
| `response_body` | `TypeOK`, refinement of `Transfer`, liveness `LoopEnds` | 7 sequences of up to 2 responses, reads of 1, 4, 11, 13 bytes or all there is |
| `event_queue_overflow` | violates refinement of `Fifo` | ring of 3, 4 events outstanding |
| `threads_stale_event` | violates `ResponseHasSocket` | 1 worker, 1 slot, 1 get, no fault |
| `threads_stranded` | violates `EventDequeued` | 1 worker, 2 gets, no fault |
| `session_quit_hangs` | violates `Terminates` | 1 worker, 1 command and `quit` on a terminal |
| `exchange_false_success` | violates `SuccessDelivered` | 1 slot, 1 get |
| `response_header_split` | violates `HeaderContinued` | one response with a length |

What the passing runs show:

- The rings are queues. `MissesTheYoungest`: the epoll search misses an event that
  stays queued only when both of its first reads fall between the two writes of one
  dequeue, and then it is the youngest event that it misses. `NoStaleHit`: the conn
  search, with its live count, reports no event whose dequeue was over before it
  began. Neither holds for the other search (swap `Bound`, as the fault variant
  does, and the run fails): a search with the live count misses what lies at the end
  of the queue, one with a snapshot reports what an earlier lap has left.
- `HeldOnce`, `UniqueSockets`, `RequestSent` and `WatchedHasSlot` are stated up
  to the first time a response is given out on a connection that is in other hands
  (`crossed`): after that two workers may hold one connection, and each of the
  four can fail. Up to then they hold in every interleaving and under every fault.
- `RequestSent`: the get of the instance shares its chunk with whatever its worker
  sends next, and its header callback clears the chunk while the other exchange, a
  put, may be writing from it; the put's header is written all the same.
- `HeldOnce`: an accepted command is with the patcher, in the conn queue, or
  with one worker, never in two of these and never in none, while the slot
  search, the reservation and the dequeues interleave.
- `UniqueSockets`: `http_response` closes the descriptor and then clears
  `conn->sockfd`; the kernel may give the number out in between. Two slots then
  hold one socket, but only while a worker is between the two statements.
- `ReservationSafe`, `Undisturbed`: the patcher writes `http_process` and
  `conn_index` of a worker outside every lock the worker takes; this is safe
  because a worker with a clear flag has nothing left, and nobody else writes
  there once it has begun.
- `DuplicatesAdjoin`: what the unlocked searches miss. A descriptor whose event the
  epoll search has missed is queued again, but never a third time, and its two
  events lie side by side: the missed one was the youngest. A slot that the conn
  search has missed is not queued again before connections have crossed, even if
  the server of a queued connection hangs up, which makes its slot look free.
- `QueueDrains`: while some worker has a request to send, or has finished
  something and not yet looked at the conn queue, every queued command gets out.
- `TakenInOrder`: the commands interpreted are a beginning of those typed,
  however lines and characters arrive; only the last line of an input that ends
  without a newline loses a character.
- `PatcherHasWorkspace`, `FlagsOnlyFall`: the order of the shutdown is right. The
  patcher is joined before the workers are cancelled, so nobody hands out work
  while main waits for the flags, and nobody uses the workspaces after they are
  freed but a worker on its way into its wait (`Park`).
- `WorkerLogs`, `LineTaken`, `QuitEnds` say what always happens eventually and
  name every case in which it does not: the reader holds the log while it waits
  for the rest of a line, or spins at the end of the input; lines that stdio has
  read ahead from a pipe wait for the next ones; the signal to main came before
  its wait; a worker was cancelled with its flag set. Nothing else is in the way.
- `OwnFile`, `FilesClosed`: with the numbers of files and sockets reused among
  slots, no callback touches a number that has gone to another exchange, until a get
  whose header has not been seen goes on to close what is in `filefd` (`astray`);
  and each file is closed unless the local file or the connection could not be read,
  also after that.
- `PutWhole`, `GetWritten`: a put that awaits its answer has sent its file as it
  is on the disk, once and in order, on used slots too, and also when an earlier
  get of that file was broken off; the file of a get holds what has come; both up
  to `astray`.
- `UrlTarget`: for the urls of the plain form (`PlainUrl`: scheme, domain, `:` and
  digits, path, of which only the domain must be there, no account, no `:` or `@`
  in the path) host and port are those the url is written from, and the path is
  the url's, cut to the length of host and port. All urls of the instance are of
  that form; what the parser makes of others is in section 5.
- `ImplementsTransfer`: for bodies of every framing, cut into reads in every way
  that the pieces allow, broken off anywhere, on slots used again, the callbacks get
  the bytes in order and all of them before the loop ends without an error, in each
  exchange up to the step that misreads. The property therefore says how far the
  code is right: behind a kept line, for an inherited state, with a size that is
  cut or short, it promises nothing; everything else about the cut, the older bytes
  of the buffer and the earlier responses has no effect on what is delivered, and
  an exchange behind one that has misread is as good as any.
- `LoopEnds` needs no such condition where the server has closed the connection:
  whatever has been misread, the loop ends.

What the violated ones show is in `PROJECT.json` under `findings`, with the line
of the source that says otherwise. Four of the six need no fault at all;
`exchange_false_success` needs a local file that cannot be opened or a server
that breaks off, `event_queue_overflow` a full ring.

**Bounds.** A ring of 3 wraps, and has elements of earlier laps for a search to
meet; 4 events are one more than it has room for. Two workers are enough for
work handed over between workers and for a worker beside a reservation; one
worker makes the queues fill. Two slots and three commands make slots run out
and be reused; descriptors 3 and 4 are given out again after each close, which
is what the stale events need. `MaxCommands` bounds the input, `SentMax` = 2 the
history of written headers (two is already once too often). In `session` the
texts hold every kind of line (two parts, empty, blanks only, `quit` in and
behind other words, no newline at the end), and `MaxEvents` = 1 socket event is
enough to find the patcher between the allocation and the join. In `exchange`
`MaxFd` = 7 leaves five numbers, as many as two exchanges at work and the file
that a third has lost can hold, so that no descriptor is missing; three
exchanges (`MaxRuns`) on two slots give one slot its second use beside the
other, where numbers meet again. `Capacity` = 48 in `Response` is larger than
what a run leaves in the buffer, as the 8184 bytes of the program are. A read
that returns less than there is returns 1, 4, 11 or 13 bytes (`Pieces`): 1
reaches every cut, in the header, in a size, in a separator and in a chunk; 11
and 13 end a read behind the header of a body in chunks or behind its first
bytes, so that the decoder is reached without a line being cut; 4 is the size
the decoder asks for. Bodies are of up to three distinct bytes in up to two
chunks, which is enough for a chunk to be followed by another; of the responses
on one slot the second finds what the first has left: an encoding, a length, a
digit of a size, older bytes.

**Fairness.** `FairSpec` of `HftpThreads` has weak fairness for the patcher and
for each worker: the scheduler of the operating system runs every thread that
can run, and every lock is held for a bounded time. It has weak fairness for a
server that was asked; it has none for typing, faults, hang-ups or spurious
wake-ups. `FairSpec` of `Response` has weak fairness for the worker, for bytes
that were announced, and for the close of a server that ends its body that way.
`FairSpec` of `Session` has weak fairness for the reader, for main and for each
worker outside its exchange (`WorkerMoves`): the scheduler runs them and the
mutexes they wait for are given back. It has none for typing, for an exchange to
end (`Run`: a server need not answer), for spurious wake-ups, and for a call of
the startup to fail.

**Deadlock** is checked in the runs of `EventQueue`. In the others the system may
really stop: the client rests when nothing is typed and nothing is owed, the
process ends, the last response has been read.

## 4. Proofs

All are for every value of the constants that the named assumptions admit.
The assumptions are on the constants alone (`QueueAssumption`,
`ThreadsAssumption`, `SessionAssumption`, `ExchangeAssumption`,
`ResponseAssumption`); the theorems about the ring add `Outstanding <= QueueMax`,
which is what the overflow run does without. Nothing else is assumed: where the code
is right only up to some step, the property says up to which (`crossed`, `astray`,
`misread`), and the theorem is about every behaviour.

| Theorem | Statement |
|---|---|
| `EventQueueProofs!TypeCorrect` | `Spec => []TypeOK` |
| `EventQueueProofs!RingIsFifo` | `Spec => ImplementsFifo` |
| `EventQueueProofs!SnapshotSearchMissesTheYoungest` | `Spec => []MissesTheYoungest` |
| `EventQueueProofs!LiveSearchIsSound` | `Spec => []NoStaleHit` |
| `HftpThreadsProofs!TypeCorrect` | `Spec => []TypeOK` |
| `HftpThreadsProofs!ReservationIsSafe` | `Spec => []ReservationSafe` |
| `HftpThreadsProofs!WorkersUndisturbed` | `Spec => Undisturbed` |
| `HftpConnectionsProofs!DuplicatesSideBySide` | `Spec => []DuplicatesAdjoin` |
| `HftpConnectionsProofs!SocketsUnique` | `Spec => []UniqueSockets` |
| `HftpConnectionsProofs!WatchedHaveSlots` | `Spec => []WatchedHasSlot` |
| `HftpConnectionsProofs!RequestsSent` | `Spec => []RequestSent` |
| `HftpConnectionsProofs!CommandsHeldOnce` | `Spec => []HeldOnce` |
| `SessionProofs!WorkspaceOutlivesPatcher` | `Spec => []PatcherHasWorkspace` |
| `SessionProofs!EndingIsQuiet` | `Spec => FlagsOnlyFall` |
| `SessionProofs!TypeCorrect` | `Spec => []TypeOK` |
| `SessionProofs!CommandsTakenInOrder` | `Spec => []TakenInOrder` |
| `ExchangeProofs!FilesAreOwn` | `Spec => []OwnFile` |
| `ExchangeProofs!FilesAreGivenBack` | `Spec => []FilesClosed` |
| `ExchangeContentsProofs!TypeCorrect` | `Spec => []TypeOK` |
| `ExchangeContentsProofs!PutsSendTheFile` | `Spec => []PutWhole` |
| `ExchangeContentsProofs!GetsWriteTheBody` | `Spec => []GetWritten` |
| `ExchangeContentsProofs!UrlsAreTargeted` | `Spec => []UrlTarget` |
| `ResponseProofs!TypeCorrect` | `Spec => []TypeOK` |
| `ResponseProofs!Transfers` | `Spec => ImplementsTransfer` |

### The queues

- *RingIsFifo*: `Content` maps the ring to a sequence. `WrapStep` and
  `WrapDistinct` say how indices move modulo the size; an enqueue then appends
  to the content and a dequeue takes its head.
- *The searches*: `MissesTheYoungest` is not inductive. `MissInv` adds that a key that
  is still queued lies in the part of the array the search has not read, or is the
  one element beyond its count: a dequeue moves the start but no element, so an
  event that stays keeps its place, and the snapshot of the count covers it, but for
  the last one if count and start were read in one dequeue (`torn`). `HitInv` says
  that the unread part up to the live end holds the key only if it was queued, or
  being taken, at the beginning.

### The threads

- *TypeCorrect*: `TypeOK` is not inductive, because the patcher indexes with
  locals that are only sometimes a slot or a descriptor. `TypeInv` adds what is
  in hand at which label (`Placed`), and that whoever is flagged has been told
  what to run. The code takes the lowest idle worker, slot or descriptor;
  `LeastElement` proves that a minimum exists, by well-foundedness of the strict
  subset order on the sets below each element.
- *ReservationIsSafe*: `ReservationInv` strengthens `ReservationSafe` relative to
  `TypeInv`: it adds that the local the worker works on and the workspace agree,
  and that both are empty from the reset on until something is dequeued, so that
  clearing the flag leaves a worker that rests.
- *WorkersUndisturbed* follows from it: the only writers of another thread's
  workspace are `Reserve` and `EventAssign`, and both have a target whose flag
  is clear, hence one that rests.
- *DuplicatesSideBySide*: the patcher searches a queue and enqueues later.
  `EventsApart` carries what the search found over the steps in between: only the
  patcher enqueues, so that the count it has read is at most one short of what is
  queued, an event of the descriptor that it has missed is the youngest
  (`MissedIsYoungest`), and dequeues do not change that. It needs only types, and
  holds behind `crossed` as well. That a missed slot is not claimed
  (`CommandsApart`) is not due to the search: the slot of a queued command has its
  socket (`QueuedSlots`), so that the patcher passes it by before it searches, as
  long as nothing has crossed.
- *SocketsUnique*, *WatchedHaveSlots*, *RequestsSent*, *CommandsHeldOnce*: none is
  inductive, and none can be proved without the others. Their invariant
  `ConnectionInv` says who holds which slot in which state: the slot that the
  patcher has claimed and the slots of queued commands are in no worker's hands
  (`ClaimedSlot`, `QueuedSlots`); a worker shares its slot only with workers that
  are done with it (`SoleHolder`); a socket is open and of one slot until it is
  closed (`OpenSocket`, `OneSlot`); the two lookups of an event find the same slot
  (`FirstWith`); what a worker is about to send has the callbacks and the state
  the claim gave it (`RequestReady`); a scratch flag is set only for a header that
  its worker has written (`Scratch`); and so on. `RoleInv` adds, of each worker,
  that what it runs is what it was assigned. The search for a slot needs that the
  workers it has passed have not taken the slot since (`FreshSlot`), which is so
  because only the patcher gives out a slot whose socket is 0. Every step of the
  patcher and of a worker is a lemma (`HoldingClaimSlot`, `HoldingDequeueConn`,
  ...); the steps at which a connection may cross are proved for the case that it
  does not.

### The session

- *WorkspaceOutlivesPatcher*, *EndingIsQuiet*: neither is inductive. `Phases`
  says how far main and the reader may be apart: the reader runs only where main
  has started it, leaves only if it is told to, main is beyond the join only if
  it has left, and the workspaces are there in between. While main waits for the
  flags the reader is therefore gone, and workers only clear flags.
- *CommandsTakenInOrder*: `Intended` is computed from the whole text, the code
  sees a line, then a part of it. The invariant `Reading` says where in the text
  the reader is: a line begins behind a newline (`TakenAt`), the line in the
  buffer stands in the text from there and the cursor is at the beginning of a
  part (`SplitInside`), and what has been interpreted is what `Intended` keeps of
  the text up to that place (`SoFar`). A step from one part to the next is then a
  step from one prefix of the text to a longer one, and `FilteredSegment`,
  `FilteredSkips` and `FilteredPrefix` say what a segment adds: nothing if it is
  separators, the words of the part otherwise. They are proved by induction over
  the places of the text (below). That a line of only `quit` is in no prefix, and
  that the last line of an input without a newline has lost its last character,
  are `ScriptOfLine`, `EndSays` and `LinesAre`.
- *TypeCorrect*: part of the same invariant, since the places of the reader are
  in their range only because they are where `Reading` says.

### The exchanges

- *FilesAreOwn*, *FilesAreGivenBack*: neither is kept without the other. A free
  number is given out again, so that a file stays its exchange's own only if no
  other slot closes it: the sockets that are closed are the slots' own
  (`OwnSocket`), the files that are closed are in `filefd` of their owner
  (`Accounted`), and a get that has its number open knows it (`Recorded`). One
  lemma for each way a step can touch the table (`Connects`, `OpensFile`,
  `ClosesFile`, `Loses`, `Ends`, ...) keeps the whole invariant. A get that closes a
  number it has not opened (`HangsUp`, `astray`) breaks `OwnSocket` and `OwnFiles`;
  `Ledger`, which is the rest, is kept by every step, because one more close leaves no
  file open, and *FilesAreGivenBack* needs no more than that.
- *PutsSendTheFile*, *GetsWriteTheBody*: `Contents` adds to that invariant what an
  exchange has done so far against its file. A put has sent its header and the
  blocks before the position of its descriptor (`Sending`), a get has written what
  has come (`Receiving`), a slot that has not begun has done neither (`Fresh`), and
  the files of exchanges at work have different names (`Named`). `OwnFile` gives
  that the descriptor of a put is still that of its file when it reads on.
- *TypeCorrect*: the port is a number below 65536 for every url. `NumberIs` says
  that what `strtol` computes from digits is a natural number, by induction over
  the digits.
- *UrlsAreTargeted*: what a slot is given depends on its command alone, so that the
  invariant says only that a slot at work has one. The rest is about texts.
  `FindIs` and `FindCharacter` say what `strstr` finds, `RestFinds` at which places
  of `domain:digits/path` the separators are, `SchemeIsCut` that the first `://` is
  the end of the scheme, `CutConcat` that a text is cut where it was put together,
  and `NumberOf` that `strtol` stops behind the last digit. The digits must not be
  missing behind the `:`, or a path that begins with `//` would make the domain a
  scheme.

- *Transfers*: for every session, every number and size of chunks, every number of
  digits, every size of the buffer, every cut into reads, and every place at which
  the server breaks off. The inductive invariant `FullInv` is the types and
  `misread \/ IInv`: `IInv` holds at the beginning of each exchange, whatever the one
  before has left, and is kept by every step that does not set `misread`. It has one
  conjunct for each place in the code. Everywhere, what has been delivered is a
  beginning of the body (`Wire`), and what the parser has found is what the header
  says (`Fields`). Where the buffer holds bytes that are not used up yet, they are
  the last ones of the stream (`Loaded`); of what else is in the buffer, from
  earlier reads and exchanges, nothing is said. Where the decoder is, it misses so
  many bytes of a size, a line end, or the data of one chunk (`SizeAt`, `MidAt`,
  `DataAt`, `EndAt`), and its place in the stream follows from that: a call that
  runs out of bytes leaves in `conn->ctx` exactly what the next one needs
  (`DecoderAt`). Behind the first size of a body there are four digits, because a
  shorter size is misread where it is taken (`FourDigits`). The steps are lemmas
  (`SizeKeeps`, `ChunkDataKeeps`, ...).
  `Layout`, `ChunkBytes` and `TailBytes` say where in a stream the parts of the
  chunks are: `FlattenSeq` of the community modules is recursive, and
  `FlattenPlaces` is proved by induction over its argument. `SizeLineIs` and
  `LastSeen` say that the four bytes the decoder looks at are the size of a chunk,
  or the last one, also when an earlier call has read some of them, and
  `StrtolIs` what number they are. The refinement then follows step by step
  (`StepIs`): a step that sets `misread`, or comes behind one that did, is
  `GoAstray` or the next exchange; a step that hands out bytes is `Deliver`, because
  it makes one beginning of the body a longer one (`Given`); and where the loop
  returns without an error, either the decoder has met the last chunk, or the length
  has been reached, or the server has closed a connection whose body ends that way,
  or it has broken off (`Ends`).
- *TypeCorrect*: `TypeInv` is kept by every step (`TypesKept`), misread or not: the
  decoder's `idx` and `len` stay within twice the buffer even when it has mistaken
  what is left for all of it. That they end where the last read ended (`Window`) is
  part of `IInv`.

### Induction

The library's induction rules take an operator as a parameter, which no installed
prover can instantiate. `InductionProofs` states induction over an interval for a
*set* instead (`IntervalInduction`: a subset of `0 .. N` that has 0 and with each
number the next is all of it), from the well-foundedness of the strict subset
order, and derives from it that a function given by a base and a step for each
number exists (`RecursionExists`). `Session.Filtered` and `UrlWords.Decimal`, which
are loops of the code over the characters of a word, are written as recursive
functions over an interval, so that these two lemmas apply to them, as they do to
`FlattenSeq`, which puts the chunks of a body together.

### What is only model-checked

- Liveness: `QueueDrains`, `LoopEnds`, `WorkerLogs`, `LineTaken`, `QuitEnds`. It
  rests on fairness and `ENABLED`, which the prover does not treat.
- What the code does behind a step that sets `crossed`, `astray` or `misread`: the
  models go on as the code does, and `TypeOK`, `FilesClosed`, the first half of
  `LoopEnds` and the properties of the next exchange hold there too, but the others
  fail (section 5), and the runs that violate something show some of the ways.

## 5. Seen, and not a run of its own

- A response can be given out on a connection that is in other hands, without any
  fault: the patcher has passed the worker and an event, and then looks for the
  event in the queue from which another worker has just taken it (`threads.c`
  517-532); or the descriptor of an old event is by then that of a new command
  (546, 886). From there on two workers hold one connection: a descriptor is
  closed twice, and the second close takes the socket of whoever got its number;
  two slots have one socket; epoll watches one that no slot has; a command whose
  slot was given up by the other worker is lost (`crossed` in `HftpThreads`).
- With servers that hang up early and three commands the slot of a queued command
  is cleared when its connection is closed, looks free, and is claimed while a
  worker takes the old event off the queue (`threads.c` 319-330, 859); or it is
  missed by the search of the conn queue, because dequeues beside it have lowered
  the count (581), and is queued again.
- A worker lowers the count of the epoll queue before it moves the start index
  (`threads.c` 708-709). A search in between misses the youngest event: the patcher
  goes on (528) and, if no worker is idle, queues the descriptor once more (565).
  The second event is of a connection that is served by then, or of another that
  has got the number.
- A signal between a worker's test of its flag and its `pthread_cond_wait` is
  lost (`threads.c` 798-801): the worker sleeps on, reserved, and is never chosen
  again. The same holds of main (`threads.c` 166; `missed` in `Session`).
- The callbacks of a connection point to the scratch chunk of the worker that
  sent its request. The response to one get can clear it while that worker sends
  the next one, whose header is then written twice (`http_method.c` 220).
- An event holds a descriptor number. Dequeued after the number went to another
  connection, it makes a worker wait for the answer to a request that has not
  been sent (`threads.c` 886-894).
- A dequeued event whose connection is gone ends the dequeuing: events behind it
  wait for the next worker that finishes (`threads.c` 902-916).
- The patcher looks at the workers first and at the queue second; an event that
  a worker dequeues in between is in neither, and two workers read one response
  (`threads.c` 517-532).
- A slot is claimed without clearing the state of its last response (`threads.c`
  333): a response with a length after a chunked one is decoded as chunks, and
  nothing of it is delivered.
- The chunk decoder reads sizes in fours (`http_core.c` 528): a size of fewer digits
  is taken together with the line end and the data behind it. If a read ends after
  the first digits of a size, the first call copies the missing ones from what the
  buffer held before (533). If a read ends with the header, what it left in the
  buffer is decoded once more (504).
- When a read ends exactly behind a chunk, the decoder compares the next three
  bytes of the buffer with the last chunk although none of them has been read
  (`http_core.c` 570-572). Two earlier reads can have left a `0`, CR, LF there, the
  `0` of a size and the line end behind a longer one: the body then ends early,
  and without an error.
- A response of length 0 on a connection that stays open never ends
  (`http_core.c` 804 wants a length above 0).
- A connection that ends before the blank line of a header goes on to `after_resp`
  with the code of the first line (`http_core.c` 197, 742-753), or with the slot's
  last one if not even that has come. If the code is 200 a get reports success and
  closes the number in `filefd`: on a new slot 0, the standard input, after which the
  next get's file is descriptor 0 and its body is not written (`http_method.c` 230);
  on a used one a number that a put left there and that another exchange has by now
  (`http_method.c` 246-248; `astray` in `Exchange`).
- A path longer than the host is cut to the host's length (`url.c` 183); a `:`
  or an `@` in the path ends the domain or an account (202, 236).
- With fixed input the flag that lets main go on is set when the count is *not* 0
  (`threads.c` 836-847), and of the file only the first line is read.
- At the end of a terminal's or a pipe's input the reader spins (`threads.c` 216).
- When no slot is found for a command its socket is neither kept nor closed
  (`threads.c` 347); when `epoll_ctl` fails slot and socket are kept for ever (356).
- Workers are cancelled and not joined before the workspaces are freed
  (`threads.c` 746, 769); a worker that starts forgets what it has been assigned
  already (793).
- In the one-shot client a scheme that is too long leaves no domain, which is
  asserted (`http_net_proc.c` 71), the domain has no terminator (`utilities.c` 30),
  and the connection has no names: the request is for the empty path, and no local
  file can be opened (`http_net_proc.c` 67).
- A put of a file without extension aborts in `find_mime_type`, and one with an
  unknown extension reads behind the table (`mime_type.c` 9, 11).

## 6. Not modelled, and what could follow

Not modelled:

- the build rules and the table of mime types, which are data; the wording of
  messages and requests, and `url_print`: output; the resolution of names, which
  is the library's;
- accounts in urls and the fields of a header that no caller reads;
- short writes: a blocking socket writes all but when a handled signal comes in
  the middle, and two commands at work on one local file, of which the code
  promises nothing;
- functions that are never called (`enqueue_conn_event_raw`, `dequeue_conn_event`,
  `dequeue_epoll_event`, `http_connection_clear`), and `test_thread_io.c`, a
  program for experiments.

What could follow, in this order:

1. A variant for the loop of a response: a number that every step of the worker
   lowers until it needs another read. As an action property it could be proved,
   where `LoopEnds` is only checked.
2. An abstract specification of the hand-over of commands (accepted, held once,
   sent or failed), which `HftpThreads` implements as long as nothing has
   `crossed`; `HeldOnce` is the core of the mapping.
