--------------------------------- MODULE Session ---------------------------------
(*******************************************************************************)
(* The client from main to exit (hftp_entry.c, and of threads.c what starts    *)
(* and stops the threads and what reads the standard input): the main thread,  *)
(* the patcher as the reader of commands, the workers as far as they hold a    *)
(* flag, log, and are cancelled, and the mutex of the log, under which the     *)
(* standard input is read too (hftp.c).                                        *)
(*                                                                             *)
(* What a command does once it is accepted is HftpThreads' subject: here it is *)
(* a piece of work that a worker takes or that is queued.                      *)
(*******************************************************************************)
EXTENDS Integers, Sequences, SequencesExt, FiniteSets

CONSTANTS
  NWorkers,      \* DEFAULT_WORKER_COUNT
  Nobody,        \* the owner of the log while it is free
  Words,         \* what a command may look like; its text is one token
  Inputs,        \* what may be typed: [kind, text, closed]; see InputType
  MaxEvents      \* bound: socket events while the client runs

Newline == "nl"
Semicolon == ";"
Blank == " "
Quit == "quit"
Cut == "cut"     \* a word that has lost its last character
Tokens == Words \cup {Newline, Semicolon, Blank, Quit, Cut}

(* A terminal hands out whole lines, a pipe what is in it; a regular file is    *)
(* all there and epoll refuses it.  closed: an end of input follows the text.   *)
InputType == [kind : {"tty", "pipe", "file"}, text : Seq(Tokens), closed : BOOLEAN]

ASSUME SessionAssumption ==
  /\ NWorkers \in Nat \ {0}
  /\ Inputs \subseteq InputType
  /\ \A i \in Inputs : i.kind = "file" => i.closed
  /\ Words \cap {Newline, Semicolon, Blank, Quit, Cut} = {}
  /\ {"reader", "dead"} \cap {Nobody} = {}
  /\ MaxEvents \in Nat

Workers == 0 .. NWorkers - 1

VARIABLES
  main,       \* what the main thread is about to do, or how the process ended
  reader,     \* what the patcher (the main thread, for a file) is about to do
  due,        \* the events of the patcher's last epoll_wait not yet looked at
  wpc,        \* what each worker is about to do
  flags,      \* g_thread_work_flag
  workspace,  \* g_workspace: "none", "live" or "freed"
  log,        \* who holds g_std_inouterr_mutex
  input,      \* the input of this session
  arrived,    \* tokens of it the kernel has,
  fetched,    \*   that stdio has read,
  taken,      \*   that fgetc has returned
  start,      \* where in the text g_input_buffer begins
  eof,        \* in: the last fgetc returned EOF
  cursor,     \* of interprete_multiple_commands, an index into Line
  continue,   \* g_continue_input_flag
  remain,     \* g_remain_count
  queue,      \* pieces of work in the two event queues
  conns,      \* open connections
  events,     \* socket events the patcher has seen
  handled,    \* history: the commands interpreted
  missed      \* history: the last signal to main came before it waited

readVars == <<arrived, fetched, taken, start, eof, cursor>>
workVars == <<flags, queue, conns, events, remain>>
mainVars == <<main, workspace, continue, missed>>
vars == <<mainVars, reader, due, wpc, log, input, readVars, workVars, handled>>
noReader == <<mainVars, wpc, log, input, readVars, workVars, handled>>
noWorker == <<mainVars, reader, due, input, readVars, workVars, handled>>
noMain == <<workspace, continue, missed, reader, due, wpc, log, input, readVars,
            workVars, handled>>

Running == main \notin {"done", "failed", "crashed"}
MainAt(l) == main = l
ReaderAt(l) == Running /\ reader = l
At(w, l) == Running /\ wpc[w] = l

\* Fault variants (CountTooFar, UnsignalledMain, ...): a plausible mistake in the
\* definition that follows, to see that a property notices it.
CountTooFar == IF workspace = "none" THEN {} ELSE 0 .. NWorkers

WorkspaceCount == IF main \in {"init", "input", "create", "count"} THEN {} ELSE Workers
PatcherCancel == main \in {"join", "cancel", "spin", "destroy", "exit"}
WorkersCancelled == main \in {"spin", "destroy", "exit"}

Init ==
  /\ main = "init" /\ reader = "off" /\ due = {}
  /\ wpc = [w \in Workers |-> "none"]
  /\ flags = {} /\ workspace = "none" /\ log = Nobody
  /\ input \in Inputs
  /\ arrived = (IF input.kind = "file" THEN Len(input.text) ELSE 0)
  /\ fetched = 0 /\ taken = 0 /\ start = 0 /\ eof = FALSE /\ cursor = 0
  /\ continue = FALSE /\ remain = 0
  /\ queue = 0 /\ conns = 0 /\ events = 0
  /\ handled = <<>> /\ missed = FALSE

--------------------------------------------------------------------------------
(* The user.                                                                    *)

LineEnds == {i \in 1 .. Len(input.text) : input.text[i] = Newline}

Type ==
  /\ Running
  /\ \E n \in (arrived + 1) .. Len(input.text) :
       /\ input.kind = "tty" => n \in LineEnds
       /\ arrived' = n
  /\ UNCHANGED <<mainVars, reader, due, wpc, log, input, fetched, taken, start, eof,
                 cursor, workVars, handled>>

AtEnd == input.closed /\ arrived = Len(input.text)

--------------------------------------------------------------------------------
(* Signals.  A condition variable wakes only who waits on it already.           *)

UnsignalledMain == main

SignalledMain == IF main = "wait" THEN "test" ELSE main

Signalled(w) == [wpc EXCEPT ![w] = IF @ = "wait" THEN "check" ELSE @]

(* get_idle_work_thread_index_not_safety, and what follows it: the lowest idle  *)
(* worker is reserved and signalled, or the work is queued.                     *)
HandOut ==
  LET idle == WorkspaceCount \ flags
  IN \/ \E w \in idle :
          /\ \A v \in idle : w <= v
          /\ flags' = flags \cup {w}
          /\ wpc' = Signalled(w)
          /\ queue' = queue
     \/ /\ idle = {}
        /\ queue' = queue + 1
        /\ UNCHANGED <<flags, wpc>>

--------------------------------------------------------------------------------
(* The patcher: epoll_patcher.                                                  *)

ReaderGoes(l) == reader' = l
MainGoes(from, to) == MainAt(from) /\ main' = to /\ UNCHANGED noMain

Test ==
  /\ ReaderAt("poll")
  /\ ReaderGoes(IF PatcherCancel THEN "exit" ELSE "epoll")
  /\ UNCHANGED <<due, noReader>>

(* What epoll reports of the standard input is what the kernel holds: it knows  *)
(* nothing of what stdio has read ahead.  An end of input is reported for ever. *)
InputReadyOnce == input.kind # "file" /\ fetched = 0 /\ arrived > 0

InputReady == input.kind # "file" /\ (fetched < arrived \/ AtEnd)
SocketReady == conns > 0 /\ events < MaxEvents

Wait ==
  /\ ReaderAt("epoll")
  /\ \E sockets \in {{}, {"socket"}} :
       /\ sockets # {} => SocketReady
       /\ due' = sockets \cup (IF InputReady THEN {"stdin"} ELSE {})
  /\ ReaderGoes(IF due' = {} THEN "poll" ELSE "batch")  \* after five seconds
  /\ UNCHANGED noReader

EventStdin ==
  /\ ReaderAt("batch") /\ "stdin" \in due
  /\ due' = due \ {"stdin"}
  /\ ReaderGoes("lock")
  /\ UNCHANGED noReader

(* A socket's event first looks through g_workspace for the socket; if a worker *)
(* has it, or its event is queued, nothing more is done.                        *)
EventSocket ==
  /\ ReaderAt("batch") /\ "socket" \in due
  /\ IF workspace = "live"
       THEN /\ due' = due \ {"socket"}
            /\ events' = events + 1
            /\ main' = main
            /\ HandOut \/ UNCHANGED <<flags, wpc, queue>>
       ELSE /\ main' = "crashed"
            /\ UNCHANGED <<due, wpc, flags, queue, events>>
  /\ UNCHANGED <<workspace, continue, missed, reader, log, input, readVars, conns,
                 remain, handled>>

BatchDone ==
  /\ ReaderAt("batch") /\ due = {}
  /\ ReaderGoes("poll")
  /\ UNCHANGED <<due, noReader>>

--------------------------------------------------------------------------------
(* input_handling, run by the patcher or, for a file, by the main thread.       *)

LockInputAppends ==
  /\ ReaderAt("lock") /\ log = Nobody
  /\ log' = "reader"
  /\ ReaderGoes("read")
  /\ UNCHANGED <<mainVars, due, wpc, input, readVars, workVars, handled>>

LockInput ==
  /\ ReaderAt("lock") /\ log = Nobody
  /\ log' = "reader"
  /\ start' = taken
  /\ ReaderGoes("read")
  /\ UNCHANGED <<mainVars, due, wpc, input, arrived, fetched, taken, eof, cursor,
                 workVars, handled>>

(* One fgetc.  stdio reads when it has nothing left: from a terminal one line,  *)
(* else all there is.                                                           *)
Refill ==
  IF input.kind = "tty"
    THEN CHOOSE n \in LineEnds :
           n > fetched /\ \A k \in LineEnds : k > fetched => n <= k
    ELSE arrived

ReadCharKeepsLog ==
  /\ ReaderAt("read")
  /\ taken < arrived
  /\ fetched' = (IF taken < fetched THEN fetched ELSE Refill)
  /\ taken' = taken + 1
  /\ eof' = FALSE
  /\ reader' = IF input.text[taken'] = Newline THEN "line" ELSE reader
  /\ UNCHANGED <<log, mainVars, due, wpc, input, arrived, start, cursor, workVars, handled>>

ReadChar ==
  /\ ReaderAt("read")
  /\ taken < arrived
  /\ fetched' = (IF taken < fetched THEN fetched ELSE Refill)
  /\ taken' = taken + 1
  /\ eof' = FALSE
  /\ IF input.text[taken'] = Newline
       THEN log' = Nobody /\ ReaderGoes("line")
       ELSE UNCHANGED <<log, reader>>
  /\ UNCHANGED <<mainVars, due, wpc, input, arrived, start, cursor, workVars, handled>>

ReadEof ==
  /\ ReaderAt("read")
  /\ AtEnd /\ taken = arrived
  /\ eof' = TRUE
  /\ log' = Nobody
  /\ ReaderGoes("line")
  /\ UNCHANGED <<mainVars, due, wpc, input, arrived, fetched, taken, start, cursor,
                 workVars, handled>>

(* The line in g_input_buffer.  A newline is overwritten by the terminator, but *)
(* at the end of the input it is the last character that is.                    *)
Chars == SubSeq(input.text, start + 1, taken)
Cropped(s) == Front(s) \o (IF Last(s) \in {Semicolon, Blank} THEN <<>> ELSE <<Cut>>)
Line == IF ~eof THEN Front(Chars)
        ELSE IF Chars = <<>> THEN <<>> ELSE Cropped(Chars)

(* The reader's way back: to its events, or to the rest of the startup.         *)
InputReturns(m) ==
  /\ ReaderGoes(IF main = "input" THEN "off" ELSE "batch")
  /\ main' = IF main = "input" THEN "create" ELSE m

(* At an end of input a newline is logged first.  A line with no character is   *)
(* no reason to return: the next one is waited for.                             *)
LineRead ==
  /\ ReaderAt("line")
  /\ eof => log = Nobody
  /\ \/ /\ Line = <<Quit>>
        /\ continue' = TRUE
        /\ InputReturns(SignalledMain)
        /\ missed' = (main = "park")
        /\ cursor' = cursor
     \/ /\ Line # <<Quit>> /\ Len(Chars) > (IF eof THEN 0 ELSE 1)
        /\ ReaderGoes("split")
        /\ cursor' = 1
        /\ UNCHANGED <<main, continue, missed>>
     \/ /\ Line # <<Quit>> /\ Len(Chars) = (IF eof THEN 0 ELSE 1)
        /\ ReaderGoes("lock")
        /\ UNCHANGED <<main, continue, missed, cursor>>
  /\ UNCHANGED <<workspace, due, wpc, log, input, arrived, fetched, taken, start, eof,
                 workVars, handled>>

--------------------------------------------------------------------------------
(* interprete_multiple_commands: one round of its loop.  The rest of the line   *)
(* up to a semicolon is a command unless it is empty.                           *)

Rest == SubSeq(Line, cursor, Len(Line))
Part == IF Semicolon \in ToSet(Rest)
          THEN SubSeq(Rest, 1, SelectInSeq(Rest, LAMBDA t : t = Semicolon) - 1)
          ELSE Rest
IsEmpty(part) == ToSet(part) \subseteq {Blank}

\* The first n tokens of s but those in seps, for every n.
Filtered(s, seps) ==
  LET f[n \in 0 .. Len(s)] ==
        IF n = 0 THEN <<>>
        ELSE IF s[n] \in seps THEN f[n - 1] ELSE Append(f[n - 1], s[n])
  IN f

Command(part) == Filtered(part, {Blank})[Len(part)]

NextPart ==
  IF Semicolon \in ToSet(Rest)
    THEN cursor' = cursor + Len(Part) + 1 /\ UNCHANGED <<main, reader>>
    ELSE cursor' = 0 /\ InputReturns(main)

SkipEmpty ==
  /\ ReaderAt("split") /\ IsEmpty(Part)
  /\ NextPart
  /\ UNCHANGED <<workspace, continue, missed, due, wpc, log, input, arrived, fetched,
                 taken, start, eof, workVars, handled>>

(* interprete_single_command, when it refuses: it says so in the log.           *)
Refuse ==
  /\ ReaderAt("split") /\ ~IsEmpty(Part)
  /\ log = Nobody
  /\ handled' = handled \o Command(Part)
  /\ NextPart
  /\ UNCHANGED <<workspace, continue, missed, due, wpc, log, input, arrived, fetched,
                 taken, start, eof, workVars>>

(* When it accepts: the search for a slot reads g_workspace, for as many        *)
(* workers as g_workspace_count says.                                           *)
Accept ==
  /\ ReaderAt("split") /\ ~IsEmpty(Part) /\ Command(Part) # <<Quit>>
  /\ IF workspace = "live" \/ WorkspaceCount = {}
       THEN /\ NextPart
            /\ handled' = handled \o Command(Part)
            /\ conns' = conns + 1
            /\ remain' = remain + 1
            /\ HandOut
       ELSE /\ main' = "crashed"
            /\ UNCHANGED <<reader, cursor, handled, conns, remain, flags, wpc, queue>>
  /\ UNCHANGED <<workspace, continue, missed, due, log, input, arrived, fetched, taken,
                 start, eof, events>>

--------------------------------------------------------------------------------
(* A worker: epoll_worker, without what it does to connections.                 *)

WorkerGoes(w, l) == wpc' = [wpc EXCEPT ![w] = l]

(* The thread begins: it forgets the connection it may have been assigned since *)
(* the flag word exists, and the exchange it then runs has none.                *)
Begin(w) ==
  /\ At(w, "new")
  /\ WorkerGoes(w, "check")
  /\ main' \in IF w \in flags THEN {main, "crashed"} ELSE {main}
  /\ UNCHANGED <<workspace, continue, missed, reader, due, log, input, readVars,
                 workVars, handled>>

(* is_idle_thread, and the way from there into the wait.                        *)
Check(w) ==
  /\ At(w, "check")
  /\ WorkerGoes(w, IF w \in flags THEN "run" ELSE "park")
  /\ UNCHANGED <<log, noWorker>>

(* The mutex and the condition variable are in g_workspace, which may be gone.  *)
Park(w) ==
  /\ At(w, "park")
  /\ WorkerGoes(w, "wait")
  /\ main' \in IF workspace = "freed" THEN {main, "crashed"} ELSE {main}
  /\ UNCHANGED <<workspace, continue, missed, reader, due, log, input, readVars,
                 workVars, handled>>

SpuriousWake(w) ==
  /\ At(w, "wait")
  /\ WorkerGoes(w, "check")
  /\ UNCHANGED <<log, noWorker>>

(* http_process, which ends by a message in the log or without one.             *)
Run(w) ==
  /\ At(w, "run")
  /\ \E l \in {"log", "finish"} : WorkerGoes(w, l)
  /\ UNCHANGED <<log, noWorker>>

Log(w) ==
  /\ At(w, "log") /\ log = Nobody
  /\ WorkerGoes(w, "finish")
  /\ UNCHANGED <<log, noWorker>>

(* What follows http_process.  With fixed input a connection that is closed is  *)
(* counted, and main is told to go on while there are others.  Then the worker  *)
(* takes what is queued, or rests.                                              *)
Finish(w) ==
  /\ At(w, "finish")
  /\ \E closed \in BOOLEAN :
       /\ closed => conns > 0
       /\ conns' = conns - (IF closed THEN 1 ELSE 0)
       /\ IF closed /\ input.kind = "file"
            THEN /\ remain' = remain - 1
                 /\ continue' = (continue \/ remain' # 0)
                 /\ main' = SignalledMain
                 /\ missed' = (main = "park")
            ELSE UNCHANGED <<main, remain, continue, missed>>
  /\ \/ /\ queue > 0
        /\ queue' = queue - 1
        /\ WorkerGoes(w, "run")
        /\ flags' = flags
     \/ /\ queue = 0
        /\ flags' = flags \ {w}
        /\ WorkerGoes(w, "check")
        /\ queue' = queue
  /\ UNCHANGED <<workspace, reader, due, log, input, readVars, events, handled>>

(* The cancellation of a thread is deferred to a call that may block: a wait,   *)
(* an input or output of the exchange, a message half written to the log.  Its  *)
(* flag stays set and what it holds stays held.                                 *)
Cancelled(w) ==
  /\ Running /\ WorkersCancelled
  /\ \/ /\ wpc[w] \in {"wait", "run"} /\ log' = log
     \/ /\ wpc[w] = "log" /\ log = Nobody /\ log' = "dead"
  /\ WorkerGoes(w, "dead")
  /\ UNCHANGED noWorker

--------------------------------------------------------------------------------
(* The main thread: main, threads_init, input_cond_blocking, threads_join,      *)
(* threads_destroy.                                                             *)

StartFails ==
  /\ main \in {"init", "create", "alloc", "spawn"}
  /\ MainGoes(main, "failed")

(* epoll_create, and input_init: epoll refuses a regular file, which is then    *)
(* read on the spot.                                                            *)
InputInit ==
  /\ MainAt("init")
  /\ main' = IF input.kind = "file" THEN "input" ELSE "create"
  /\ reader' = IF input.kind = "file" THEN "lock" ELSE reader
  /\ UNCHANGED <<workspace, continue, missed, due, wpc, log, input, readVars,
                 workVars, handled>>

CreatePatcher ==
  /\ MainAt("create") /\ main' = "count"
  /\ reader' = "poll"
  /\ UNCHANGED <<workspace, continue, missed, due, wpc, log, input, readVars,
                 workVars, handled>>

(* workspace_init: g_workspace_count is set, memory is allocated, then the      *)
(* threads are made.                                                            *)
CountWorkspace == MainGoes("count", "alloc")

AllocWorkspace ==
  /\ MainAt("alloc") /\ main' = "spawn"
  /\ workspace' = "live"
  /\ UNCHANGED <<continue, missed, wpc, reader, due, log, input, readVars, workVars,
                 handled>>

SpawnWorkers ==
  /\ MainAt("spawn") /\ main' = "test"
  /\ wpc' = [w \in Workers |-> "new"]
  /\ UNCHANGED <<workspace, continue, missed, reader, due, log, input, readVars,
                 workVars, handled>>

(* input_cond_blocking: the flag is tested before the mutex is taken.           *)
TestContinue == MainGoes("test", IF continue THEN "announce" ELSE "park")
WaitContinue == MainGoes("park", "wait")
MainWakes == MainGoes("wait", "test")

(* "it will terminated.. wait..", and g_epoll_patcher_cancel; then the patcher  *)
(* is joined, the workers are cancelled, and their flags are waited for.        *)
AnnounceWorkersFirst == log = Nobody /\ MainGoes("announce", "cancel")
JoinPatcherNot == MainGoes("join", "cancel")

Announce == log = Nobody /\ MainGoes("announce", "join")
JoinPatcher == reader = "exit" /\ MainGoes("join", "cancel")
CancelWorkers == MainGoes("cancel", "spin")
JoinWorkers == flags = {} /\ MainGoes("spin", "destroy")

Destroy ==
  /\ MainAt("destroy") /\ main' = "exit"
  /\ workspace' = "freed"
  /\ UNCHANGED <<continue, missed, wpc, reader, due, log, input, readVars, workVars,
                 handled>>

Exit == MainGoes("exit", "done")

--------------------------------------------------------------------------------

InputHandling ==
  LockInput \/ ReadChar \/ ReadEof \/ LineRead \/ SkipEmpty \/ Refuse \/ Accept

Reader == Test \/ Wait \/ EventStdin \/ EventSocket \/ BatchDone \/ InputHandling

\* What a worker does whatever its server does.
WorkerMoves(w) == Begin(w) \/ Check(w) \/ Park(w) \/ Log(w) \/ Finish(w) \/ Cancelled(w)

MainMoves ==
  \/ InputInit \/ CreatePatcher \/ CountWorkspace \/ AllocWorkspace \/ SpawnWorkers
  \/ TestContinue \/ WaitContinue \/ Announce
  \/ JoinPatcher \/ CancelWorkers \/ JoinWorkers \/ Destroy \/ Exit

Next ==
  \/ Type
  \/ Reader
  \/ \E w \in Workers : WorkerMoves(w) \/ Run(w) \/ SpuriousWake(w)
  \/ MainMoves \/ StartFails \/ MainWakes

Spec == Init /\ [][Next]_vars

(* The threads are scheduled.  A server need not answer (Run), a condition      *)
(* variable need not wake without a signal, the user need not type.             *)
Fairness ==
  /\ WF_vars(Reader)
  /\ WF_vars(MainMoves)
  /\ \A w \in Workers : WF_vars(WorkerMoves(w))

FairSpec == Spec /\ Fairness

--------------------------------------------------------------------------------
(* Properties.                                                                  *)

MainLabels == {"init", "input", "create", "count", "alloc", "spawn", "test", "park",
               "wait", "announce", "join", "cancel", "spin", "destroy", "exit",
               "done", "failed", "crashed"}

\* Every variable has its type.
TypeOK ==
  /\ main \in MainLabels
  /\ reader \in {"off", "poll", "epoll", "batch", "lock", "read", "line", "split", "exit"}
  /\ due \subseteq {"stdin", "socket"}
  /\ wpc \in [Workers -> {"none", "new", "check", "park", "wait", "run", "log", "finish",
                          "dead"}]
  /\ flags \subseteq Workers
  /\ workspace \in {"none", "live", "freed"}
  /\ log \in {Nobody, "reader", "dead"}
  /\ input \in Inputs
  /\ start \in Nat /\ taken \in start .. fetched /\ fetched \in 0 .. arrived
  /\ arrived \in 0 .. Len(input.text)
  /\ cursor \in 0 .. Len(input.text) + 1
  /\ eof \in BOOLEAN /\ continue \in BOOLEAN /\ missed \in BOOLEAN
  /\ remain \in Int
  /\ queue \in Nat /\ conns \in Nat /\ events \in Nat
  /\ handled \in Seq(Tokens)

(* The commands a text holds, whatever the pieces it comes in: its words in     *)
(* their order, without the lines that only quit.  A last line without newline  *)
(* has lost its last character.                                                 *)
Unended(i) == i.closed /\ i.text # <<>> /\ Last(i.text) # Newline
Lines(i) == IF Unended(i) THEN Cropped(i.text) \o <<Newline>> ELSE i.text
Quits(t) ==
  {k \in 1 .. Len(t) :
     /\ t[k] = Quit
     /\ k = 1 \/ t[k - 1] = Newline
     /\ k < Len(t) => t[k + 1] = Newline}
Script(t) == [k \in 1 .. Len(t) |-> IF k \in Quits(t) THEN Newline ELSE t[k]]
Intended(i) ==
  Filtered(Script(Lines(i)), {Newline, Semicolon, Blank})[Len(Lines(i))]

\* threads.c:184-234, 403-446: whatever way the characters come in (a line at a
\* time, pieces of lines, several lines in one read, an end of input in the middle
\* of a line), the commands interpreted so far are the first ones typed, each
\* once and in order.
TakenInOrder == IsPrefix(handled, Intended(input))

\* threads.c:518-520, 546, 759-770: from the end of the startup on, as long as the
\* patcher runs the workspaces it reads and assigns are allocated.
PatcherHasWorkspace ==
  main \in {"test", "park", "wait", "announce", "join", "cancel", "spin", "destroy", "exit"}
    /\ reader # "exit" => workspace = "live"

\* threads.c:744-757, 936-940: while main waits for the flag word to become 0 no
\* thread sets a flag any more, and no command is accepted.
FlagsOnlyFall ==
  [][main = "spin" => flags' \subseteq flags /\ handled' = handled]_vars

\* The reader waits for input with the log in its hands.
AwaitsInput == reader = "read" /\ taken = arrived /\ ~AtEnd
\* The reader is at the end of the input, where a line without a character is read
\* again and again.
AtEof == reader \in {"lock", "read", "line"} /\ AtEnd /\ taken = arrived

\* threads.c:193-200, hftp.c:34-37: a worker that has something to say in the log
\* says it, unless the reader waits for the rest of a line, is at the end of the
\* input, or a cancelled worker has taken the log with it.
WorkerLogs ==
  \A w \in Workers :
    (wpc[w] = "log") ~> (wpc[w] # "log" \/ AwaitsInput \/ AtEof \/ log = "dead" \/ ~Running)

\* threads.c:143, 196, hftp.c:129-132: the reader always catches up with what is
\* typed, or the session ends; all that can stay behind is what stdio has read
\* ahead from a pipe in which nothing more has come.  (A regular file is left
\* after its first line.)
LineTaken ==
  []<>(\/ taken = arrived
       \/ continue \/ ~Running
       \/ fetched = arrived /\ input.kind = "pipe"
       \/ input.kind = "file")

\* hftp_entry.c:51-59, threads.c:164-172, 474-479, 744-757: once the session is to
\* end it ends, but in four cases: the signal came between main's test and its
\* wait, the reader waits for the rest of a line, it is at the end of the input,
\* or a worker was cancelled with its flag set.
QuitEnds ==
  continue ~> \/ ~Running
              \/ missed
              \/ AwaitsInput \/ AtEof
              \/ \E w \in flags : wpc[w] = "dead"

\* hftp_entry.c:53: "it will terminated.. wait..".
Terminates == (main = "join") ~> ~Running
=================================================================================
