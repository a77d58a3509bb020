-------------------------------- MODULE Exchange --------------------------------
(*******************************************************************************)
(* What an exchange does to descriptors and to local files: the callbacks of   *)
(* the four methods (http_method.c) in the order in which http_request and     *)
(* http_response, or http_one_req_resp, call them (http_core.c), on slots that *)
(* are used again and again and share the descriptor table of the process.     *)
(*                                                                             *)
(* Two ways lead here.  "threads": a command of the client, one slot per       *)
(* connection, both halves run by workers; that at most one worker is at work  *)
(* on a slot is HftpThreads' subject.  "one_shot": http_conn_proc, a program   *)
(* of one exchange.  How the body is cut into reads is Response's.             *)
(*******************************************************************************)
EXTENDS Integers, Sequences, FiniteSets, UrlWords

CONSTANTS
  Slots,          \* of g_conn_workspace
  MaxFd,          \* the largest descriptor
  Modes,          \* subset of {"threads", "one_shot"}
  Commands,       \* [method, url, file]: what may be asked; see CommandType
  MimeTypes,      \* the extensions g_mime_types has a row for
  MaxRuns         \* bound: exchanges

NoFile == [name |-> "", extension |-> "none"]   \* local_dir of a cleared slot
NoCommand == [method |-> "none", file |-> NoFile]
Rubbish == <<"?">>          \* characters that nobody has written
NoRow == "unknown"          \* an extension without a row in the table
OK == 200
Codes == {OK, 404}

(* A url is given with the parts it is written in and the port it means, a file *)
(* by its name and its extension.                                               *)
CommandType(c) ==
  /\ c.method \in {"get", "put", "propfind", "delete"}
  /\ DOMAIN c.url = {"text", "scheme", "domain", "digits", "path", "port"}
  /\ \A part \in {"text", "scheme", "domain", "digits", "path"} : c.url[part] \in Seq(STRING)
  /\ c.file.name # NoFile.name
  /\ c.file.extension \in MimeTypes \cup {NoRow, "none"}

ASSUME ExchangeAssumption ==
  /\ \A c \in Commands : CommandType(c)
  /\ MaxFd \in Nat /\ MaxRuns \in Nat
  /\ Modes \subseteq {"threads", "one_shot"}

Stdin == 0
Fds == {Stdin} \cup 3 .. MaxFd       \* 1 and 2 stay open
Block == <<"first", "second">>       \* a file, a body: its blocks

\* Fault variants (IsFileAboveThree, ...): a plausible mistake in the definition
\* that follows, to see that a property notices it.

VARIABLES
  mode,        \* the program
  pc,          \* what is done next for each slot
  run,         \* exchanges begun on it
  cmd,         \* the command, from which the slot has its names
  sockfd, filefd, code,      \* of struct http_connection
  header,      \* req_header_write_fin, req_write_once of the scratch chunk
  got,         \* blocks of the body read
  desc,        \* the descriptor table
  disk,        \* the local files
  sent,        \* history: what the request has put on the wire
  opened,      \* history: the get has its file open
  lost,        \* history: the exchanges that failed with their file open
  astray,      \* history: a get is about to close a number that it has not opened
  outcome      \* "running", or how the process ended

cmdVars == <<run, cmd>>
vars == <<mode, pc, cmdVars, sockfd, filefd, code, header, got, desc, disk, sent,
          opened, lost, astray, outcome>>

Free == [kind |-> "free"]
Files == {c.file.name : c \in Commands}

FreeFds == {f \in Fds : desc[f] = Free}
Lowest(f) == f \in FreeFds /\ \A g \in FreeFds : f <= g
Opened(f, what) == desc' = [desc EXCEPT ![f] = what]
ClosedTable(f) == IF f \in Fds THEN [desc EXCEPT ![f] = Free] ELSE desc

Init ==
  /\ mode \in Modes
  /\ pc = [s \in Slots |-> "idle"] /\ run = [s \in Slots |-> 0]
  /\ cmd = [s \in Slots |-> NoCommand]
  /\ sockfd = [s \in Slots |-> 0] /\ filefd = [s \in Slots |-> 0]
  /\ code = [s \in Slots |-> 0] /\ got = [s \in Slots |-> 0]
  /\ header = [s \in Slots |-> FALSE]
  /\ desc = [f \in Fds |-> IF f = Stdin THEN [kind |-> "stdin"] ELSE Free]
  /\ disk = [n \in Files |-> Block]
  /\ sent = [s \in Slots |-> <<>>] /\ opened = [s \in Slots |-> FALSE]
  /\ lost = {} /\ astray = FALSE /\ outcome = "running"

At(s, l) == outcome = "running" /\ pc[s] = l
Goes(s, l) == pc' = [pc EXCEPT ![s] = l]

--------------------------------------------------------------------------------
(* How an exchange begins.                                                      *)

Begins(s, c) ==
  /\ run' = [run EXCEPT ![s] = @ + 1]
  /\ cmd' = [cmd EXCEPT ![s] = c]

(* The names of the connection, written when it is claimed and left alone.  The *)
(* one-shot client never writes them; it connects to what url_to_data has found.*)
InThreads == [c \in Commands |-> UrlToWords(c.url.text, Rubbish)]
InOneShot == [c \in Commands |-> [UrlToData(c.url.text, <<>>) EXCEPT !.dir = <<>>]]
Target(s) == IF mode = "threads" THEN InThreads[cmd[s]] ELSE InOneShot[cmd[s]]
LocalDir(s) == IF mode = "threads" THEN cmd[s].file ELSE NoFile

Socket(s) == [kind |-> "socket", owner |-> s, run |-> run[s] + 1]

MoreRuns == MapThenSumSet(LAMBDA s : run[s], Slots) < MaxRuns
Understood == {c \in Commands : ~SchemeTooLong(c.url.text)}

(* interprete_single_command and the slot it claims: the rest of the slot is as *)
(* the last exchange left it.  (No two commands at work name one local file.)   *)
Command(s) ==
  /\ mode = "threads" /\ At(s, "idle") /\ MoreRuns
  /\ \E c \in Understood, f \in Fds :
       /\ \A t \in Slots : pc[t] # "idle" => cmd[t].file.name # c.file.name
       /\ Lowest(f)
       /\ Begins(s, c)
       /\ sockfd' = [sockfd EXCEPT ![s] = f]
       /\ Opened(f, Socket(s))
  /\ Goes(s, "before_req")
  /\ UNCHANGED <<mode, filefd, code, header, got, disk, sent, opened, lost, astray,
                 outcome>>

(* http_conn_proc and process_method: the result of url_to_data is not looked   *)
(* at, so that a scheme too long leaves no domain, which host_to_addrv4 asserts; *)
(* rubbish behind the domain makes it one that is not found.                    *)
OneShot(s) ==
  /\ mode = "one_shot" /\ At(s, "idle") /\ \A t \in Slots : run[t] = 0
  /\ \E c \in Commands :
       /\ Begins(s, c)
       /\ \/ /\ c \notin Understood
             /\ outcome' = "aborted"
             /\ UNCHANGED <<pc, sockfd, desc>>
          \/ /\ c \in Understood
             /\ UrlToData(c.url.text, Rubbish).domain # c.url.domain
             /\ outcome' = "ended"
             /\ UNCHANGED <<pc, sockfd, desc>>
          \/ /\ c \in Understood
             /\ \E f \in Fds :
                  /\ Lowest(f)
                  /\ sockfd' = [sockfd EXCEPT ![s] = f]
                  /\ Opened(f, Socket(s))
             /\ Goes(s, "before_req")
             /\ outcome' = outcome
  /\ UNCHANGED <<mode, filefd, code, header, got, disk, sent, opened, lost,
                 astray>>

--------------------------------------------------------------------------------
(* The request: before_req, req_write as often as it has something to write,    *)
(* after_req.                                                                   *)

Method(s) == cmd[s].method
OnDisk(file) == file.name \in Files
FileOf(s, kind) ==
  [kind |-> kind, name |-> LocalDir(s).name, pos |-> 0, owner |-> s, run |-> run[s]]

OpenFails(s, next) ==
  /\ filefd' = [filefd EXCEPT ![s] = -1]
  /\ Goes(s, next)
  /\ UNCHANGED <<desc, disk, opened>>

BeforeRequest(s) ==
  /\ At(s, "before_req") /\ sockfd[s] > 2
  /\ \/ /\ Method(s) # "put"
        /\ Goes(s, "write")
        /\ UNCHANGED <<filefd, desc, disk, opened>>
     \/ /\ Method(s) = "put"
        /\ OpenFails(s, "fail")
     \/ /\ Method(s) = "put" /\ OnDisk(LocalDir(s))
        /\ \E f \in Fds :
             /\ Lowest(f)
             /\ filefd' = [filefd EXCEPT ![s] = f]
             /\ Opened(f, FileOf(s, "read"))
        /\ Goes(s, "write")
        /\ UNCHANGED <<disk, opened>>
  /\ UNCHANGED <<mode, cmdVars, sockfd, code, header, got, sent, lost, astray,
                 outcome>>

(* find_mime_type compares past the last row: an extension without a row is not *)
(* "*/*".                                                                       *)
HasMimeType(extension) == extension \in MimeTypes

PutHeader(s) ==
  /\ Method(s) = "put"
  /\ filefd[s] > 2 /\ HasMimeType(LocalDir(s).extension)
  /\ header' = [header EXCEPT ![s] = TRUE]
  /\ sent' = [sent EXCEPT ![s] = <<"header">>]
  /\ pc' = pc

\* Its second call has nothing more to write.
GetHeader(s) ==
  /\ Method(s) = "get"
  /\ header' = [header EXCEPT ![s] = TRUE]
  /\ sent' = [sent EXCEPT ![s] = <<"header">>]
  /\ Goes(s, "after_req")

\* Formatted, and 0 returned: nothing is written.
PropfindDeleteHeader(s) ==
  /\ Method(s) \in {"propfind", "delete"}
  /\ Goes(s, "after_req")
  /\ UNCHANGED <<header, sent>>

WriteHeader(s) ==
  /\ At(s, "write") /\ ~header[s]
  /\ PutHeader(s) \/ GetHeader(s) \/ PropfindDeleteHeader(s)
  /\ UNCHANGED <<mode, cmdVars, sockfd, filefd, code, got, desc, disk, opened, lost,
                 astray, outcome>>

\* assert(sockfd > 2), assert(filefd > 2), assert(extension != NULL).
Abort(s) ==
  /\ \/ At(s, "before_req") /\ sockfd[s] <= 2
     \/ /\ At(s, "write") /\ Method(s) = "put"
        /\ filefd[s] <= 2 \/ (~header[s] /\ ~HasMimeType(LocalDir(s).extension))
  /\ outcome' = IF pc[s] = "write" /\ filefd[s] > 2 /\ LocalDir(s).extension = NoRow
                  THEN "crashed" ELSE "aborted"
  /\ UNCHANGED <<mode, pc, cmdVars, sockfd, filefd, code, header, got, desc, disk, sent,
                 opened, lost, astray>>

(* A put goes on with its file until a read of it returns nothing.  (What a     *)
(* number gives that is no longer its file is left open: nothing, here.)        *)
WriteFile(s) ==
  /\ At(s, "write") /\ header[s] /\ Method(s) = "put" /\ filefd[s] > 2
  /\ LET file == desc[filefd[s]]
     IN IF file.kind = "read" /\ file.pos < Len(disk[file.name])
             THEN /\ sent' = [sent EXCEPT ![s] = Append(@, disk[file.name][file.pos + 1])]
                  /\ desc' = [desc EXCEPT ![filefd[s]].pos = @ + 1]
                  /\ pc' = pc
             ELSE Goes(s, "after_req") /\ UNCHANGED <<sent, desc>>
  /\ UNCHANGED <<mode, cmdVars, sockfd, filefd, code, header, got, disk, opened, lost,
                 astray, outcome>>

ReadFileFails(s) ==
  /\ At(s, "write") /\ header[s] /\ Method(s) = "put" /\ filefd[s] > 2
  /\ lost' = lost \cup {<<s, run[s]>>}
  /\ Goes(s, "fail")
  /\ UNCHANGED <<mode, cmdVars, sockfd, filefd, code, header, got, desc, disk, sent,
                 opened, astray, outcome>>

\* filefd keeps the number.
AfterRequest(s) ==
  /\ At(s, "after_req")
  /\ desc' = IF Method(s) = "put" THEN ClosedTable(filefd[s]) ELSE desc
  /\ Goes(s, "await")
  /\ UNCHANGED <<mode, cmdVars, sockfd, filefd, code, header, got, disk, sent, opened,
                 lost, astray, outcome>>

--------------------------------------------------------------------------------
(* The response: its code, the header's callback, whose result is not looked    *)
(* at, the body's, after_resp.                                                  *)

(* The first line of the header, which has the code.                            *)
StatusLine(s) ==
  /\ At(s, "await")
  /\ \E c \in Codes : code' = [code EXCEPT ![s] = c]
  /\ Goes(s, "header")
  /\ UNCHANGED <<mode, cmdVars, sockfd, filefd, header, got, desc, disk, sent, opened,
                 lost, astray, outcome>>

(* The blank line behind the header: a get whose code is 200 opens its file.    *)
HeaderArrives(s) ==
  /\ At(s, "header")
  /\ \/ /\ ~(Method(s) = "get" /\ code[s] = OK)
        /\ Goes(s, "body")
        /\ UNCHANGED <<filefd, desc, disk, opened>>
     \/ /\ Method(s) = "get" /\ code[s] = OK
        /\ OpenFails(s, "body")
     \/ /\ Method(s) = "get" /\ code[s] = OK /\ OnDisk(LocalDir(s))
        /\ \E f \in Fds :
             /\ Lowest(f)
             /\ filefd' = [filefd EXCEPT ![s] = f]
             /\ Opened(f, FileOf(s, "write"))
        /\ disk' = [disk EXCEPT ![LocalDir(s).name] = <<>>]
        /\ opened' = [opened EXCEPT ![s] = TRUE]
        /\ Goes(s, "body")
  /\ UNCHANGED <<mode, cmdVars, sockfd, code, header, got, sent, lost, astray, outcome>>

(* The connection ends before the blank line is seen, or cannot be read: no     *)
(* failure.  resp.code is that of the last exchange of the slot until the first *)
(* line has come; if it is 200, a get goes on to close what is in filefd.       *)
HangUp(s) ==
  /\ At(s, "await") \/ At(s, "header")
  /\ astray' = (astray \/ (Method(s) = "get" /\ code[s] = OK /\ filefd[s] \in Fds))
  /\ Goes(s, "after_resp")
  /\ UNCHANGED <<mode, cmdVars, sockfd, filefd, code, header, got, desc, disk, sent,
                 opened, lost, outcome>>

Written(fd, block) ==
  LET file == desc[fd]
  IN IF file.kind = "write" THEN [disk EXCEPT ![file.name] = Append(@, block)] ELSE disk

IsFileAboveThree(fd) == fd > 3

IsFile(fd) == fd > 2

BodyArrives(s) ==
  /\ At(s, "body") /\ Method(s) = "get" /\ code[s] = OK /\ got[s] < Len(Block)
  /\ got' = [got EXCEPT ![s] = @ + 1]
  /\ disk' = IF IsFile(filefd[s])
               THEN Written(filefd[s], Block[got[s] + 1]) ELSE disk
  /\ UNCHANGED <<mode, pc, cmdVars, sockfd, filefd, code, header, desc, sent, opened,
                 lost, astray, outcome>>

(* The end of the body, or of the connection before it: nobody tells the two    *)
(* apart.                                                                       *)
BodyEnds(s) ==
  /\ At(s, "body")
  /\ Goes(s, "after_resp")
  /\ UNCHANGED <<mode, cmdVars, sockfd, filefd, code, header, got, desc, disk, sent,
                 opened, lost, astray, outcome>>

(* A read of a chunk that fails, or a body longer than announced: no callback   *)
(* is told.                                                                     *)
ResponseFails(s) ==
  /\ At(s, "body")
  /\ lost' = IF opened[s] THEN lost \cup {<<s, run[s]>>} ELSE lost
  /\ Goes(s, "fail")
  /\ UNCHANGED <<mode, cmdVars, sockfd, filefd, code, header, got, desc, disk, sent,
                 opened, astray, outcome>>

AfterResponseForgets(s) ==
  /\ At(s, "after_resp")
  /\ filefd' = [filefd EXCEPT ![s] = IF Method(s) = "get" THEN 0 ELSE @]
  /\ Goes(s, "close")
  /\ UNCHANGED <<mode, cmdVars, sockfd, code, header, got, desc, disk, sent, opened,
                 lost, astray, outcome>>

(* A get closes its file and reports success, both by the code alone.           *)
AfterResponse(s) ==
  /\ At(s, "after_resp")
  /\ IF Method(s) = "get" /\ code[s] = OK
       THEN /\ desc' = ClosedTable(filefd[s])
            /\ filefd' = [filefd EXCEPT ![s] = 0]
       ELSE UNCHANGED <<desc, filefd>>
  /\ Goes(s, "close")
  /\ UNCHANGED <<mode, cmdVars, sockfd, code, header, got, disk, sent, opened, lost,
                 astray, outcome>>

SocketAndFileClosed(s) ==
  [f \in Fds |-> IF f \in {sockfd[s], filefd[s]} THEN Free ELSE desc[f]]
ChunkKept(s) == header' = header

SocketClosed(s) == ClosedTable(sockfd[s])
ChunkCleared(s) == header' = [header EXCEPT ![s] = FALSE]

(* The socket is closed, also after a failure, but not a failure of the         *)
(* one-shot client, which ends.  By now the worker has cleared its scratch      *)
(* chunk, and the locals are gone.                                              *)
Close(s) ==
  /\ At(s, "close") \/ At(s, "fail")
  /\ IF mode = "threads"
       THEN /\ desc' = SocketClosed(s)
            /\ sockfd' = [sockfd EXCEPT ![s] = 0]
            /\ outcome' = outcome
       ELSE /\ outcome' = "ended"
            /\ IF pc[s] = "close"
                 THEN /\ desc' = SocketClosed(s)
                      /\ sockfd' = [sockfd EXCEPT ![s] = -1]
                 ELSE UNCHANGED <<desc, sockfd>>
  /\ Goes(s, "idle")
  /\ cmd' = [cmd EXCEPT ![s] = NoCommand]
  /\ ChunkCleared(s)
  /\ got' = [got EXCEPT ![s] = 0]
  /\ sent' = [sent EXCEPT ![s] = <<>>]
  /\ opened' = [opened EXCEPT ![s] = FALSE]
  /\ UNCHANGED <<mode, run, filefd, code, disk, lost, astray>>

Step(s) ==
  \/ Command(s) \/ OneShot(s)
  \/ BeforeRequest(s) \/ WriteHeader(s) \/ WriteFile(s) \/ ReadFileFails(s)
  \/ AfterRequest(s) \/ Abort(s)
  \/ StatusLine(s) \/ HeaderArrives(s) \/ HangUp(s)
  \/ BodyArrives(s) \/ BodyEnds(s) \/ ResponseFails(s)
  \/ AfterResponse(s) \/ Close(s)

Next == \E s \in Slots : Step(s)
Spec == Init /\ [][Next]_vars

--------------------------------------------------------------------------------
(* Properties.                                                                  *)

Labels == {"idle", "before_req", "write", "after_req", "await", "header", "body",
           "after_resp", "close", "fail"}
Descriptors ==
  {Free, [kind |-> "stdin"]}
    \cup [kind : {"socket"}, owner : Slots, run : Nat]
    \cup [kind : {"read", "write"}, name : Files, pos : Nat, owner : Slots, run : Nat]

\* Every variable has its type.
TypeOK ==
  /\ mode \in Modes
  /\ pc \in [Slots -> Labels] /\ run \in [Slots -> Nat]
  /\ cmd \in [Slots -> Commands \cup {NoCommand}]
  /\ \A s \in Slots : pc[s] # "idle" => Target(s).port \in 0 .. ShortRange - 1
  /\ sockfd \in [Slots -> {-1} \cup Fds] /\ filefd \in [Slots -> {-1} \cup Fds]
  /\ code \in [Slots -> Codes \cup {0}] /\ header \in [Slots -> BOOLEAN]
  /\ got \in [Slots -> 0 .. Len(Block)]
  /\ desc \in [Fds -> Descriptors]
  /\ disk \in [Files -> Seq({"first", "second"})]
  /\ sent \in [Slots -> Seq({"header", "first", "second"})]
  /\ opened \in [Slots -> BOOLEAN]
  /\ lost \subseteq Slots \X Nat /\ astray \in BOOLEAN
  /\ outcome \in {"running", "ended", "aborted", "crashed"}

HasFile(s) ==
  \/ Method(s) = "put" /\ pc[s] \in {"write", "after_req"}
  \/ Method(s) = "get" /\ code[s] = OK /\ pc[s] \in {"body", "after_resp"}
Own(f, s) == desc[f].kind \in {"read", "write"} /\ desc[f].owner = s /\ desc[f].run = run[s]

\* http_method.c:90, 97, 236, 248: the descriptor that a callback reads, writes or
\* closes is the file that this exchange has opened, or none, whatever numbers the
\* other exchanges open and close meanwhile and whatever the slot held before, until
\* a get whose header has not been seen goes on to its end with code 200 (astray).
OwnFile ==
  ~astray => \A s \in Slots : HasFile(s) /\ filefd[s] \in Fds => Own(filefd[s], s)

\* http_method.c:97, 248: an exchange gives back the file it opened, at once after
\* its last use, unless the local file or the connection cannot be read; also after
\* a get has closed what was not its own.
FilesClosed ==
  \A f \in Fds :
    desc[f].kind \in {"read", "write"} =>
      LET s == desc[f].owner
      IN <<s, desc[f].run>> \in lost \/ (desc[f].run = run[s] /\ HasFile(s))

\* http_method.c:58-91, http_core.c:332-335: a put that awaits its answer has sent
\* its header and then the whole local file as it is, once and in order, on a new
\* slot and on one used before, also where an earlier get has left a part of it; up
\* to astray.
PutWhole ==
  ~astray => \A s \in Slots :
    Method(s) = "put" /\ pc[s] = "await" => sent[s] = <<"header">> \o disk[LocalDir(s).name]

\* http_method.c:205-248: while the body comes and after its end the file of a get
\* holds what has come of it, in order, whatever other exchanges open, write and
\* close; up to astray.
GetWritten ==
  ~astray => \A s \in Slots :
    Method(s) = "get" /\ pc[s] \in {"body", "after_resp", "close"} /\ opened[s] =>
      disk[LocalDir(s).name] = SubSeq(Block, 1, got[s])

(* A url of the plain form [name://]domain[:digits][/path], without an account, *)
(* and with neither ":" nor "@" in its path.                                    *)
Without(t, chars) == \A i \in 1 .. Len(t) : t[i] \notin chars
PlainScheme(scheme) ==
  scheme = <<>> \/ \E n \in 0 .. Len(scheme) - 3 :
    Behind(scheme, n) = <<":", "/", "/">> /\ Without(Copy(scheme, n), {":"})
PlainPort(digits, port) ==
  \/ digits = <<>> /\ port = DefaultPort
  \/ /\ Len(digits) > 1 /\ Head(digits) = ":"
     /\ \A i \in 2 .. Len(digits) : digits[i] \in DOMAIN DigitValue
     /\ port = Decimal(Tail(digits)) % ShortRange
PlainUrl(url) ==
  /\ url.text = url.scheme \o url.domain \o url.digits \o url.path
  /\ PlainScheme(url.scheme)
  /\ Without(url.domain, {":", "/", "@"})
  /\ PlainPort(url.digits, url.port)
  /\ Without(url.path, {":", "@"}) /\ (url.path # <<>> => Head(url.path) = "/")

\* url.c, threads.c:291-310, 337-338: for a url of the plain form a command connects
\* to the host and the port the url names, and asks for the path or, where it is
\* longer than host and port, for a beginning of it.
UrlTarget ==
  \A s \in Slots :
    pc[s] # "idle" /\ PlainUrl(cmd[s].url) =>
      LET url == cmd[s].url
      IN /\ Target(s).domain = url.domain
         /\ Target(s).port = url.port
         /\ mode = "threads" /\ url.path # <<>> =>
              /\ IsPrefix(Target(s).dir, url.path)
              /\ Target(s).dir = url.path \/ Len(Target(s).dir) = SessionLen(url.text)

\* http_method.c:251, "'get' successfully executed!", with the name of the file:
\* the file has been written.
SuccessDelivered ==
  \A s \in Slots :
    Method(s) = "get" /\ pc[s] = "close" /\ code[s] = OK =>
      opened[s] /\ disk[LocalDir(s).name] = Block
=================================================================================
