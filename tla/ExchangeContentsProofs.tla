------------------------- MODULE ExchangeContentsProofs -------------------------
(*******************************************************************************)
(* Theorems of Exchange about what is sent and what is written, for every       *)
(* number of slots, descriptors, commands and exchanges:                        *)
(*   TypeCorrect            Spec => []TypeOK                                   *)
(*   PutsSendTheFile        Spec => []PutWhole                                 *)
(*   GetsWriteTheBody       Spec => []GetWritten                               *)
(*   UrlsAreTargeted        Spec => []UrlTarget                                *)
(* Contents holds what an exchange has done so far against its file: the block  *)
(* it is at, and whose file it is.  It is kept, until a get goes astray,        *)
(* because the file of a slot at work is named and opened by nobody else, which *)
(* is ExchangeProofs' OwnFiles.                                                 *)
(*******************************************************************************)
EXTENDS ExchangeProofs, InductionProofs, SequenceTheorems

Blocks == {"first", "second"}

DataType ==
  /\ mode \in Modes /\ run \in [Slots -> Nat]
  /\ sockfd \in [Slots -> {-1} \cup Fds] /\ filefd \in [Slots -> {-1} \cup Fds]
  /\ code \in [Slots -> Codes \cup {0}] /\ header \in [Slots -> BOOLEAN]
  /\ got \in [Slots -> 0 .. Len(Block)]
  /\ desc \in [Fds -> Descriptors]
  /\ disk \in [Files -> Seq(Blocks)]
  /\ sent \in [Slots -> Seq({"header"} \cup Blocks)]
  /\ lost \subseteq Slots \X Nat
  /\ outcome \in {"running", "ended", "aborted", "crashed"}

\* Nobody closes descriptor 0: a file above it is told from none.
StdinKept == desc[Stdin].kind = "stdin"

\* A slot at work has a command, and no other has its file.
AtWork(s) == pc[s] # "idle"
Named ==
  /\ \A s \in Slots : AtWork(s) => cmd[s] \in Commands /\ run[s] > 0
  /\ \A s, t \in Slots : s # t /\ AtWork(s) /\ AtWork(t) => cmd[s].file.name # cmd[t].file.name

\* Before its own request a slot has done nothing yet.
Fresh(s) ==
  /\ pc[s] \in {"idle", "before_req"} => ~header[s]
  /\ pc[s] \in {"idle", "before_req", "write", "after_req", "await", "header"} =>
       got[s] = 0 /\ ~opened[s]

\* A put has sent its header and the file up to where its descriptor stands.
Sending(s) ==
  Method(s) = "put" /\ pc[s] = "write" =>
    /\ filefd[s] \in Fds
    /\ desc[filefd[s]].kind = "read" /\ desc[filefd[s]].name = LocalDir(s).name
    /\ LET pos == desc[filefd[s]].pos
       IN /\ pos <= Len(disk[LocalDir(s).name])
          /\ IF header[s]
               THEN sent[s] = <<"header">> \o SubSeq(disk[LocalDir(s).name], 1, pos)
               ELSE pos = 0

Sent(s) ==
  Method(s) = "put" /\ pc[s] \in {"after_req", "await"} =>
    LocalDir(s).name \in Files /\ sent[s] = <<"header">> \o disk[LocalDir(s).name]

\* A get that has its file open has written there what has come.
Receiving(s) ==
  opened[s] =>
    /\ Method(s) = "get" /\ code[s] = OK
    /\ pc[s] \in {"body", "after_resp", "close", "fail"}
    /\ LocalDir(s).name \in Files
    /\ disk[LocalDir(s).name] = SubSeq(Block, 1, got[s])
    /\ pc[s] \in {"body", "after_resp"} =>
         /\ filefd[s] \in Fds
         /\ desc[filefd[s]].kind = "write" /\ desc[filefd[s]].name = LocalDir(s).name

Progress(s) == Fresh(s) /\ Sending(s) /\ Sent(s) /\ Receiving(s)
Contents == DataType /\ StdinKept /\ Named /\ \A s \in Slots : Progress(s)

(* Facts about sequences: a block more is the next block. *)
LEMMA HeaderAndMore ==
  ASSUME NEW d \in Seq(Blocks), NEW n \in Nat, n < Len(d)
  PROVE  /\ Append(<<"header">> \o SubSeq(d, 1, n), d[n + 1])
              = <<"header">> \o SubSeq(d, 1, n + 1)
         /\ <<"header">> \o SubSeq(d, 1, n + 1) \in Seq({"header"} \cup Blocks)
  OBVIOUS

(* What has been read to its end is the whole file. *)
LEMMA WholeFile ==
  ASSUME NEW d \in Seq(Blocks), NEW n \in Nat, n <= Len(d), ~(n < Len(d))
  PROVE  SubSeq(d, 1, n) = d
  OBVIOUS

(* A body that has come up to n blocks goes on with the next one. *)
LEMMA BlockGrows ==
  ASSUME NEW n \in Nat, n < Len(Block)
  PROVE  /\ Append(SubSeq(Block, 1, n), Block[n + 1]) = SubSeq(Block, 1, n + 1)
         /\ SubSeq(Block, 1, n + 1) \in Seq(Blocks)
  BY DEF Block, Blocks

(* No command names the local file of a cleared slot. *)
LEMMA NoFileIsNoFile == NoFile.name \notin Files
  BY ExchangeAssumption DEF Files, CommandType, NoFile

(* A slot whose local file is one of the files is at work on a command. *)
LEMMA FileOnlyOfCommand ==
  ASSUME NEW s, LocalDir(s).name \in Files
  PROVE  mode = "threads" /\ LocalDir(s) = cmd[s].file
  BY NoFileIsNoFile DEF LocalDir

(* An open file in the descriptor table is one of the files, with its position  *)
(* within it.                                                                   *)
LEMMA FileDescriptor ==
  ASSUME DataType, NEW f \in Fds, IsAFile(f)
  PROVE  desc[f] \in [kind : {"read", "write"}, name : Files, pos : Nat,
                     owner : Slots, run : Nat]
<1>1. desc[f] \in Descriptors
  BY DEF DataType
<1>2. QED
  BY <1>1 DEF IsAFile, Descriptors, Free

(* Nothing is at work in the beginning. *)
LEMMA InitContents == Init => Contents
<1> SUFFICES ASSUME Init PROVE Contents
  OBVIOUS
<1>1. DataType
  BY FdsAreInts DEF Init, DataType, Descriptors, Free, Stdin, Fds, Block, Blocks
<1>2. StdinKept
  BY DEF Init, StdinKept, Stdin, Fds
<1>3. Named /\ \A s \in Slots : Progress(s)
  BY DEF Init, Named, AtWork, Progress, Fresh, Sending, Sent, Receiving
<1>4. QED
  BY <1>1, <1>2, <1>3 DEF Contents

--------------------------------------------------------------------------------
(* What a step of one slot leaves alone.                                        *)

Elsewhere(s) ==
  /\ mode' = mode
  /\ \A t \in Slots \ {s} :
       /\ pc'[t] = pc[t] /\ cmd'[t] = cmd[t] /\ run'[t] = run[t] /\ filefd'[t] = filefd[t]
       /\ code'[t] = code[t] /\ header'[t] = header[t] /\ got'[t] = got[t]
       /\ sent'[t] = sent[t] /\ opened'[t] = opened[t]
  /\ \A f \in Fds : IsAFile(f) /\ desc[f].owner # s => desc'[f] = desc[f]
  /\ \/ disk' = disk
     \/ AtWork(s) /\ \A n \in Files : n # LocalDir(s).name => disk'[n] = disk[n]

(* The others go on as they were. *)
LEMMA OthersProgress ==
  ASSUME Inv, Contents, NEW s \in Slots, Elsewhere(s), NEW t \in Slots \ {s}
  PROVE  Progress(t)'
<1>1. /\ pc'[t] = pc[t] /\ cmd'[t] = cmd[t] /\ filefd'[t] = filefd[t]
      /\ code'[t] = code[t] /\ header'[t] = header[t] /\ got'[t] = got[t]
      /\ sent'[t] = sent[t] /\ opened'[t] = opened[t]
      /\ Method(t)' = Method(t) /\ LocalDir(t)' = LocalDir(t)
  <2>1. cmd'[t] = cmd[t] /\ mode' = mode
    BY DEF Elsewhere
  <2>2. Method(t)' = Method(t) /\ LocalDir(t)' = LocalDir(t)
    BY <2>1 DEF Method, LocalDir
  <2>3. /\ pc'[t] = pc[t] /\ cmd'[t] = cmd[t] /\ filefd'[t] = filefd[t]
        /\ code'[t] = code[t] /\ header'[t] = header[t] /\ got'[t] = got[t]
        /\ sent'[t] = sent[t] /\ opened'[t] = opened[t]
    BY DEF Elsewhere
  <2>4. QED
    BY <2>2, <2>3
<1>2. AtWork(t) /\ LocalDir(t).name \in Files =>
        disk'[LocalDir(t).name] = disk[LocalDir(t).name]
  <2>1. CASE disk' = disk
    BY <2>1
  <2>2. CASE AtWork(s) /\ \A n \in Files : n # LocalDir(s).name => disk'[n] = disk[n]
    <3> SUFFICES ASSUME AtWork(t), LocalDir(t).name \in Files
                 PROVE  LocalDir(t).name # LocalDir(s).name
      BY <2>2
    <3>1. mode = "threads" /\ LocalDir(t) = cmd[t].file /\ LocalDir(s) = cmd[s].file
      BY FileOnlyOfCommand DEF LocalDir
    <3>2. QED
      BY <2>2, <3>1 DEF Contents, Named
  <2>3. QED
    BY <2>1, <2>2 DEF Elsewhere
<1>3. HasFile(t) /\ filefd[t] \in Fds => desc'[filefd[t]] = desc[filefd[t]]
  BY DEF Elsewhere, Inv, OwnFiles, Own, IsAFile
<1>4. Fresh(t)'
  BY <1>1 DEF Contents, Progress, Fresh
<1>5. Sending(t)'
  <2> SUFFICES ASSUME Method(t) = "put", pc[t] = "write" PROVE Sending(t)'
    BY <1>1 DEF Sending
  <2>1. Sending(t) /\ filefd[t] \in Fds /\ HasFile(t) /\ AtWork(t)
    BY DEF Contents, Progress, Sending, HasFile, AtWork
  <2>2. LocalDir(t).name \in Files
    BY <2>1, FileDescriptor DEF Sending, Contents, IsAFile
  <2>3. QED
    BY <1>1, <1>2, <1>3, <2>1, <2>2 DEF Sending
<1>6. Sent(t)'
  BY <1>1, <1>2 DEF Contents, Progress, Sent, AtWork
<1>7. Receiving(t)'
  <2> SUFFICES ASSUME opened[t] PROVE Receiving(t)'
    BY <1>1 DEF Receiving
  <2>1. Receiving(t) /\ AtWork(t)
    BY DEF Contents, Progress, Receiving, AtWork
  <2>2. pc[t] \in {"body", "after_resp"} => HasFile(t)
    BY <2>1 DEF Receiving, HasFile
  <2>3. QED
    BY <1>1, <1>2, <1>3, <2>1, <2>2 DEF Receiving
<1>8. QED
  BY <1>4, <1>5, <1>6, <1>7 DEF Progress

(* What is left to show of a step of one slot. *)
LEMMA Composed ==
  ASSUME Inv, Contents, NEW s \in Slots, Elsewhere(s), DataType', StdinKept', Named',
         Progress(s)'
  PROVE  Contents'
  BY OthersProgress DEF Contents

(* Local files stay apart if nothing starts and nothing changes its command. *)
LEMMA NamedKept ==
  ASSUME Contents, \A t \in Slots : AtWork(t)' => AtWork(t) /\ cmd'[t] = cmd[t] /\ run'[t] = run[t]
  PROVE  Named'
  BY DEF Contents, Named

(* A step that leaves what the invariant speaks of alone keeps it. *)
LEMMA ContentsFrame ==
  ASSUME Contents, outcome' \in {"running", "ended", "aborted", "crashed"},
         UNCHANGED <<mode, pc, run, cmd, sockfd, filefd, code, header, got, desc, disk, sent,
                     opened, lost>>
  PROVE  Contents'
<1>1. DataType' /\ StdinKept' /\ Named'
  BY DEF Contents, DataType, StdinKept, Named, AtWork
<1>2. ASSUME NEW s \in Slots PROVE Progress(s)'
  <2> USE DEF Contents, Progress
  <2>1. Method(s)' = Method(s) /\ LocalDir(s)' = LocalDir(s)
    BY DEF Method, LocalDir
  <2>2. Fresh(s)'
    BY DEF Fresh
  <2>3. Sending(s)'
    BY <2>1 DEF Sending
  <2>4. Sent(s)'
    BY <2>1 DEF Sent
  <2>5. Receiving(s)'
    BY <2>1 DEF Receiving
  <2>6. QED
    BY <2>2, <2>3, <2>4, <2>5
<1>3. QED
  BY <1>1, <1>2 DEF Contents
(* How an exchange begins. *)
LEMMA BeginContents ==
  ASSUME Inv, Contents, NEW s \in Slots, pc[s] = "idle", NEW c \in Commands, Begins(s, c),
         NEW f \in Fds, Lowest(f), sockfd' = [sockfd EXCEPT ![s] = f], Opened(f, Socket(s)),
         Goes(s, "before_req"),
         \A t \in Slots \ {s} : AtWork(t) => cmd[t].file.name # c.file.name,
         UNCHANGED <<mode, filefd, code, header, got, disk, sent, opened, lost, outcome>>
  PROVE  Contents'
<1> USE DEF Contents
<1>1. desc[f].kind = "free"
  BY DEF Lowest, FreeFds, Free
<1>2. Socket(s) \in Descriptors
  BY DEF Socket, Descriptors, DataType
<1>3. DataType'
  BY <1>2 DEF DataType, Begins, Opened
<1>4. StdinKept'
  BY <1>1 DEF StdinKept, Opened
<1>5. Named'
  <2>1. ASSUME NEW t \in Slots \ {s}
        PROVE  AtWork(t)' = AtWork(t) /\ cmd'[t] = cmd[t] /\ run'[t] = run[t]
    BY DEF AtWork, Begins, Goes, Inv, Ledger, TypeInv, DataType
  <2>2. cmd'[s] = c /\ run'[s] > 0
    BY DEF Begins, Inv, Ledger, TypeInv, DataType
  <2>3. QED
    BY <2>1, <2>2 DEF Named
<1>6. Elsewhere(s)
  BY <1>1 DEF Elsewhere, Begins, Goes, Opened, Inv, Ledger, TypeInv, IsAFile
<1>7. Progress(s)'
  BY DEF Progress, Fresh, Sending, Sent, Receiving, Goes, Inv, Ledger, TypeInv
<1>8. QED
  BY <1>3, <1>4, <1>5, <1>6, <1>7, Composed

(* A command of the client (interprete_single_command): the only step at which a *)
(* slot gets a file to name, and one that nobody at work names.                 *)
LEMMA CommandContents ==
  ASSUME Inv, Contents, NEW s \in Slots, Command(s)
  PROVE  Contents'
<1>1. PICK c \in Understood, f \in Fds :
        /\ \A t \in Slots : pc[t] # "idle" => cmd[t].file.name # c.file.name
        /\ Lowest(f) /\ Begins(s, c)
        /\ sockfd' = [sockfd EXCEPT ![s] = f] /\ Opened(f, Socket(s))
  BY DEF Command
<1>2. c \in Commands
  BY DEF Understood
<1>3. /\ pc[s] = "idle" /\ Goes(s, "before_req")
      /\ UNCHANGED <<mode, filefd, code, header, got, disk, sent, opened, lost, outcome>>
  BY DEF Command, At
<1>4. QED
  BY <1>1, <1>2, <1>3, BeginContents DEF AtWork

(* The exchange of the one-shot program, which names no local file. *)
LEMMA OneShotContents ==
  ASSUME Inv, Contents, NEW s \in Slots, OneShot(s)
  PROVE  Contents'
<1> USE DEF Contents
<1>1. /\ pc[s] = "idle" /\ \A t \in Slots : run[t] = 0
      /\ UNCHANGED <<mode, filefd, code, header, got, disk, sent, opened, lost>>
  BY DEF OneShot, At
<1>2. PICK c \in Commands :
        /\ Begins(s, c)
        /\ \/ outcome' \in {"aborted", "ended"} /\ UNCHANGED <<pc, sockfd, desc>>
           \/ /\ \E f \in Fds :
                   /\ Lowest(f)
                   /\ sockfd' = [sockfd EXCEPT ![s] = f]
                   /\ Opened(f, Socket(s))
              /\ Goes(s, "before_req")
              /\ outcome' = outcome
  BY DEF OneShot
<1>3. CASE outcome' \in {"aborted", "ended"} /\ UNCHANGED <<pc, sockfd, desc>>
  <2>1. DataType' /\ StdinKept'
    BY <1>1, <1>2, <1>3 DEF DataType, StdinKept, Begins
  <2>2. Named'
    BY <1>1, <1>2, <1>3 DEF Named, AtWork, Begins, Inv, Ledger, TypeInv
  <2>3. Elsewhere(s)
    BY <1>1, <1>2, <1>3 DEF Elsewhere, Begins, Inv, Ledger, TypeInv
  <2>4. Progress(s)'
    BY <1>1, <1>3 DEF Progress, Fresh, Sending, Sent, Receiving
  <2>5. QED
    BY <2>1, <2>2, <2>3, <2>4, Composed
<1>4. ASSUME NEW f \in Fds, Lowest(f), sockfd' = [sockfd EXCEPT ![s] = f],
             Opened(f, Socket(s)), Goes(s, "before_req"), outcome' = outcome
      PROVE  Contents'
  <2>1. \A t \in Slots \ {s} : ~AtWork(t)
    BY <1>1 DEF Named
  <2>2. QED
    BY <1>1, <1>2, <1>4, <2>1, BeginContents
<1>5. QED
  BY <1>2, <1>3, <1>4
--------------------------------------------------------------------------------
(* The request.                                                                 *)

(* A slot at work takes a free descriptor for its file, and may truncate it. *)
LEMMA OpenContents ==
  ASSUME Inv, Contents, NEW s \in Slots, AtWork(s), OnDisk(LocalDir(s)),
         NEW kind \in {"read", "write"}, NEW f \in Fds, Lowest(f),
         Opened(f, FileOf(s, kind)), filefd' = [filefd EXCEPT ![s] = f]
  PROVE  /\ desc' \in [Fds -> Descriptors] /\ StdinKept'
         /\ filefd' \in [Slots -> {-1} \cup Fds]
         /\ \A g \in Fds : IsAFile(g) => desc'[g] = desc[g]
         /\ filefd'[s] = f /\ desc'[f] = FileOf(s, kind)
<1> USE DEF Contents
<1>1. desc[f].kind = "free"
  BY DEF Lowest, FreeFds, Free
<1>2. FileOf(s, kind) \in Descriptors
  <2>1. LocalDir(s).name \in Files /\ run[s] \in Nat 
    BY DEF OnDisk, DataType
  <2>2. QED
    BY <2>1 DEF FileOf, Descriptors
<1>3. QED
  BY <1>1, <1>2 DEF DataType, StdinKept, Opened, IsAFile

(* The callback before the request: a put opens its local file at position 0, and *)
(* has sent nothing.                                                            *)
LEMMA BeforeRequestContents ==
  ASSUME Inv, Contents, NEW s \in Slots, BeforeRequest(s)
  PROVE  Contents'
<1> USE DEF Contents
<1>1. /\ pc[s] = "before_req" /\ AtWork(s) /\ disk' = disk /\ opened' = opened
      /\ UNCHANGED <<mode, run, cmd, sockfd, code, header, got, sent, lost, outcome>>
  BY DEF BeforeRequest, At, AtWork, cmdVars, OpenFails
<1>2. got[s] = 0 /\ ~opened[s] /\ ~header[s]
  BY <1>1 DEF Progress, Fresh
<1>3. CASE Method(s) # "put" /\ Goes(s, "write") /\ UNCHANGED <<filefd, desc>>
  <2>1. DataType' /\ StdinKept' /\ Elsewhere(s)
    BY <1>1, <1>3 DEF DataType, StdinKept, Elsewhere, Goes, Inv, Ledger, TypeInv
  <2>2. Named'
    BY <1>1, <1>3, NamedKept DEF AtWork, Goes, Inv, Ledger, TypeInv
  <2>3. Progress(s)'
    BY <1>1, <1>2, <1>3
       DEF Progress, Fresh, Sending, Sent, Receiving, Goes, Method, Inv, Ledger, TypeInv
  <2>4. QED
    BY <2>1, <2>2, <2>3, Composed
<1>4. CASE OpenFails(s, "fail")
  <2>1. DataType' /\ StdinKept' /\ Elsewhere(s)
    BY <1>1, <1>4 DEF DataType, StdinKept, Elsewhere, Goes, Inv, Ledger, TypeInv, OpenFails
  <2>2. Named'
    BY <1>1, <1>4, NamedKept DEF AtWork, Goes, Inv, Ledger, TypeInv, OpenFails
  <2>3. Progress(s)'
    BY <1>1, <1>2, <1>4
       DEF Progress, Fresh, Sending, Sent, Receiving, Goes, Inv, Ledger, TypeInv, OpenFails
  <2>4. QED
    BY <2>1, <2>2, <2>3, Composed
<1>5. ASSUME Method(s) = "put", OnDisk(LocalDir(s)), NEW f \in Fds, Lowest(f),
             filefd' = [filefd EXCEPT ![s] = f], Opened(f, FileOf(s, "read")),
             Goes(s, "write")
      PROVE  Contents'
  <2>1. /\ desc' \in [Fds -> Descriptors] /\ StdinKept'
        /\ filefd' \in [Slots -> {-1} \cup Fds]
        /\ \A g \in Fds : IsAFile(g) => desc'[g] = desc[g]
        /\ filefd'[s] = f /\ desc'[f] = FileOf(s, "read")
    BY <1>1, <1>5, OpenContents
  <2>2. DataType' /\ Elsewhere(s)
    BY <1>1, <1>5, <2>1 DEF DataType, Elsewhere, Goes, Inv, Ledger, TypeInv
  <2>3. Named'
    BY <1>1, <1>5, NamedKept DEF AtWork, Goes, Inv, Ledger, TypeInv
  <2>4. Fresh(s)' /\ Sent(s)' /\ Receiving(s)'
    BY <1>1, <1>2, <1>5 DEF Fresh, Sent, Receiving, Goes, Inv, Ledger, TypeInv
  <2>5. Sending(s)'
    <3>1. LocalDir(s)' = LocalDir(s) /\ header'[s] = FALSE
      BY <1>1, <1>2 DEF LocalDir
    <3>2. /\ desc'[f].kind = "read" /\ desc'[f].name = LocalDir(s).name /\ desc'[f].pos = 0
      BY <2>1 DEF FileOf
    <3>3. 0 <= Len(disk[LocalDir(s).name])
      BY <1>5 DEF DataType, OnDisk
    <3>4. QED
      BY <1>1, <2>1, <3>1, <3>2, <3>3 DEF Sending
  <2>6. QED
    BY <2>1, <2>2, <2>3, <2>4, <2>5, Composed DEF Progress
<1>6. QED
  BY <1>3, <1>4, <1>5 DEF BeforeRequest

(* The header of a request goes out before anything else. *)
LEMMA WriteHeaderContents ==
  ASSUME Inv, Contents, NEW s \in Slots, WriteHeader(s)
  PROVE  Contents'
<1> USE DEF Contents
<1>1. /\ pc[s] = "write" /\ AtWork(s) /\ ~header[s]
      /\ UNCHANGED <<mode, run, cmd, sockfd, filefd, code, got, desc, disk, opened, lost,
                     outcome>>
      /\ got[s] = 0 /\ ~opened[s]
  BY DEF WriteHeader, At, AtWork, cmdVars, Progress, Fresh
<1>2. <<"header">> \in Seq({"header"} \cup Blocks)
  OBVIOUS
<1> DEFINE Header == /\ header' = [header EXCEPT ![s] = TRUE]
                     /\ sent' = [sent EXCEPT ![s] = <<"header">>]
<1>3. \/ Method(s) = "put" /\ pc' = pc /\ Header
      \/ Method(s) # "put" /\ Goes(s, "after_req") /\ (Header \/ UNCHANGED <<header, sent>>)
  BY DEF WriteHeader, PutHeader, GetHeader, PropfindDeleteHeader
<1>4. DataType' /\ StdinKept' /\ Elsewhere(s)
  <2>1. header' \in [Slots -> BOOLEAN] /\ sent' \in [Slots -> Seq({"header"} \cup Blocks)]
    BY <1>2, <1>3 DEF DataType
  <2>2. \A t \in Slots \ {s} : pc'[t] = pc[t] /\ header'[t] = header[t] /\ sent'[t] = sent[t]
    BY <1>3 DEF Goes, DataType, Inv, Ledger, TypeInv
  <2>3. QED
    BY <1>1, <2>1, <2>2 DEF DataType, StdinKept, Elsewhere
<1>5. Named'
  BY <1>1, <1>3, NamedKept DEF AtWork, Goes, Inv, Ledger, TypeInv
<1>6. Fresh(s)' /\ Sent(s)' /\ Receiving(s)'
  BY <1>1, <1>3 DEF Fresh, Sent, Receiving, Goes, Method, Inv, Ledger, TypeInv
<1>7. Sending(s)'
  <2> SUFFICES ASSUME Method(s) = "put", Header PROVE Sending(s)'
    BY <1>1, <1>3 DEF Sending, Goes, Method, Inv, Ledger, TypeInv
  <2>1. header'[s] = TRUE /\ sent'[s] = <<"header">>
    BY DEF DataType
  <2>2. Sending(s) /\ LocalDir(s)' = LocalDir(s)
    BY <1>1 DEF Progress, LocalDir
  <2>3. <<"header">> \o SubSeq(disk[LocalDir(s).name], 1, 0) = <<"header">>
    <3>1. SubSeq(disk[LocalDir(s).name], 1, 0) = <<>>
      BY SubSeqEmpty
    <3>2. <<"header">> \o <<>> = <<"header">>
      OBVIOUS
    <3>3. QED
      BY <3>1, <3>2
  <2>4. QED
    BY <1>1, <2>1, <2>2, <2>3 DEF Sending
<1>8. QED
  BY <1>4, <1>5, <1>6, <1>7, Composed DEF Progress

(* A put sends the block at its position, or has sent all of them. *)
LEMMA WriteFileContents ==
  ASSUME Inv, Contents, NEW s \in Slots, WriteFile(s)
  PROVE  Contents'
<1> USE DEF Contents
<1> DEFINE d == disk[LocalDir(s).name]
           n == desc[filefd[s]].pos
<1>1. /\ pc[s] = "write" /\ header[s] /\ Method(s) = "put" /\ AtWork(s) /\ HasFile(s)
      /\ UNCHANGED <<mode, run, cmd, sockfd, filefd, code, header, got, disk, opened, lost,
                     outcome>>
      /\ got[s] = 0 /\ ~opened[s]
  BY DEF WriteFile, At, AtWork, cmdVars, Progress, Fresh, HasFile
<1>2. /\ filefd[s] \in Fds /\ IsAFile(filefd[s]) /\ desc[filefd[s]].owner = s
      /\ desc[filefd[s]].kind = "read" /\ desc[filefd[s]].name = LocalDir(s).name
      /\ n <= Len(d) /\ sent[s] = <<"header">> \o SubSeq(d, 1, n)
  BY <1>1 DEF Progress, Sending, Inv, OwnFiles, Own, IsAFile
<1>3. LocalDir(s).name \in Files /\ n \in Nat /\ filefd[s] # Stdin
  BY <1>2, FileDescriptor DEF StdinKept
<1>4. d \in Seq(Blocks) /\ n \in Nat
  BY <1>3 DEF DataType
<1>5. LocalDir(s)' = LocalDir(s) /\ Method(s)' = Method(s)
  BY <1>1 DEF LocalDir, Method
<1>6. \/ /\ n < Len(d) /\ sent' = [sent EXCEPT ![s] = Append(@, d[n + 1])]
         /\ desc' = [desc EXCEPT ![filefd[s]].pos = @ + 1] /\ pc' = pc
      \/ ~(n < Len(d)) /\ Goes(s, "after_req") /\ UNCHANGED <<sent, desc>>
  BY <1>2 DEF WriteFile
<1>7. CASE /\ n < Len(d) /\ sent' = [sent EXCEPT ![s] = Append(@, d[n + 1])]
           /\ desc' = [desc EXCEPT ![filefd[s]].pos = @ + 1] /\ pc' = pc
  <2>1. /\ sent'[s] = <<"header">> \o SubSeq(d, 1, n + 1)
        /\ sent' \in [Slots -> Seq({"header"} \cup Blocks)]
        /\ \A t \in Slots \ {s} : sent'[t] = sent[t]
    <3>1. Append(sent[s], d[n + 1]) = <<"header">> \o SubSeq(d, 1, n + 1)
      BY <1>2, <1>4, <1>7, HeaderAndMore
    <3>2. Append(sent[s], d[n + 1]) \in Seq({"header"} \cup Blocks)
      BY <1>4, <1>7, <3>1, HeaderAndMore
    <3>3. sent' = [sent EXCEPT ![s] = Append(sent[s], d[n + 1])]
      BY <1>7
    <3> HIDE DEF d, n
    <3>4. QED
      BY <3>1, <3>2, <3>3 DEF DataType
  <2>2. /\ desc'[filefd[s]].kind = "read" /\ desc'[filefd[s]].name = LocalDir(s).name
        /\ desc'[filefd[s]].pos = n + 1 /\ desc'[filefd[s]] \in Descriptors
        /\ \A g \in Fds \ {filefd[s]} : desc'[g] = desc[g]
    <3>1. desc[filefd[s]] \in [kind : {"read", "write"}, name : Files, pos : Nat,
                               owner : Slots, run : Nat]
      BY <1>2, FileDescriptor
    <3>2. n + 1 \in Nat
      BY <1>4
    <3>3. /\ desc'[filefd[s]] \in [kind : {"read", "write"}, name : Files,
                                  pos : Nat, owner : Slots, run : Nat]
          /\ desc'[filefd[s]].kind = desc[filefd[s]].kind
          /\ desc'[filefd[s]].name = desc[filefd[s]].name
          /\ desc'[filefd[s]].pos = n + 1
          /\ \A g \in Fds \ {filefd[s]} : desc'[g] = desc[g]
      BY <1>2, <1>7, <3>1, <3>2 DEF DataType
    <3>4. QED
      BY <1>2, <3>3 DEF Descriptors
  <2>3. DataType'
    <3>1. desc' \in [Fds -> Descriptors]
      BY <1>7, <2>2 DEF DataType
    <3>2. QED
      BY <1>1, <1>7, <2>1, <3>1 DEF DataType
  <2>4. StdinKept'
    BY <1>3, <2>2, FdsAreInts DEF StdinKept, Stdin, Fds
  <2>5. Named'
    BY <1>1, <1>7, NamedKept DEF AtWork
  <2>6. Elsewhere(s)
    BY <1>1, <1>2, <1>7, <2>1, <2>2 DEF Elsewhere
  <2>7. Fresh(s)' /\ Sent(s)' /\ Receiving(s)'
    BY <1>1, <1>7 DEF Fresh, Sent, Receiving
  <2>8. Sending(s)'
    <3>1. n + 1 <= Len(d)
      BY <1>4, <1>7
    <3>2. QED
      BY <1>1, <1>2, <1>5, <2>1, <2>2, <3>1 DEF Sending
  <2>9. QED
    BY <2>3, <2>4, <2>5, <2>6, <2>7, <2>8, Composed DEF Progress
<1>8. CASE ~(n < Len(d)) /\ Goes(s, "after_req") /\ UNCHANGED <<sent, desc>>
  <2>1. sent[s] = <<"header">> \o d
    BY <1>2, <1>4, <1>8, WholeFile
  <2>2. DataType' /\ StdinKept' /\ Elsewhere(s)
    BY <1>1, <1>8 DEF DataType, StdinKept, Elsewhere, Goes, Inv, Ledger, TypeInv
  <2>3. Named'
    BY <1>1, <1>8, NamedKept DEF AtWork, Goes, Inv, Ledger, TypeInv
  <2>4. Fresh(s)' /\ Sending(s)' /\ Receiving(s)'
    BY <1>1, <1>8 DEF Fresh, Sending, Receiving, Goes, Inv, Ledger, TypeInv
  <2>5. Sent(s)'
    BY <1>1, <1>3, <1>5, <1>8, <2>1 DEF Sent
  <2>6. QED
    BY <2>2, <2>3, <2>4, <2>5, Composed DEF Progress
<1>9. QED
  BY <1>6, <1>7, <1>8

(* A read of the local file that fails, a response that does: the slot goes on  *)
(* to its end, and only the record of what was lost may grow.                   *)
LEMMA FailContents ==
  ASSUME Inv, Contents, NEW s \in Slots, AtWork(s), Goes(s, "fail"),
         lost' \subseteq Slots \X Nat,
         UNCHANGED <<mode, run, cmd, sockfd, filefd, code, header, got, desc, disk, sent,
                     opened, outcome>>
  PROVE  Contents'
<1> USE DEF Contents
<1>1. DataType' /\ StdinKept' /\ Elsewhere(s)
  BY DEF DataType, StdinKept, Elsewhere, Goes, Inv, Ledger, TypeInv
<1>2. Named'
  BY NamedKept DEF AtWork, Goes, Inv, Ledger, TypeInv
<1>3. Fresh(s)' /\ Sending(s)' /\ Sent(s)'
  BY DEF Fresh, Sending, Sent, Goes, Inv, Ledger, TypeInv
<1>4. Receiving(s)'
  BY DEF Progress, Receiving, Goes, Method, LocalDir, Inv, Ledger, TypeInv
<1>5. QED
  BY <1>1, <1>2, <1>3, <1>4, Composed DEF Progress

(* The file that a slot has in hand is closed. *)
LEMMA CloseContents ==
  ASSUME Inv, Contents, NEW s \in Slots, HasFile(s)
  PROVE  /\ ClosedTable(filefd[s]) \in [Fds -> Descriptors]
         /\ ClosedTable(filefd[s])[Stdin].kind = "stdin"
         /\ \A g \in Fds : IsAFile(g) /\ desc[g].owner # s => ClosedTable(filefd[s])[g] = desc[g]
<1> USE DEF Contents
<1>1. filefd[s] \in Fds => IsAFile(filefd[s]) /\ desc[filefd[s]].owner = s
  BY DEF Inv, OwnFiles, Own, IsAFile
<1>2. Stdin \in Fds /\ filefd[s] # Stdin
  BY <1>1 DEF StdinKept, IsAFile, Fds
<1>3. QED
  BY <1>1, <1>2 DEF ClosedTable, DataType, Descriptors, StdinKept

(* The callback after the request: a put closes its file, with all of it sent. *)
LEMMA AfterRequestContents ==
  ASSUME Inv, Contents, NEW s \in Slots, AfterRequest(s)
  PROVE  Contents'
<1> USE DEF Contents
<1>1. /\ pc[s] = "after_req" /\ AtWork(s) /\ Goes(s, "await")
      /\ UNCHANGED <<mode, run, cmd, sockfd, filefd, code, header, got, disk, sent, opened,
                     lost, outcome>>
      /\ got[s] = 0 /\ ~opened[s]
  BY DEF AfterRequest, At, AtWork, cmdVars, Progress, Fresh
<1>2. /\ desc' \in [Fds -> Descriptors] /\ StdinKept'
      /\ \A g \in Fds : IsAFile(g) /\ desc[g].owner # s => desc'[g] = desc[g]
  <2>1. CASE Method(s) = "put"
    BY <1>1, <2>1, CloseContents DEF AfterRequest, HasFile, StdinKept
  <2>2. CASE Method(s) # "put"
    BY <2>2 DEF AfterRequest, DataType, StdinKept
  <2>3. QED
    BY <2>1, <2>2
<1>3. DataType' /\ Elsewhere(s)
  BY <1>1, <1>2 DEF DataType, Elsewhere, Goes, Inv, Ledger, TypeInv
<1>4. Named'
  BY <1>1, NamedKept DEF AtWork, Goes, Inv, Ledger, TypeInv
<1>5. Fresh(s)' /\ Sending(s)' /\ Receiving(s)'
  BY <1>1 DEF Fresh, Sending, Receiving, Goes, Inv, Ledger, TypeInv
<1>6. Sent(s)'
  BY <1>1 DEF Progress, Sent, Goes, Method, LocalDir, Inv, Ledger, TypeInv
<1>7. QED
  BY <1>2, <1>3, <1>4, <1>5, <1>6, Composed DEF Progress
--------------------------------------------------------------------------------
(* The response.                                                                *)

(* The first line of a response. *)
LEMMA StatusLineContents ==
  ASSUME Inv, Contents, NEW s \in Slots, StatusLine(s)
  PROVE  Contents'
<1> USE DEF Contents
<1>1. /\ pc[s] = "await" /\ AtWork(s) /\ Goes(s, "header") /\ ~opened[s] /\ got[s] = 0
      /\ code' \in [Slots -> Codes \cup {0}] /\ \A t \in Slots \ {s} : code'[t] = code[t]
      /\ UNCHANGED <<mode, run, cmd, sockfd, filefd, header, got, desc, disk, sent,
                     opened, lost, outcome>>
  BY DEF StatusLine, At, AtWork, cmdVars, Progress, Fresh, DataType
<1>2. DataType' /\ StdinKept' /\ Elsewhere(s)
  BY <1>1 DEF DataType, StdinKept, Elsewhere, Goes, Inv, Ledger, TypeInv
<1>3. Named'
  BY <1>1, NamedKept DEF AtWork, Goes, Inv, Ledger, TypeInv
<1>4. Progress(s)'
  BY <1>1 DEF Progress, Fresh, Sending, Sent, Receiving, Goes, Inv, Ledger, TypeInv
<1>5. QED
  BY <1>2, <1>3, <1>4, Composed

(* The header of a response: a get of code 200 empties its file, at position 0. *)
LEMMA HeaderArrivesContents ==
  ASSUME Inv, Contents, NEW s \in Slots, HeaderArrives(s)
  PROVE  Contents'
<1> USE DEF Contents
<1>1. /\ pc[s] = "header" /\ AtWork(s) /\ got[s] = 0 /\ ~opened[s]
      /\ UNCHANGED <<mode, run, cmd, sockfd, code, header, got, sent, lost, outcome>>
      /\ Method(s)' = Method(s) /\ LocalDir(s)' = LocalDir(s)
  BY DEF HeaderArrives, At, AtWork, cmdVars, Progress, Fresh, Method, LocalDir
<1>2. \/ Goes(s, "body") /\ UNCHANGED <<filefd, desc, disk, opened>>
      \/ OpenFails(s, "body")
      \/ /\ Method(s) = "get" /\ code[s] = OK /\ OnDisk(LocalDir(s))
         /\ \E f \in Fds :
              /\ Lowest(f)
              /\ filefd' = [filefd EXCEPT ![s] = f]
              /\ Opened(f, FileOf(s, "write"))
         /\ disk' = [disk EXCEPT ![LocalDir(s).name] = <<>>]
         /\ opened' = [opened EXCEPT ![s] = TRUE]
         /\ Goes(s, "body")
  BY DEF HeaderArrives
<1>3. CASE /\ Goes(s, "body") /\ UNCHANGED <<desc, disk, opened>>
           /\ filefd' = filefd \/ filefd' = [filefd EXCEPT ![s] = -1]
  <2>1. DataType' /\ StdinKept'
    BY <1>1, <1>2, <1>3 DEF DataType, StdinKept
  <2>2. Elsewhere(s)
    BY <1>1, <1>2, <1>3 DEF Elsewhere, Goes, DataType, Inv, Ledger, TypeInv
  <2>3. Named'
    BY <1>1, <1>3, NamedKept DEF AtWork, Goes, Inv, Ledger, TypeInv
  <2>4. Progress(s)'
    BY <1>1, <1>3 DEF Progress, Fresh, Sending, Sent, Receiving, Goes, Inv, Ledger, TypeInv
  <2>5. QED
    BY <2>1, <2>2, <2>3, <2>4, Composed
<1>4. ASSUME Method(s) = "get", code[s] = OK, OnDisk(LocalDir(s)), NEW f \in Fds, Lowest(f),
             filefd' = [filefd EXCEPT ![s] = f], Opened(f, FileOf(s, "write")),
             disk' = [disk EXCEPT ![LocalDir(s).name] = <<>>],
             opened' = [opened EXCEPT ![s] = TRUE], Goes(s, "body")
      PROVE  Contents'
  <2>1. /\ desc' \in [Fds -> Descriptors] /\ StdinKept'
        /\ filefd' \in [Slots -> {-1} \cup Fds]
        /\ \A g \in Fds : IsAFile(g) => desc'[g] = desc[g]
        /\ filefd'[s] = f /\ desc'[f] = FileOf(s, "write")
    BY <1>1, <1>4, OpenContents
  <2>2. /\ disk' \in [Files -> Seq(Blocks)]
        /\ LocalDir(s).name \in Files /\ disk'[LocalDir(s).name] = <<>>
        /\ \A n \in Files : n # LocalDir(s).name => disk'[n] = disk[n]
    <3>1. <<>> \in Seq(Blocks)
      OBVIOUS
    <3>2. QED
      BY <1>4, <3>1 DEF DataType, OnDisk
  <2>3. DataType'
    BY <1>1, <1>2, <1>4, <2>1, <2>2 DEF DataType
  <2>4. Elsewhere(s)
    BY <1>1, <1>2, <1>4, <2>1, <2>2 DEF Elsewhere, Goes, DataType, Inv, Ledger, TypeInv
  <2>5. Named'
    BY <1>1, <1>4, NamedKept DEF AtWork, Goes, Inv, Ledger, TypeInv
  <2>6. Fresh(s)' /\ Sending(s)' /\ Sent(s)'
    BY <1>1, <1>4 DEF Fresh, Sending, Sent, Goes, Inv, Ledger, TypeInv
  <2>7. Receiving(s)'
    <3>1. pc'[s] = "body" /\ code'[s] = OK /\ got'[s] = 0
      BY <1>1, <1>2, <1>4 DEF Goes, DataType, Inv, Ledger, TypeInv
    <3>2. SubSeq(Block, 1, 0) = <<>>
      BY SubSeqEmpty
    <3>3. desc'[f].kind = "write" /\ desc'[f].name = LocalDir(s).name
      BY <2>1 DEF FileOf
    <3>4. QED
      BY <1>1, <1>4, <2>1, <2>2, <3>1, <3>2, <3>3 DEF Receiving
  <2>8. QED
    BY <2>1, <2>3, <2>4, <2>5, <2>6, <2>7, Composed DEF Progress
<1>5. QED
  BY <1>2, <1>3, <1>4 DEF OpenFails

(* A connection that ends before the header has been seen: nothing has come. *)
LEMMA HangUpContents ==
  ASSUME Inv, Contents, NEW s \in Slots, HangUp(s)
  PROVE  Contents'
<1> USE DEF Contents
<1>1. /\ pc[s] \in {"await", "header"} /\ AtWork(s) /\ Goes(s, "after_resp") /\ ~opened[s]
      /\ UNCHANGED <<mode, run, cmd, sockfd, filefd, code, header, got, desc, disk, sent,
                     opened, lost, outcome>>
  BY DEF HangUp, At, AtWork, cmdVars, Progress, Fresh
<1>2. DataType' /\ StdinKept' /\ Elsewhere(s)
  BY <1>1 DEF DataType, StdinKept, Elsewhere, Goes, Inv, Ledger, TypeInv
<1>3. Named'
  BY <1>1, NamedKept DEF AtWork, Goes, Inv, Ledger, TypeInv
<1>4. Progress(s)'
  BY <1>1 DEF Progress, Fresh, Sending, Sent, Receiving, Goes, Inv, Ledger, TypeInv
<1>5. QED
  BY <1>2, <1>3, <1>4, Composed

(* A block goes to the file of the get, if it has one open, and to no other. *)
LEMMA BodyArrivesContents ==
  ASSUME Inv, Contents, NEW s \in Slots, BodyArrives(s)
  PROVE  Contents'
<1> USE DEF Contents
<1>1. /\ pc[s] = "body" /\ AtWork(s) /\ HasFile(s) /\ got[s] < Len(Block)
      /\ Method(s) = "get" /\ code[s] = OK
      /\ got' = [got EXCEPT ![s] = @ + 1]
      /\ UNCHANGED <<mode, pc, run, cmd, sockfd, filefd, code, header, desc, sent, opened,
                     lost, outcome>>
      /\ Method(s)' = Method(s) /\ LocalDir(s)' = LocalDir(s)
  BY DEF BodyArrives, At, AtWork, cmdVars, HasFile, Method, LocalDir
<1>2. got[s] \in Nat /\ got' \in [Slots -> 0 .. Len(Block)] /\ got'[s] = got[s] + 1
  BY <1>1 DEF DataType, Block
<1>3. Named' /\ StdinKept'
  BY <1>1 DEF Named, StdinKept, AtWork
<1>4. Fresh(s)' /\ Sending(s)' /\ Sent(s)'
  BY <1>1 DEF Fresh, Sending, Sent
<1>5. CASE opened[s]
  <2> DEFINE n == LocalDir(s).name
             b == SubSeq(Block, 1, got[s] + 1)
  <2>1. /\ n \in Files /\ disk[n] = SubSeq(Block, 1, got[s]) /\ filefd[s] \in Fds
        /\ desc[filefd[s]].kind = "write" /\ desc[filefd[s]].name = n
    BY <1>1, <1>5 DEF Progress, Receiving
  <2>2. filefd[s] > 2
    BY <2>1, ExchangeAssumption DEF StdinKept, Fds, Stdin
  <2>3. disk' = [disk EXCEPT ![n] = b]
    BY <1>1, <1>2, <2>1, <2>2, BlockGrows DEF BodyArrives, IsFile, Written
  <2>4. b \in Seq(Blocks)
    BY <1>1, <1>2, BlockGrows
  <2> HIDE DEF n, b
  <2>5. /\ disk' \in [Files -> Seq(Blocks)]
        /\ disk'[n] = b /\ \A m \in Files : m # n => disk'[m] = disk[m]
    BY <2>1, <2>3, <2>4 DEF DataType
  <2> USE DEF n
  <2>6. DataType'
    BY <1>1, <1>2, <2>5 DEF DataType
  <2>7. Elsewhere(s)
    BY <1>1, <2>5 DEF Elsewhere, DataType
  <2>8. Receiving(s)'
    BY <1>1, <1>2, <1>5, <2>1, <2>5 DEF Receiving, b
  <2>9. QED
    BY <1>3, <1>4, <2>6, <2>7, <2>8, Composed DEF Progress
<1>6. CASE ~opened[s]
  <2>1. filefd[s] = -1
    BY <1>1, <1>6 DEF Inv, Ledger, Recorded, DataType
  <2>2. disk' = disk
    BY <2>1 DEF BodyArrives, IsFile
  <2>3. DataType' /\ Elsewhere(s)
    BY <1>1, <1>2, <2>2 DEF DataType, Elsewhere
  <2>4. Receiving(s)'
    BY <1>1, <1>6 DEF Receiving
  <2>5. QED
    BY <1>3, <1>4, <2>3, <2>4, Composed DEF Progress
<1>7. QED
  BY <1>5, <1>6

(* The end of a body: the loop is left, and the file stays as it is. *)
LEMMA BodyEndsContents ==
  ASSUME Inv, Contents, NEW s \in Slots, BodyEnds(s)
  PROVE  Contents'
<1> USE DEF Contents
<1>1. /\ pc[s] = "body" /\ AtWork(s) /\ Goes(s, "after_resp")
      /\ UNCHANGED <<mode, run, cmd, sockfd, filefd, code, header, got, desc, disk, sent,
                     opened, lost, outcome>>
  BY DEF BodyEnds, At, AtWork, cmdVars
<1>2. DataType' /\ StdinKept' /\ Elsewhere(s)
  BY <1>1 DEF DataType, StdinKept, Elsewhere, Goes, Inv, Ledger, TypeInv
<1>3. Named'
  BY <1>1, NamedKept DEF AtWork, Goes, Inv, Ledger, TypeInv
<1>4. Fresh(s)' /\ Sending(s)' /\ Sent(s)'
  BY <1>1 DEF Fresh, Sending, Sent, Goes, Inv, Ledger, TypeInv
<1>5. Receiving(s)'
  BY <1>1 DEF Progress, Receiving, Goes, Method, LocalDir, Inv, Ledger, TypeInv
<1>6. QED
  BY <1>2, <1>3, <1>4, <1>5, Composed DEF Progress

(* The callback after the response: a get closes its file. *)
LEMMA AfterResponseContents ==
  ASSUME Inv, Contents, NEW s \in Slots, AfterResponse(s)
  PROVE  Contents'
<1> USE DEF Contents
<1>1. /\ pc[s] = "after_resp" /\ AtWork(s) /\ Goes(s, "close")
      /\ UNCHANGED <<mode, run, cmd, sockfd, code, header, got, disk, sent, opened, lost,
                     outcome>>
  BY DEF AfterResponse, At, AtWork, cmdVars
<1>2. /\ desc' \in [Fds -> Descriptors] /\ StdinKept'
      /\ \A g \in Fds : IsAFile(g) /\ desc[g].owner # s => desc'[g] = desc[g]
      /\ filefd' \in [Slots -> {-1} \cup Fds]
      /\ \A t \in Slots \ {s} : filefd'[t] = filefd[t]
  <2>1. CASE Method(s) = "get" /\ code[s] = OK
    <3>1. HasFile(s)
      BY <1>1, <2>1 DEF HasFile
    <3>2. desc' = ClosedTable(filefd[s]) /\ filefd' = [filefd EXCEPT ![s] = 0]
      BY <2>1 DEF AfterResponse
    <3>3. filefd' \in [Slots -> {-1} \cup Fds] /\ \A t \in Slots \ {s} : filefd'[t] = filefd[t]
      BY <3>2 DEF DataType, Fds, Stdin
    <3>4. QED
      BY <3>1, <3>2, <3>3, CloseContents DEF StdinKept
  <2>2. CASE ~(Method(s) = "get" /\ code[s] = OK)
    BY <2>2 DEF AfterResponse, DataType, StdinKept
  <2>3. QED
    BY <2>1, <2>2
<1>3. DataType' /\ Elsewhere(s)
  BY <1>1, <1>2 DEF DataType, Elsewhere, Goes, Inv, Ledger, TypeInv
<1>4. Named'
  BY <1>1, NamedKept DEF AtWork, Goes, Inv, Ledger, TypeInv
<1>5. Fresh(s)' /\ Sending(s)' /\ Sent(s)'
  BY <1>1 DEF Fresh, Sending, Sent, Goes, Inv, Ledger, TypeInv
<1>6. Receiving(s)'
  BY <1>1 DEF Progress, Receiving, Goes, Method, LocalDir, Inv, Ledger, TypeInv
<1>7. QED
  BY <1>2, <1>3, <1>4, <1>5, <1>6, Composed DEF Progress

(* The end of an exchange clears what the slot remembers of it. *)
LEMMA CloseKeepsContents ==
  ASSUME Inv, Contents, NEW s \in Slots, Close(s)
  PROVE  Contents'
<1> USE DEF Contents
<1>1. /\ pc[s] \in {"close", "fail"} /\ AtWork(s) /\ Goes(s, "idle")
      /\ cmd' = [cmd EXCEPT ![s] = NoCommand] /\ header' = [header EXCEPT ![s] = FALSE]
      /\ got' = [got EXCEPT ![s] = 0] /\ sent' = [sent EXCEPT ![s] = <<>>]
      /\ opened' = [opened EXCEPT ![s] = FALSE]
      /\ UNCHANGED <<mode, run, filefd, code, disk, lost>>
  BY DEF Close, At, AtWork, ChunkCleared
<1>2. /\ desc' = desc \/ desc' = ClosedTable(sockfd[s])
      /\ sockfd' \in [Slots -> {-1} \cup Fds]
      /\ outcome' \in {"running", "ended", "aborted", "crashed"}
  BY DEF Close, SocketClosed, DataType, Fds, Stdin
<1>3. sockfd[s] \in Fds /\ desc[sockfd[s]].kind = "socket"
  BY <1>1 DEF Inv, OwnSocket
<1>4. desc' \in [Fds -> Descriptors] /\ \A f \in Fds \ {sockfd[s]} : desc'[f] = desc[f]
  BY <1>2 DEF ClosedTable, DataType, Descriptors
<1>5. DataType'
  <2>1. header' \in [Slots -> BOOLEAN] /\ got' \in [Slots -> 0 .. Len(Block)]
    BY <1>1 DEF DataType, Block
  <2>2. sent' \in [Slots -> Seq({"header"} \cup Blocks)]
    BY <1>1 DEF DataType
  <2>3. QED
    BY <1>1, <1>2, <1>4, <2>1, <2>2 DEF DataType
<1>6. StdinKept'
  BY <1>3, <1>4 DEF StdinKept, Fds
<1>7. Elsewhere(s)
  BY <1>1, <1>3, <1>4 DEF Elsewhere, Goes, IsAFile, DataType, Inv, Ledger, TypeInv
<1>8. Named'
  <2>1. \A t \in Slots : AtWork(t)' => AtWork(t) /\ cmd'[t] = cmd[t] /\ run'[t] = run[t]
    BY <1>1 DEF AtWork, Goes, Inv, Ledger, TypeInv
  <2>2. QED
    BY <2>1, NamedKept
<1>9. Progress(s)'
  BY <1>1 DEF Progress, Fresh, Sending, Sent, Receiving, Goes, DataType, Inv, Ledger, TypeInv
<1>10. QED
  BY <1>5, <1>6, <1>7, <1>8, <1>9, Composed

--------------------------------------------------------------------------------
(* The theorems.                                                                *)

(* Contents is kept by every step. *)
LEMMA ContentsStep == Inv /\ Contents /\ [Next]_vars => Contents'
<1> SUFFICES ASSUME Inv, Contents, [Next]_vars PROVE Contents'
  OBVIOUS
<1>1. CASE UNCHANGED vars
  BY <1>1, ContentsFrame DEF vars, cmdVars, Contents, DataType
<1>2. ASSUME NEW s \in Slots, Step(s) PROVE Contents'
  <2>1. CASE ReadFileFails(s) \/ ResponseFails(s)
    <3>1. /\ AtWork(s) /\ Goes(s, "fail") /\ lost' \in {lost, lost \cup {<<s, run[s]>>}}
          /\ UNCHANGED <<mode, run, cmd, sockfd, filefd, code, header, got, desc, disk, sent,
                         opened, outcome>>
      BY <2>1 DEF ReadFileFails, ResponseFails, At, AtWork, cmdVars
    <3>2. lost' \subseteq Slots \X Nat
      BY <3>1 DEF Contents, DataType
    <3>3. QED
      BY <3>1, <3>2, FailContents
  <2>2. CASE Abort(s)
    BY <2>2, ContentsFrame DEF Abort, cmdVars
  <2>3. QED
    BY <1>2, <2>1, <2>2, CommandContents, OneShotContents, BeforeRequestContents,
       WriteHeaderContents, WriteFileContents, AfterRequestContents, StatusLineContents,
       HeaderArrivesContents, HangUpContents, BodyArrivesContents, BodyEndsContents, AfterResponseContents,
       CloseKeepsContents DEF Step
<1>3. QED
  BY <1>1, <1>2 DEF Next

(* A digit has the value of a digit. *)
LEMMA DigitIs == \A c \in DOMAIN DigitValue : DigitValue[c] \in Nat
<1> SUFFICES ASSUME NEW c \in DOMAIN DigitValue PROVE DigitValue[c] \in Nat
  OBVIOUS
<1> DEFINE digits == <<"0", "1", "2", "3", "4", "5", "6", "7", "8", "9">>
           value == CHOOSE v \in 0 .. 9 : c = digits[v + 1]
<1>1. c \in {"0", "1", "2", "3", "4", "5", "6", "7", "8", "9"}
  BY DEF DigitValue
<1>2. \E v \in 0 .. 9 : c = digits[v + 1]
  BY <1>1
<1>3. DigitValue[c] = value
  BY <1>1 DEF DigitValue
<1> HIDE DEF digits
<1>4. value \in 0 .. 9
  BY <1>2
<1> HIDE DEF value
<1>5. QED
  BY <1>3, <1>4

(* A sequence of digits means a number (strtol): each value from the one before. *)
LEMMA DecimalIs ==
  ASSUME NEW d \in Seq(STRING), \A i \in 1 .. Len(d) : d[i] \in DOMAIN DigitValue
  PROVE  Decimal(d) \in Nat
<1> DEFINE N == Len(d)
           Longer(n, v) == 10 * v + DigitValue[d[n]]
           Unfolded(f) == [n \in 0 .. N |-> IF n = 0 THEN 0 ELSE Longer(n, f[n - 1])]
           step == [n \in 1 .. N |-> [v \in Nat |-> Longer(n, v)]]
           F == CHOOSE f : f = Unfolded(f)
<1>1. Decimal(d) = F[N]
  BY DEF Decimal
<1>2. N \in Nat /\ \A n \in 1 .. N : d[n] \in DOMAIN DigitValue
  OBVIOUS
<1>3. ASSUME NEW n \in 1 .. N, NEW v \in Nat PROVE Longer(n, v) \in Nat
  <2>1. DigitValue[d[n]] \in Nat
    BY <1>2, DigitIs
  <2>2. QED
    BY <2>1
<1>4. ASSUME NEW f
      PROVE  f = Unfolded(f) <=>
               /\ f = [n \in 0 .. N |-> f[n]]
               /\ \A n \in 0 .. N : f[n] = IF n = 0 THEN 0 ELSE Longer(n, f[n - 1])
  <2> HIDE DEF Longer
  <2>1. QED
    OBVIOUS
<1>5. F = CHOOSE f : f = Unfolded(f)
  OBVIOUS
<1> HIDE DEF Longer, Unfolded, F
<1>6. PICK g : Follows(g, N, Nat, 0, step)
  <2>1. \A n \in 1 .. N : \A v \in Nat : step[n][v] \in Nat
    BY <1>3
  <2> HIDE DEF step
  <2>2. QED
    BY <1>2, <2>1, RecursionExists
<1>7. g = Unfolded(g)
  <2> USE DEF Follows
  <2>1. ASSUME NEW n \in 1 .. N PROVE g[n] = Longer(n, g[n - 1])
    <3>1. g[n - 1] \in Nat
      <4>1. n - 1 \in 0 .. N
        BY <1>2
      <4>2. g \in [0 .. N -> Nat]
        BY <1>6
      <4> HIDE DEF N, step
      <4>3. QED
        BY <4>1, <4>2
    <3>2. step[n][g[n - 1]] = Longer(n, g[n - 1])
      BY <3>1
    <3> HIDE DEF step
    <3>3. QED
      BY <1>6, <3>2
  <2> HIDE DEF step
  <2>2. ASSUME NEW n \in 0 .. N PROVE g[n] = IF n = 0 THEN 0 ELSE Longer(n, g[n - 1])
    BY <1>2, <1>6, <2>1
  <2>3. g = [n \in 0 .. N |-> g[n]]
    BY <1>6
  <2>4. QED
    BY <1>4, <2>2, <2>3
<1>8. F = Unfolded(F)
  BY <1>5, <1>7, Zenon
<1>9. F[0] = 0 /\ \A n \in 1 .. N : F[n] = Longer(n, F[n - 1])
  <2>1. \A n \in 0 .. N : F[n] = IF n = 0 THEN 0 ELSE Longer(n, F[n - 1])
    BY <1>4, <1>8
  <2>2. 0 \in 0 .. N /\ \A n \in 1 .. N : n \in 0 .. N /\ n # 0
    BY <1>2
  <2>3. QED
    BY <2>1, <2>2
<1> DEFINE S == {n \in 0 .. N : F[n] \in Nat}
<1>10. 0 \in S
  BY <1>2, <1>9
<1>11. ASSUME NEW n \in 0 .. N - 1, n \in S PROVE n + 1 \in S
  <2>1. n + 1 \in 1 .. N /\ F[n] \in Nat /\ (n + 1) - 1 = n
    BY <1>2, <1>11
  <2>2. F[n + 1] = Longer(n + 1, F[n])
    BY <1>9, <2>1
  <2>3. F[n + 1] \in Nat
    BY <1>3, <2>1, <2>2
  <2>4. QED
    BY <1>2, <2>1, <2>3
<1> HIDE DEF S
<1>12. 0 .. N \subseteq S
  BY <1>2, <1>10, <1>11, IntervalInduction
<1>13. F[N] \in Nat
  BY <1>2, <1>12 DEF S
<1>14. QED
  BY <1>1, <1>13

(* strtol stops at the first character that is no digit. *)
LEMMA NumberOf ==
  ASSUME NEW s \in Seq(STRING), NEW k \in 0 .. Len(s),
         \A i \in 1 .. k : s[i] \in DOMAIN DigitValue,
         k < Len(s) => s[k + 1] \notin DOMAIN DigitValue
  PROVE  Number(s) = Decimal(SubSeq(s, 1, k))
<1> DEFINE I == {i \in 1 .. Len(s) : s[i] \notin DOMAIN DigitValue}
           nonDigit == SelectInSeq(s, LAMBDA c : c \notin DOMAIN DigitValue)
<1>1. nonDigit = IF I # {} THEN Min(I) ELSE 0
  BY DEF SelectInSeq
<1>2. I \in SUBSET Nat /\ \A i \in I : k < i
  OBVIOUS
<1>3. k < Len(s) => k + 1 \in I
  OBVIOUS
<1>4. k = Len(s) => I = {}
  OBVIOUS
<1>5. Number(s) = Decimal(Copy(s, IF nonDigit = 0 THEN Len(s) ELSE nonDigit - 1))
  BY DEF Number
<1> HIDE DEF I, nonDigit
<1>6. CASE k = Len(s)
  BY <1>1, <1>4, <1>5, <1>6 DEF Copy
<1>7. CASE k < Len(s)
  <2>1. k + 1 \in I /\ \A i \in I : k + 1 <= i
    BY <1>2, <1>3, <1>7
  <2>2. nonDigit = k + 1
    BY <1>1, <1>2, <2>1, MinIs
  <2>3. Copy(s, k) = SubSeq(s, 1, k) /\ k + 1 # 0 /\ (k + 1) - 1 = k
    BY <1>7 DEF Copy
  <2>4. QED
    BY <1>5, <2>2, <2>3
<1>8. QED
  BY <1>6, <1>7

(* What strtol makes of characters is a number: of the digits they begin with. *)
LEMMA NumberIs ==
  ASSUME NEW s \in Seq(STRING)
  PROVE  Number(s) \in Nat
<1> DEFINE I == {i \in 1 .. Len(s) : s[i] \notin DOMAIN DigitValue}
<1>1. \E k \in 0 .. Len(s) :
        /\ \A i \in 1 .. k : s[i] \in DOMAIN DigitValue
        /\ k < Len(s) => s[k + 1] \notin DOMAIN DigitValue
  <2>1. CASE I = {}
    BY <2>1
  <2>2. CASE I # {}
    <3>1. I \in SUBSET Nat
      OBVIOUS
    <3>2. PICK m \in I : \A i \in I : m <= i
      BY <2>2, <3>1, NatLeast
    <3>3. m \in 1 .. Len(s) /\ s[m] \notin DOMAIN DigitValue
      BY <3>2
    <3>4. ASSUME NEW i \in 1 .. m - 1 PROVE s[i] \in DOMAIN DigitValue
      BY <3>2, <3>3
    <3>5. m - 1 \in 0 .. Len(s) /\ (m - 1) + 1 = m
      BY <3>3
    <3>6. QED
      BY <3>3, <3>4, <3>5
  <2>3. QED
    BY <2>1, <2>2
<1>2. PICK k \in 0 .. Len(s) :
        /\ \A i \in 1 .. k : s[i] \in DOMAIN DigitValue
        /\ k < Len(s) => s[k + 1] \notin DOMAIN DigitValue
  BY <1>1
<1> DEFINE d == SubSeq(s, 1, k)
<1>3. d \in Seq(STRING) /\ \A i \in 1 .. Len(d) : d[i] \in DOMAIN DigitValue
  BY <1>2
<1>4. Number(s) = Decimal(d)
  BY <1>2, NumberOf
<1> HIDE DEF d
<1>5. QED
  BY <1>3, <1>4, DecimalIs

(* The parts of the url of a command are sequences of characters. *)
LEMMA UrlParts ==
  ASSUME NEW c \in Commands
  PROVE  /\ c.url.text \in Seq(STRING) /\ c.url.scheme \in Seq(STRING)
         /\ c.url.domain \in Seq(STRING) /\ c.url.digits \in Seq(STRING)
         /\ c.url.path \in Seq(STRING)
<1>1. \A part \in {"text", "scheme", "domain", "digits", "path"} : c.url[part] \in Seq(STRING)
  BY ExchangeAssumption DEF CommandType
<1>2. QED
  BY <1>1

\* The places in s at which p stands.
Places(s, p) == {i \in 1 .. Len(s) - Len(p) + 1 : SubSeq(s, i, i + Len(p) - 1) = p}

(* strstr gives the first place of what it looks for, and 0 if there is none. *)
LEMMA FindIs ==
  ASSUME NEW s, NEW p
  PROVE  /\ Find(s, p) \in Nat
         /\ Places(s, p) = {} => Find(s, p) = 0
         /\ \A k \in Places(s, p) : (\A i \in Places(s, p) : k <= i) => Find(s, p) = k
<1> DEFINE found == Places(s, p)
<1>1. found \in SUBSET Nat
  BY DEF Places
<1>2. Find(s, p) = IF found = {} THEN 0 ELSE Min(found)
  BY DEF Find, Places
<1> HIDE DEF found
<1>3. Find(s, p) \in Nat
  <2>1. found # {} => Min(found) \in Nat
    BY <1>1, MinIsLeast
  <2>2. QED
    BY <1>2, <2>1
<1>4. found = {} => Find(s, p) = 0
  BY <1>2
<1>5. ASSUME NEW k \in found, \A i \in found : k <= i PROVE Find(s, p) = k
  <2>1. Min(found) = k
    BY <1>1, <1>5, MinIs
  <2>2. QED
    BY <1>2, <1>5, <2>1
<1>6. QED
  BY <1>3, <1>4, <1>5 DEF found

(* The first place of one character, and a character that is nowhere. *)
LEMMA FindCharacter ==
  ASSUME NEW Chars, NEW s \in Seq(Chars), NEW c
  PROVE  /\ (\A i \in 1 .. Len(s) : s[i] # c) => Find(s, <<c>>) = 0
         /\ \A k \in 1 .. Len(s) :
              s[k] = c /\ (\A i \in 1 .. k - 1 : s[i] # c) => Find(s, <<c>>) = k
<1> DEFINE found == Places(s, <<c>>)
<1>1. \A i : i \in found <=> i \in 1 .. Len(s) /\ s[i] = c
  <2>1. Len(<<c>>) = 1 /\ Len(s) \in Nat /\ <<c>>[1] = c
    OBVIOUS
  <2>2. ASSUME NEW i \in 1 .. Len(s) PROVE SubSeq(s, i, i) = <<c>> <=> s[i] = c
    <3>1. SubSeq(s, i, i) \in Seq(Chars) /\ Len(SubSeq(s, i, i)) = 1 /\ SubSeq(s, i, i)[1] = s[i]
      OBVIOUS
    <3>2. ASSUME s[i] = c PROVE SubSeq(s, i, i) = <<c>>
      <4>1. <<c>> \in Seq(Chars)
        BY <3>2, ElementOfSeq
      <4>2. \A j \in 1 .. Len(SubSeq(s, i, i)) : SubSeq(s, i, i)[j] = <<c>>[j]
        BY <2>1, <3>1, <3>2
      <4>3. QED
        BY <2>1, <3>1, <4>1, <4>2, SeqEqual
    <3>3. QED
      BY <2>1, <3>1, <3>2
  <2>3. found = {i \in 1 .. Len(s) : SubSeq(s, i, i) = <<c>>}
    BY <2>1 DEF Places
  <2> HIDE DEF found
  <2>4. QED
    BY <2>2, <2>3
<1>2. /\ found = {} => Find(s, <<c>>) = 0
      /\ \A k \in found : (\A i \in found : k <= i) => Find(s, <<c>>) = k
  BY FindIs
<1> HIDE DEF found
<1>3. (\A i \in 1 .. Len(s) : s[i] # c) => found = {}
  BY <1>1
<1>4. ASSUME NEW k \in 1 .. Len(s), s[k] = c, \A i \in 1 .. k - 1 : s[i] # c
      PROVE  k \in found /\ \A i \in found : k <= i
  <2>1. ASSUME NEW i \in found PROVE k <= i
    <3>1. i \in 1 .. Len(s) /\ s[i] = c
      BY <1>1
    <3>2. i \in Nat /\ k \in Nat /\ i >= 1
      BY <3>1
    <3>3. i \notin 1 .. k - 1
      BY <1>4, <3>1
    <3>4. QED
      BY <3>2, <3>3
  <2>2. QED
    BY <1>1, <1>4, <2>1
<1>5. QED
  BY <1>2, <1>3, <1>4

(* A url's port is a number, whatever the url. *)
LEMMA PortIs ==
  ASSUME NEW url \in Seq(STRING)
  PROVE  Port(url) \in Nat
<1>1. ASSUME NEW s \in Seq(STRING), NEW k \in Nat PROVE Behind(s, k) \in Seq(STRING)
  BY DEF Behind
<1>2. ASSUME NEW s, NEW p PROVE Find(s, p) \in Nat
  BY FindIs
<1>3. Remainder(url) \in Seq(STRING)
  <2>1. SchemeEnd(url) \in Nat
    BY <1>2 DEF SchemeEnd
  <2>2. SchemeEnd(url) + 2 \in Nat
    BY <2>1
  <2>3. QED
    BY <1>1, <2>2 DEF Remainder
<1>4. Host(url) \in Seq(STRING)
  BY <1>1, <1>2, <1>3 DEF Host
<1>5. Colon(url) \in Nat
  BY <1>2 DEF Colon
<1>6. Behind(Host(url), Colon(url)) \in Seq(STRING)
  BY <1>1, <1>4, <1>5
<1>7. QED
  BY <1>6, NumberIs DEF Port, DefaultPort

--------------------------------------------------------------------------------
(* How a url of the plain form is read.                                         *)

(* Texts are joined in any order. *)
LEMMA Joined == \A a, b, c \in Seq(STRING) : (a \o b) \o c = a \o (b \o c)
  BY ConcatAssociative

(* The same of four texts. *)
LEMMA JoinedFour ==
  ASSUME NEW a \in Seq(STRING), NEW b \in Seq(STRING), NEW c \in Seq(STRING), NEW d \in Seq(STRING)
  PROVE  a \o b \o c \o d = a \o (b \o c \o d)
<1> DEFINE h == b \o c
<1>1. h \in Seq(STRING)
  BY ConcatProperties
<1>2. (a \o b) \o c = a \o h
  BY Joined
<1> HIDE DEF h
<1>3. (a \o h) \o d = a \o (h \o d)
  BY <1>1, Joined, ZenonT(60)
<1>4. QED
  BY <1>2, <1>3 DEF h

(* The first and the second character of a part of a text. *)
LEMMA PartBegins ==
  ASSUME NEW s \in Seq(STRING), NEW i \in Nat, i >= 1, i + 2 <= Len(s)
  PROVE  SubSeq(s, i, i + 2)[1] = s[i] /\ SubSeq(s, i, i + 2)[2] = s[i + 1]
<1>1. \A k \in 1 .. (i + 2) - i + 1 : SubSeq(s, i, i + 2)[k] = s[i + k - 1]
  <2>1. i \in Int /\ i + 2 \in Int /\ \A k \in i .. i + 2 : s[k] \in STRING
    OBVIOUS
  <2>2. QED
    BY <2>1, SubSeqProperties
<1>2. 1 \in 1 .. (i + 2) - i + 1 /\ 2 \in 1 .. (i + 2) - i + 1
  OBVIOUS
<1>3. i + 1 - 1 = i /\ i + 2 - 1 = i + 1
  OBVIOUS
<1>4. QED
  BY <1>1, <1>2, <1>3

(* A sequence is cut again where it was put together. *)
LEMMA CutConcat ==
  ASSUME NEW Chars, NEW s \in Seq(Chars), NEW t \in Seq(Chars)
  PROVE  Copy(s \o t, Len(s)) = s /\ Behind(s \o t, Len(s)) = t
<1> DEFINE u == s \o t
<1>1. /\ u \in Seq(Chars) /\ Len(u) = Len(s) + Len(t)
      /\ \A i \in 1 .. Len(s) : u[i] = s[i]
      /\ \A i \in 1 .. Len(t) : u[Len(s) + i] = t[i]
  BY ConcatProperties
<1>2. Len(s) \in Nat /\ Len(t) \in Nat
  OBVIOUS
<1> HIDE DEF u
<1>3. Copy(u, Len(s)) = s
  <2>1. Copy(u, Len(s)) = SubSeq(u, 1, Len(s))
    BY <1>1, <1>2 DEF Copy
  <2> DEFINE w == SubSeq(u, 1, Len(s))
  <2>2. w \in Seq(Chars) /\ Len(w) = Len(s) /\ \A i \in 1 .. Len(s) : w[i] = u[i]
    BY <1>1, <1>2
  <2> HIDE DEF w
  <2>3. w = s
    BY <1>1, <2>2, SeqEqual
  <2>4. QED
    BY <2>1, <2>3 DEF w
<1>4. Behind(u, Len(s)) = t
  <2>1. Behind(u, Len(s)) = SubSeq(u, Len(s) + 1, Len(s) + Len(t))
    BY <1>1 DEF Behind
  <2> DEFINE w == SubSeq(u, Len(s) + 1, Len(s) + Len(t))
  <2>2. w \in Seq(Chars) /\ Len(w) = Len(t) /\ \A i \in 1 .. Len(t) : w[i] = u[Len(s) + i]
    BY <1>1, <1>2
  <2> HIDE DEF w
  <2>3. w = t
    BY <1>1, <2>2, SeqEqual
  <2>4. QED
    BY <2>1, <2>3 DEF w
<1>5. QED
  BY <1>3, <1>4 DEF u

\* What follows the scheme of a url of the plain form: the domain, ":" with digits
\* or nothing, a path or nothing.
PlainRest(domain, digits, path) ==
  /\ domain \in Seq(STRING) /\ digits \in Seq(STRING) /\ path \in Seq(STRING)
  /\ Without(domain, {":", "/", "@"})
  /\ digits # <<>> =>
       /\ Len(digits) > 1 /\ digits[1] = ":"
       /\ \A i \in 2 .. Len(digits) : digits[i] \in DOMAIN DigitValue
  /\ Without(path, {":", "@"})
  /\ path # <<>> => Len(path) >= 1 /\ path[1] = "/"

(* None of the characters that separate the parts of a url is a digit. *)
LEMMA NoSeparatorIsDigit == \A c \in {":", "/", "@"} : c \notin DOMAIN DigitValue
  BY DEF DigitValue

(* What stands where in what follows the scheme. *)
LEMMA RestPlaces ==
  ASSUME NEW domain, NEW digits, NEW path, PlainRest(domain, digits, path)
  PROVE  LET r == domain \o digits \o path
             a == Len(domain)
             b == Len(digits)
         IN /\ r \in Seq(STRING) /\ Len(r) = a + b + Len(path)
            /\ a \in Nat /\ b \in Nat /\ Len(path) \in Nat
            /\ \A i \in 1 .. a : r[i] = domain[i]
            /\ \A i \in a + 1 .. a + b : r[i] = digits[i - a]
            /\ \A i \in a + b + 1 .. Len(r) : r[i] = path[i - (a + b)]
<1> USE DEF PlainRest
<1> DEFINE h == domain \o digits
<1>1. h \in Seq(STRING) /\ Len(h) = Len(domain) + Len(digits)
  BY ConcatProperties
<1>2. \A i \in 1 .. Len(domain) + Len(digits) :
        h[i] = IF i <= Len(domain) THEN domain[i] ELSE digits[i - Len(domain)]
  BY ConcatProperties
<1>3. Len(domain) \in Nat /\ Len(digits) \in Nat /\ Len(path) \in Nat
  OBVIOUS
<1> HIDE DEF h, PlainRest
<1>4. path \in Seq(STRING)
  BY DEF PlainRest
<1>5. /\ h \o path \in Seq(STRING) /\ Len(h \o path) = Len(h) + Len(path)
      /\ \A i \in 1 .. Len(h) + Len(path) :
           (h \o path)[i] = IF i <= Len(h) THEN h[i] ELSE path[i - Len(h)]
  BY <1>1, <1>4, ConcatProperties
<1> DEFINE r == h \o path
<1> HIDE DEF r
<1>6. /\ \A i \in 1 .. Len(domain) : r[i] = domain[i]
      /\ \A i \in Len(domain) + 1 .. Len(domain) + Len(digits) : r[i] = digits[i - Len(domain)]
  BY <1>1, <1>2, <1>3, <1>5 DEF r
<1>7. \A i \in Len(domain) + Len(digits) + 1 .. Len(r) :
        r[i] = path[i - (Len(domain) + Len(digits))]
  BY <1>1, <1>3, <1>5 DEF r
<1>8. QED
  BY <1>1, <1>3, <1>5, <1>6, <1>7 DEF r, h

(* Where the parser finds what separates them. *)
LEMMA RestFinds ==
  ASSUME NEW domain, NEW digits, NEW path, PlainRest(domain, digits, path)
  PROVE  LET r == domain \o digits \o path
         IN /\ Find(r, <<"@">>) = 0
            /\ Find(r, <<":">>) = IF digits = <<>> THEN 0 ELSE Len(domain) + 1
            /\ Find(r, <<"/">>) = IF path = <<>> THEN 0 ELSE Len(domain) + Len(digits) + 1
            /\ Find(r, <<":", "/", "/">>) = 0
<1> DEFINE r == domain \o digits \o path
           a == Len(domain)
           b == Len(digits)
<1>1. /\ r \in Seq(STRING) /\ Len(r) = a + b + Len(path)
      /\ a \in Nat /\ b \in Nat /\ Len(path) \in Nat
      /\ \A i \in 1 .. a : r[i] = domain[i]
      /\ \A i \in a + 1 .. a + b : r[i] = digits[i - a]
      /\ \A i \in a + b + 1 .. Len(r) : r[i] = path[i - (a + b)]
  BY RestPlaces
<1> HIDE DEF r
<1>2. ASSUME NEW i \in 1 .. a PROVE r[i] \notin {":", "/", "@"}
  BY <1>1 DEF PlainRest, Without
<1>3. digits # <<>> =>
        /\ b > 1 /\ r[a + 1] = ":"
        /\ \A i \in a + 2 .. a + b : r[i] \in DOMAIN DigitValue /\ r[i] \notin {":", "/", "@"}
  <2> SUFFICES ASSUME digits # <<>>
               PROVE  /\ b > 1 /\ r[a + 1] = ":"
                      /\ \A i \in a + 2 .. a + b :
                           r[i] \in DOMAIN DigitValue /\ r[i] \notin {":", "/", "@"}
    OBVIOUS
  <2>1. b > 1 /\ digits[1] = ":" /\ \A i \in 2 .. b : digits[i] \in DOMAIN DigitValue
    BY DEF PlainRest
  <2>2. r[a + 1] = ":"
    <3>1. a + 1 \in a + 1 .. a + b /\ (a + 1) - a = 1
      BY <1>1, <2>1
    <3>2. QED
      BY <1>1, <2>1, <3>1
  <2>3. ASSUME NEW i \in a + 2 .. a + b PROVE r[i] \in DOMAIN DigitValue
    <3>1. i \in a + 1 .. a + b /\ i - a \in 2 .. b
      BY <1>1
    <3>2. QED
      BY <1>1, <2>1, <3>1
  <2>4. QED
    BY <2>1, <2>2, <2>3, NoSeparatorIsDigit
<1>4. digits = <<>> => b = 0
  OBVIOUS
<1>5. ASSUME NEW i \in a + b + 1 .. Len(r) PROVE r[i] \notin {":", "@"}
  <2>1. i - (a + b) \in 1 .. Len(path)
    BY <1>1
  <2>2. QED
    BY <1>1, <2>1 DEF PlainRest, Without
<1>6. path # <<>> => a + b + 1 \in 1 .. Len(r) /\ r[a + b + 1] = "/"
  <2> SUFFICES ASSUME path # <<>> PROVE a + b + 1 \in 1 .. Len(r) /\ r[a + b + 1] = "/"
    OBVIOUS
  <2>1. Len(path) >= 1 /\ path[1] = "/"
    BY DEF PlainRest
  <2>2. a + b + 1 \in a + b + 1 .. Len(r) /\ (a + b + 1) - (a + b) = 1
    BY <1>1, <2>1
  <2>3. QED
    BY <1>1, <2>1, <2>2
<1>7. path = <<>> => Len(r) = a + b
  BY <1>1
<1> HIDE DEF a, b
<1>8. ASSUME NEW i \in 1 .. Len(r)
      PROVE  /\ r[i] # "@"
             /\ r[i] = ":" => digits # <<>> /\ i = a + 1
             /\ r[i] = "/" => path # <<>> /\ i > a + b
  <2>1. CASE i \in 1 .. a
    BY <1>2, <2>1
  <2>2. CASE i \in a + 1 .. a + b
    <3>1. digits # <<>>
      BY <1>1, <1>4, <2>2
    <3>2. CASE i = a + 1
      BY <1>3, <3>1, <3>2
    <3>3. CASE i \in a + 2 .. a + b
      BY <1>3, <3>1, <3>3
    <3>4. QED
      BY <1>1, <2>2, <3>2, <3>3
  <2>3. CASE i \in a + b + 1 .. Len(r)
    <3>1. path # <<>>
      BY <1>1, <1>7, <2>3
    <3>2. QED
      BY <1>1, <1>5, <2>3, <3>1
  <2>4. QED
    BY <1>1, <2>1, <2>2, <2>3
<1>9. \A c \in {":", "/", "@"} :
        /\ (\A i \in 1 .. Len(r) : r[i] # c) => Find(r, <<c>>) = 0
        /\ \A k \in 1 .. Len(r) :
             r[k] = c /\ (\A i \in 1 .. k - 1 : r[i] # c) => Find(r, <<c>>) = k
  BY <1>1, FindCharacter
<1>10. Find(r, <<":">>) = IF digits = <<>> THEN 0 ELSE a + 1
  <2>1. CASE digits = <<>>
    BY <1>8, <1>9, <2>1
  <2>2. CASE digits # <<>>
    <3>1. a + 1 \in 1 .. Len(r) /\ r[a + 1] = ":"
      BY <1>1, <1>3, <2>2
    <3>2. ASSUME NEW i \in 1 .. (a + 1) - 1 PROVE r[i] # ":"
      BY <1>1, <1>2
    <3>3. QED
      BY <1>9, <2>2, <3>1, <3>2
  <2>3. QED
    BY <2>1, <2>2
<1>11. Find(r, <<"/">>) = IF path = <<>> THEN 0 ELSE a + b + 1
  <2>1. CASE path = <<>>
    BY <1>8, <1>9, <2>1
  <2>2. CASE path # <<>>
    <3>1. ASSUME NEW i \in 1 .. (a + b + 1) - 1 PROVE r[i] # "/"
      <4>1. i \in 1 .. Len(r) /\ ~(i > a + b)
        BY <1>1
      <4>2. QED
        BY <1>8, <4>1
    <3>2. QED
      BY <1>6, <1>9, <2>2, <3>1
  <2>3. QED
    BY <2>1, <2>2
<1>12. Find(r, <<":", "/", "/">>) = 0
  <2> DEFINE sep == <<":", "/", "/">>
             found == Places(r, sep)
  <2>1. ASSUME NEW i \in found PROVE FALSE
    <3>1. Len(sep) = 3 /\ sep[1] = ":" /\ sep[2] = "/"
      OBVIOUS
    <3>2. i \in 1 .. Len(r) - 2 /\ SubSeq(r, i, i + 2) = sep
      BY <1>1, <3>1 DEF Places
    <3> HIDE DEF sep, found
    <3>3. SubSeq(r, i, i + 2)[1] = r[i] /\ SubSeq(r, i, i + 2)[2] = r[i + 1]
      <4>1. i \in Nat /\ i >= 1 /\ i + 2 <= Len(r)
        BY <1>1, <3>2
      <4>2. QED
        BY <1>1, <4>1, PartBegins
    <3>4. r[i] = ":" /\ r[i + 1] = "/" /\ i \in 1 .. Len(r) /\ i + 1 \in 1 .. Len(r)
      BY <1>1, <3>1, <3>2, <3>3
    <3>5. digits # <<>> /\ i = a + 1 /\ i + 1 > a + b
      BY <1>8, <3>4
    <3>6. QED
      BY <1>1, <1>3, <3>5
  <2>2. found = {} => Find(r, sep) = 0
    BY FindIs
  <2> HIDE DEF found
  <2>3. QED
    BY <2>1, <2>2
<1>13. Find(r, <<"@">>) = 0
  BY <1>8, <1>9
<1>14. QED
  BY <1>10, <1>11, <1>12, <1>13 DEF r, a, b

(* The scheme is cut off. *)
LEMMA SchemeIsCut ==
  ASSUME NEW scheme \in Seq(STRING), NEW rest \in Seq(STRING), PlainScheme(scheme),
         Find(rest, <<":", "/", "/">>) = 0
  PROVE  Remainder(scheme \o rest) = rest
<1> DEFINE sep == <<":", "/", "/">>
           text == scheme \o rest
           found == Places(text, sep)
<1>1. CASE scheme = <<>>
  <2>1. text = rest
    BY <1>1, ConcatEmptySeq
  <2>2. QED
    BY <2>1 DEF Remainder, SchemeEnd
<1>2. ASSUME NEW n \in 0 .. Len(scheme) - 3, Behind(scheme, n) = sep,
             Without(Copy(scheme, n), {":"})
      PROVE  Remainder(text) = rest
  <2>1. Len(sep) = 3 /\ sep[1] = ":"
    OBVIOUS
  <2>2. /\ text \in Seq(STRING) /\ Len(text) = Len(scheme) + Len(rest)
        /\ \A i \in 1 .. Len(scheme) : text[i] = scheme[i]
    BY ConcatProperties
  <2>3. Len(scheme) \in Nat /\ Len(rest) \in Nat /\ n \in Nat
    OBVIOUS
  <2>4. Len(scheme) = n + 3
    <3>1. Len(Behind(scheme, n)) = Len(scheme) - n
      BY <2>3 DEF Behind
    <3>2. QED
      BY <1>2, <2>1, <2>3, <3>1
  <2>5. n + 1 \in found
    <3>1. SubSeq(text, n + 1, n + 3) = SubSeq(scheme, n + 1, n + 3)
      BY <2>3, <2>4, SubSeqOfConcat1
    <3>2. SubSeq(scheme, n + 1, n + 3) = sep
      BY <1>2, <2>4 DEF Behind
    <3>3. n + 1 \in 1 .. Len(text) - Len(sep) + 1 /\ (n + 1) + Len(sep) - 1 = n + 3
      BY <2>1, <2>2, <2>3, <2>4
    <3>4. QED
      BY <3>1, <3>2, <3>3 DEF Places
  <2>6. ASSUME NEW i \in found PROVE n + 1 <= i
    <3>1. i \in 1 .. Len(text) - 2 /\ SubSeq(text, i, i + 2) = sep
      BY <2>1, <2>2, <2>3 DEF Places
    <3> HIDE DEF sep, found, text
    <3>2. SubSeq(text, i, i + 2)[1] = text[i]
      BY <2>2, <3>1
    <3>3. text[i] = ":"
      BY <2>1, <3>1, <3>2
    <3>4. \A j \in 1 .. n : scheme[j] # ":"
      <4>1. Copy(scheme, n) = SubSeq(scheme, 1, n)
        BY <2>3, <2>4 DEF Copy
      <4>2. Len(SubSeq(scheme, 1, n)) = n /\ \A j \in 1 .. n : SubSeq(scheme, 1, n)[j] = scheme[j]
        BY <2>3, <2>4
      <4>3. QED
        BY <1>2, <4>1, <4>2 DEF Without
    <3>5. ASSUME i <= n PROVE FALSE
      <4>1. i \in 1 .. n /\ i \in 1 .. Len(scheme)
        BY <2>3, <2>4, <3>1, <3>5
      <4>2. QED
        BY <2>2, <3>3, <3>4, <4>1
    <3>6. QED
      BY <2>2, <2>3, <3>1, <3>5
  <2>7. Find(text, sep) = n + 1
    <3>1. \A k \in found : (\A i \in found : k <= i) => Find(text, sep) = k
      BY FindIs
    <3> HIDE DEF found, sep, text
    <3>2. QED
      BY <2>5, <2>6, <3>1
  <2>8. Remainder(text) = Behind(text, n + 3)
    <3>1. SchemeEnd(text) = n + 1
      BY <2>7 DEF SchemeEnd
    <3>2. n + 1 # 0 /\ (n + 1) + 2 = n + 3
      BY <2>3
    <3> HIDE DEF text
    <3>3. QED
      BY <3>1, <3>2 DEF Remainder
  <2>9. QED
    BY <2>4, <2>8, CutConcat
<1>3. QED
  BY <1>1, <1>2 DEF PlainScheme

(* A url of the plain form is taken apart as it was put together. *)
LEMMA PlainUrlIsRead ==
  ASSUME NEW scheme \in Seq(STRING), NEW domain, NEW digits, NEW path, PlainScheme(scheme),
         PlainRest(domain, digits, path)
  PROVE  LET text == scheme \o (domain \o digits \o path)
         IN /\ Domain(text) = domain
            /\ Port(text) = IF digits = <<>> THEN DefaultPort ELSE Decimal(Tail(digits))
            /\ path # <<>> => Slash(text) # 0 /\ Path(text) = path
            /\ SessionLen(text) = Len(domain) + Len(digits)
<1> DEFINE r == domain \o digits \o path
           text == scheme \o r
           a == Len(domain)
           b == Len(digits)
<1>1. /\ domain \in Seq(STRING) /\ digits \in Seq(STRING) /\ path \in Seq(STRING)
      /\ a \in Nat /\ b \in Nat
      /\ r \in Seq(STRING) /\ Len(r) = a + b + Len(path)
  BY RestPlaces DEF PlainRest
<1>2. /\ Find(r, <<"@">>) = 0
      /\ Find(r, <<":">>) = IF digits = <<>> THEN 0 ELSE a + 1
      /\ Find(r, <<"/">>) = IF path = <<>> THEN 0 ELSE a + b + 1
      /\ Find(r, <<":", "/", "/">>) = 0
  BY RestFinds
<1>3. r = domain \o (digits \o path) /\ Len(domain \o digits) = a + b
      /\ digits \o path \in Seq(STRING) /\ domain \o digits \in Seq(STRING)
  BY <1>1, Joined, ConcatProperties
<1>4. Copy(r, a) = domain /\ Behind(r, a + b) = path
  <2>1. Copy(domain \o (digits \o path), Len(domain)) = domain
    BY <1>1, <1>3, CutConcat
  <2>2. Behind((domain \o digits) \o path, Len(domain \o digits)) = path
    BY <1>1, <1>3, CutConcat
  <2>3. QED
    BY <1>3, <2>1, <2>2
<1>5. Behind(r, 0) = r
  BY <1>1, SubSeqFull DEF Behind
<1>6. Remainder(text) = r
  BY <1>1, <1>2, SchemeIsCut
<1> HIDE DEF text, r
<1>7. Host(text) = r
  BY <1>2, <1>5, <1>6 DEF Host
<1>8. Slash(text) = IF path = <<>> THEN 0 ELSE a + b + 1
  BY <1>2, <1>6 DEF Slash
<1>9. Colon(text) = IF digits = <<>> THEN 0 ELSE a + 1
  BY <1>2, <1>7 DEF Colon
<1>10. SessionLen(text) = a + b
  <2>1. path = <<>> => Len(r) = a + b
    BY <1>1
  <2>2. a + b + 1 # 0 /\ (a + b + 1) - 1 = a + b
    BY <1>1
  <2>3. QED
    BY <1>6, <1>8, <2>1, <2>2 DEF SessionLen
<1>11. Domain(text) = domain
  <2>1. digits = <<>> => a + b = a
    BY <1>1
  <2>2. a + 1 # 0 /\ (a + 1) - 1 = a
    BY <1>1
  <2>3. QED
    BY <1>4, <1>7, <1>9, <1>10, <2>1, <2>2 DEF Domain
<1>12. path # <<>> => Slash(text) # 0 /\ Path(text) = path
  <2>1. a + b + 1 # 0 /\ (a + b + 1) - 1 = a + b
    BY <1>1
  <2>2. QED
    BY <1>4, <1>6, <1>8, <2>1 DEF Path
<1>13. Port(text) = IF digits = <<>> THEN DefaultPort ELSE Decimal(Tail(digits))
  <2>1. CASE digits = <<>>
    BY <1>9, <2>1 DEF Port
  <2>2. CASE digits # <<>>
    <3> DEFINE d == Tail(digits)
               s == Behind(r, a + 1)
    <3>1. /\ b > 1 /\ \A i \in 2 .. b : digits[i] \in DOMAIN DigitValue
          /\ path # <<>> => Len(path) >= 1 /\ path[1] = "/"
      BY <2>2 DEF PlainRest
    <3>2. /\ d \in Seq(STRING) /\ Len(d) = b - 1 /\ \A i \in 1 .. Len(d) : d[i] = digits[i + 1]
      BY <1>1, <2>2
    <3>3. s = d \o path
      <4>1. digits = <<digits[1]>> \o d
        BY <1>1, <2>2
      <4>2. <<digits[1]>> \in Seq(STRING) /\ domain \o <<digits[1]>> \in Seq(STRING)
            /\ Len(domain \o <<digits[1]>>) = a + 1
        BY <1>1, <3>1, ElementOfSeq
      <4>3. r = (domain \o <<digits[1]>>) \o (d \o path)
        <5>1. digits \o path = <<digits[1]>> \o (d \o path)
          <6> DEFINE colon == <<digits[1]>>
          <6>1. colon \in Seq(STRING) /\ d \in Seq(STRING) /\ path \in Seq(STRING)
            BY <1>1, <3>2, <4>2
          <6>2. digits = colon \o d
            BY <4>1
          <6> HIDE DEF colon, d
          <6>3. (colon \o d) \o path = colon \o (d \o path)
            BY <6>1, Joined
          <6>4. digits \o path = colon \o (d \o path)
            BY <6>2, <6>3
          <6>5. QED
            BY <6>4 DEF colon
        <5>2. d \o path \in Seq(STRING)
          BY <1>1, <3>2, ConcatProperties
        <5>3. domain \o (<<digits[1]>> \o (d \o path)) = (domain \o <<digits[1]>>) \o (d \o path)
          <6> DEFINE colon == <<digits[1]>>
                     more == d \o path
          <6>1. colon \in Seq(STRING) /\ more \in Seq(STRING) /\ domain \in Seq(STRING)
            BY <1>1, <4>2, <5>2
          <6> HIDE DEF colon, more
          <6>2. domain \o (colon \o more) = (domain \o colon) \o more
            BY <6>1, Joined
          <6>3. QED
            BY <6>2 DEF colon, more
        <5>4. QED
          BY <1>3, <5>1, <5>3
      <4>4. d \o path \in Seq(STRING)
        BY <1>1, <3>2, ConcatProperties
      <4>5. Behind((domain \o <<digits[1]>>) \o (d \o path), Len(domain \o <<digits[1]>>))
              = d \o path
        BY <4>2, <4>4, CutConcat
      <4>6. QED
        BY <4>2, <4>3, <4>5
    <3>4. Port(text) = Number(s)
      <4>1. a + 1 # 0
        BY <1>1
      <4>2. QED
        BY <1>7, <1>9, <2>2, <4>1 DEF Port
    <3> HIDE DEF d, s
    <3>5. /\ s \in Seq(STRING) /\ Len(s) = Len(d) + Len(path)
          /\ \A i \in 1 .. Len(d) : s[i] = d[i]
          /\ path # <<>> => s[Len(d) + 1] = "/"
      <4>1. /\ s \in Seq(STRING) /\ Len(s) = Len(d) + Len(path)
            /\ \A i \in 1 .. Len(d) + Len(path) :
                 s[i] = IF i <= Len(d) THEN d[i] ELSE path[i - Len(d)]
        BY <1>1, <3>2, <3>3, ConcatProperties
      <4>2. Len(d) \in Nat /\ Len(path) \in Nat
        BY <1>1, <3>2
      <4>3. \A i \in 1 .. Len(d) : s[i] = d[i]
        BY <4>1, <4>2
      <4>4. ASSUME path # <<>> PROVE s[Len(d) + 1] = "/"
        <5>1. Len(d) + 1 \in 1 .. Len(d) + Len(path) /\ ~(Len(d) + 1 <= Len(d))
              /\ (Len(d) + 1) - Len(d) = 1
          BY <3>1, <4>2, <4>4
        <5>2. QED
          BY <3>1, <4>1, <4>4, <5>1
      <4>5. QED
        BY <4>1, <4>3, <4>4
    <3>6. Number(s) = Decimal(SubSeq(s, 1, Len(d)))
      <4>1. Len(d) \in 0 .. Len(s)
        BY <1>1, <3>2, <3>5
      <4>2. ASSUME NEW i \in 1 .. Len(d) PROVE s[i] \in DOMAIN DigitValue
        <5>1. i + 1 \in 2 .. b
          BY <1>1, <3>2
        <5>2. QED
          BY <3>1, <3>2, <3>5, <5>1
      <4>3. Len(d) < Len(s) => path # <<>>
        BY <1>1, <3>2, <3>5
      <4>4. Len(d) < Len(s) => s[Len(d) + 1] \notin DOMAIN DigitValue
        BY <3>5, <4>3, NoSeparatorIsDigit
      <4>5. QED
        BY <3>5, <4>1, <4>2, <4>4, NumberOf
    <3>7. SubSeq(s, 1, Len(d)) = d
      <4>1. Copy(s, Len(d)) = d
        BY <1>1, <3>2, <3>3, CutConcat
      <4>2. Copy(s, Len(d)) = SubSeq(s, 1, Len(d))
        BY <1>1, <3>2, <3>5 DEF Copy
      <4>3. QED
        BY <4>1, <4>2
    <3>8. QED
      BY <2>2, <3>4, <3>6, <3>7 DEF d
  <2>3. QED
    BY <2>1, <2>2
<1>14. QED
  BY <1>10, <1>11, <1>12, <1>13 DEF text, r

(* What a slot at work with such a url is given to connect to. *)
LEMMA PlainTarget ==
  ASSUME NEW s, cmd[s] \in Commands, PlainUrl(cmd[s].url)
  PROVE  LET url == cmd[s].url
         IN /\ Target(s).domain = url.domain
            /\ Target(s).port = url.port
            /\ mode = "threads" /\ url.path # <<>> =>
                 /\ IsPrefix(Target(s).dir, url.path)
                 /\ \/ Target(s).dir = url.path
                    \/ Len(Target(s).dir) = SessionLen(url.text)
<1> DEFINE text == cmd[s].url.text
           scheme == cmd[s].url.scheme
           domain == cmd[s].url.domain
           digits == cmd[s].url.digits
           path == cmd[s].url.path
           port == cmd[s].url.port
           n == SessionLen(text)
<1>1. /\ scheme \in Seq(STRING) /\ domain \in Seq(STRING) /\ digits \in Seq(STRING)
      /\ path \in Seq(STRING)
  BY UrlParts
<1>2. /\ text = scheme \o domain \o digits \o path /\ PlainScheme(scheme)
      /\ Without(domain, {":", "/", "@"}) /\ PlainPort(digits, port)
      /\ Without(path, {":", "@"}) /\ (path # <<>> => Head(path) = "/")
  BY DEF PlainUrl
<1>3. /\ mode = "threads" => Target(s) = UrlToWords(text, Rubbish)
      /\ mode # "threads" => Target(s) = [UrlToData(text, <<>>) EXCEPT !.dir = <<>>]
  BY DEF Target, InThreads, InOneShot
<1> HIDE DEF text, scheme, domain, digits, path, port
<1>4. PlainRest(domain, digits, path)
  <2>1. ASSUME digits # <<>>
        PROVE  /\ Len(digits) > 1 /\ digits[1] = ":"
               /\ \A i \in 2 .. Len(digits) : digits[i] \in DOMAIN DigitValue
    BY <1>1, <1>2, <2>1 DEF PlainPort
  <2>2. ASSUME path # <<>> PROVE Len(path) >= 1 /\ path[1] = "/"
    BY <1>1, <1>2, <2>2
  <2>3. QED
    BY <1>1, <1>2, <2>1, <2>2 DEF PlainRest
<1>5. text = scheme \o (domain \o digits \o path)
  <2>1. text = scheme \o domain \o digits \o path
    BY <1>2
  <2>2. \A t \in Seq(STRING) : scheme \o domain \o digits \o t = scheme \o (domain \o digits \o t)
    BY <1>1, JoinedFour, ZenonT(60)
  <2>3. scheme \o domain \o digits \o path = scheme \o (domain \o digits \o path)
    BY <1>1, <2>2
  <2>4. QED
    BY <2>1, <2>3
<1>6. /\ Domain(text) = domain
      /\ Port(text) = IF digits = <<>> THEN DefaultPort ELSE Decimal(Tail(digits))
      /\ path # <<>> => Slash(text) # 0 /\ Path(text) = path
      /\ n = Len(domain) + Len(digits)
  BY <1>1, <1>2, <1>4, <1>5, PlainUrlIsRead
<1>7. Port(text) % ShortRange = port
  <2>1. CASE digits = <<>>
    <3>1. Port(text) = 80 /\ port = 80
      BY <1>2, <1>6, <2>1 DEF PlainPort, DefaultPort
    <3>2. QED
      BY <3>1 DEF ShortRange
  <2>2. CASE digits # <<>>
    BY <1>2, <1>6, <2>2 DEF PlainPort
  <2>3. QED
    BY <2>1, <2>2
<1>8. Target(s).port = Port(text) % ShortRange
  BY <1>3 DEF UrlToWords, UrlToData
<1>9. Target(s).domain = domain
  <2>1. CASE mode = "threads"
    BY <1>3, <1>6, <2>1 DEF UrlToWords
  <2>2. CASE mode # "threads"
    <3>1. Target(s).domain = domain \o <<>>
      BY <1>3, <1>6, <2>2 DEF UrlToData
    <3>2. QED
      BY <1>1, <3>1, ConcatEmptySeq
  <2>3. QED
    BY <2>1, <2>2
<1>10. ASSUME mode = "threads", path # <<>>
       PROVE  IsPrefix(Target(s).dir, path) /\ (Target(s).dir = path \/ Len(Target(s).dir) = n)
  <2>1. Target(s).dir = SubSeq(path, 1, IF n < Len(path) THEN n ELSE Len(path))
    BY <1>3, <1>6, <1>10 DEF UrlToWords, PathCopied, Copy
  <2>2. n \in Nat /\ Len(path) \in Nat
    BY <1>1, <1>6
  <2> HIDE DEF n
  <2>3. CASE n < Len(path)
    <3> DEFINE d == SubSeq(path, 1, n)
    <3>1. Target(s).dir = d /\ d \in Seq(STRING) /\ Len(d) = n
      BY <1>1, <2>1, <2>2, <2>3
    <3>2. SubSeq(d, 1, Len(d)) = d
      BY <3>1, SubSeqFull
    <3>3. SubSeq(d, 1, Len(d)) = SubSeq(path, 1, Len(d))
      BY <3>1, <3>2
    <3> HIDE DEF d
    <3>4. QED
      BY <2>3, <2>2, <3>1, <3>3 DEF IsPrefix
  <2>4. CASE ~(n < Len(path))
    <3>1. Target(s).dir = path
      BY <1>1, <2>1, <2>4, SubSeqFull
    <3>2. QED
      BY <2>2, <3>1 DEF IsPrefix
  <2>5. QED
    BY <2>3, <2>4
<1>11. QED
  BY <1>7, <1>8, <1>9, <1>10 DEF text, domain, digits, path, port

(* What is stored in an unsigned short stays below 65536 (url.c 149). *)
LEMMA FitsShort == \A n \in Nat : n % ShortRange \in 0 .. ShortRange - 1
<1>1. \A m \in Nat \ {0} : \A n \in Nat : n % m \in 0 .. m - 1
  OBVIOUS
<1>2. ShortRange \in Nat \ {0}
  BY DEF ShortRange
<1>3. QED
  BY <1>1, <1>2

(* Up to where a get goes astray, both invariants hold. *)
LEMMA ContentsKept == Spec => [](astray \/ (Inv /\ Contents))
<1>1. (astray \/ (Inv /\ Contents)) /\ [Next]_vars => (astray \/ (Inv /\ Contents))'
  BY InvStep, AstrayStays, ContentsStep
<1>2. QED
  BY <1>1, InitInv, InitContents, PTL DEF Spec

(* A put that awaits its answer has sent its header and then the whole local    *)
(* file, once and in order (http_method.c, http_core.c), however many exchanges *)
(* came before on its slot and run beside it, as long as no get has gone astray.*)
THEOREM PutsSendTheFile == Spec => []PutWhole
<1>1. astray \/ Contents => PutWhole
  BY DEF Contents, Progress, Sent, PutWhole
<1>2. QED
  BY <1>1, ContentsKept, PTL

(* What has come of a body is in the file of its get, in order and nothing else *)
(* (http_method.c), whatever other exchanges open, write and close meanwhile,   *)
(* as long as no get has gone astray.                                           *)
THEOREM GetsWriteTheBody == Spec => []GetWritten
<1>1. astray \/ Contents => GetWritten
  BY DEF Contents, Progress, Receiving, GetWritten
<1>2. QED
  BY <1>1, ContentsKept, PTL

(* A slot at work has been asked for something. *)
Asked ==
  /\ cmd \in [Slots -> Commands \cup {NoCommand}]
  /\ pc \in [Slots -> Labels]
  /\ \A s \in Slots : pc[s] # "idle" => cmd[s] \in Commands

LEMMA AskedKept == Spec => []Asked
<1> USE DEF Asked
<1>1. Init => Asked
  BY DEF Init, Labels
<1>2. Asked /\ [Next]_vars => Asked'
  <2> SUFFICES ASSUME Asked, [Next]_vars PROVE Asked'
    OBVIOUS
  <2>1. CASE UNCHANGED vars
    BY <2>1 DEF vars, cmdVars
  <2>2. ASSUME NEW s \in Slots, Step(s) PROVE Asked'
    <3>1. CASE Command(s)
      <4>1. PICK c \in Commands : cmd' = [cmd EXCEPT ![s] = c]
        BY <3>1 DEF Command, Begins, Understood
      <4>2. pc' = [pc EXCEPT ![s] = "before_req"]
        BY <3>1 DEF Command, Goes
      <4>3. QED
        BY <4>1, <4>2 DEF Labels
    <3>2. CASE OneShot(s)
      <4>1. PICK c \in Commands : cmd' = [cmd EXCEPT ![s] = c]
        BY <3>2 DEF OneShot, Begins
      <4>2. pc' = pc \/ pc' = [pc EXCEPT ![s] = "before_req"]
        BY <3>2 DEF OneShot, Goes
      <4>3. QED
        BY <4>1, <4>2 DEF Labels
    <3>3. CASE Close(s)
      <4>1. cmd' = [cmd EXCEPT ![s] = NoCommand] /\ pc' = [pc EXCEPT ![s] = "idle"]
        BY <3>3 DEF Close, Goes
      <4>2. QED
        BY <4>1 DEF Labels
    <3>4. ASSUME ~Command(s), ~OneShot(s), ~Close(s) PROVE Asked'
      <4>1. cmd' = cmd /\ pc[s] # "idle" /\ \E l \in Labels : pc' = pc \/ Goes(s, l)
        BY <2>2, <3>4 DEF Step, BeforeRequest, WriteHeader, WriteFile, ReadFileFails, AfterRequest,
           Abort, StatusLine, HeaderArrives, HangUp, BodyArrives, BodyEnds, ResponseFails, AfterResponse,
           OpenFails, PutHeader, GetHeader, PropfindDeleteHeader, At, cmdVars, Labels, Goes
      <4>2. QED
        BY <4>1 DEF Goes
    <3>5. QED
      BY <3>1, <3>2, <3>3, <3>4
  <2>3. QED
    BY <2>1, <2>2 DEF Next
<1> HIDE DEF Asked
<1>3. QED
  BY <1>1, <1>2, PTL DEF Spec

(* The data keep their types, whatever number a callback uses. *)
LEMMA TypesKept ==
  ASSUME Ledger, DataType, [Next]_vars
  PROVE  DataType'
<1> USE DEF DataType, cmdVars
<1>1. CASE UNCHANGED vars
  BY <1>1 DEF vars
<1>2. ASSUME NEW s \in Slots, Step(s) PROVE DataType'
  <2>0. /\ code[s] \in Codes \cup {0} /\ Free \in Descriptors /\ Stdin \in Fds
        /\ ClosedTable(filefd[s]) \in [Fds -> Descriptors]
        /\ ClosedTable(sockfd[s]) \in [Fds -> Descriptors]
    BY DEF ClosedTable, Descriptors, Free, Fds
  <2>1. CASE Command(s) \/ OneShot(s)
    <3>1. Socket(s) \in Descriptors
      BY DEF Socket, Descriptors
    <3>2. PICK c \in Commands :
            /\ Begins(s, c)
            /\ \/ UNCHANGED <<sockfd, desc>>
               \/ \E f \in Fds :
                    sockfd' = [sockfd EXCEPT ![s] = f] /\ Opened(f, Socket(s))
      <4>1. CASE Command(s)
        BY <4>1 DEF Command, Understood
      <4>2. CASE OneShot(s)
        BY <4>2 DEF OneShot
      <4>3. QED
        BY <2>1, <4>1, <4>2
    <3>3. run' \in [Slots -> Nat]
      BY <3>2 DEF Begins
    <3>4. sockfd' \in [Slots -> {-1} \cup Fds] /\ desc' \in [Fds -> Descriptors]
      <4>1. ASSUME NEW f \in Fds, sockfd' = [sockfd EXCEPT ![s] = f], Opened(f, Socket(s))
            PROVE  sockfd' \in [Slots -> {-1} \cup Fds] /\ desc' \in [Fds -> Descriptors]
        BY <3>1, <4>1 DEF Opened
      <4>2. QED
        BY <3>2, <4>1
    <3>5. /\ outcome' \in {"running", "ended", "aborted", "crashed"}
          /\ UNCHANGED <<mode, filefd, code, header, got, disk, sent, opened, lost>>
      BY <2>1 DEF Command, OneShot
    <3>6. QED
      BY <3>3, <3>4, <3>5
  <2>2. CASE BeforeRequest(s) \/ HeaderArrives(s)
    <3>1. ASSUME NEW kind \in {"read", "write"}, OnDisk(LocalDir(s))
          PROVE  FileOf(s, kind) \in Descriptors
      <4>1. LocalDir(s).name \in Files /\ run[s] \in Nat /\ 0 \in Nat
        BY <3>1 DEF OnDisk
      <4>2. QED
        BY <4>1 DEF FileOf, Descriptors
    <3>2. \/ filefd' \in {filefd, [filefd EXCEPT ![s] = -1]} /\ desc' = desc
          \/ \E f \in Fds, kind \in {"read", "write"} :
               /\ OnDisk(LocalDir(s)) /\ filefd' = [filefd EXCEPT ![s] = f]
               /\ desc' = [desc EXCEPT ![f] = FileOf(s, kind)]
      BY <2>2 DEF BeforeRequest, HeaderArrives, OpenFails, Opened
    <3>3. filefd' \in [Slots -> {-1} \cup Fds]
      BY <3>2
    <3>4. desc' \in [Fds -> Descriptors]
      <4>1. ASSUME NEW f \in Fds, NEW kind \in {"read", "write"}, OnDisk(LocalDir(s)),
                   desc' = [desc EXCEPT ![f] = FileOf(s, kind)]
            PROVE  desc' \in [Fds -> Descriptors]
        BY <3>1, <4>1
      <4>2. QED
        BY <3>2, <4>1
    <3>5. disk' \in {disk, [disk EXCEPT ![LocalDir(s).name] = <<>>]}
      BY <2>2 DEF BeforeRequest, HeaderArrives, OpenFails
    <3>6. disk' \in [Files -> Seq(Blocks)]
      <4>1. <<>> \in Seq(Blocks)
        OBVIOUS
      <4>2. QED
        BY <3>5, <4>1
    <3>7. UNCHANGED <<mode, run, sockfd, code, header, got, sent, lost, outcome>>
      BY <2>2 DEF BeforeRequest, HeaderArrives
    <3>8. QED
      BY <3>3, <3>4, <3>6, <3>7
  <2>3. CASE WriteHeader(s)
    <3>1. <<"header">> \in Seq({"header"} \cup Blocks)
      OBVIOUS
    <3>2. QED
      BY <2>3, <3>1 DEF WriteHeader, PutHeader, GetHeader, PropfindDeleteHeader
  <2>4. CASE WriteFile(s)
    <3> DEFINE file == desc[filefd[s]]
               block == disk[file.name][file.pos + 1]
    <3>1. UNCHANGED <<mode, run, sockfd, filefd, code, header, got, disk, lost, outcome>>
      BY <2>4 DEF WriteFile
    <3>2. CASE /\ file.kind = "read" /\ file.pos < Len(disk[file.name])
               /\ sent' = [sent EXCEPT ![s] = Append(@, block)]
               /\ desc' = [desc EXCEPT ![filefd[s]].pos = @ + 1]
      <4>1. filefd[s] \in Fds
        BY <2>4 DEF WriteFile
      <4>2. desc' \in [Fds -> Descriptors] /\ sent' \in [Slots -> Seq({"header"} \cup Blocks)]
        <5>1. file \in [kind : {"read", "write"}, name : Files, pos : Nat, owner : Slots,
                        run : Nat]
          BY <3>2, <4>1, FileDescriptor DEF IsAFile
        <5>2. disk[file.name] \in Seq(Blocks) /\ file.pos \in Nat
          BY <5>1
        <5>3. block \in Blocks
          BY <3>2, <5>2
        <5>4. sent' \in [Slots -> Seq({"header"} \cup Blocks)]
          <6>1. \A q \in Seq({"header"} \cup Blocks) :
                  Append(q, block) \in Seq({"header"} \cup Blocks)
            BY <5>3
          <6> HIDE DEF block
          <6>2. QED
            BY <3>2, <6>1
        <5>5. /\ desc'[filefd[s]] \in [kind : {"read", "write"}, name : Files, pos : Nat,
                                      owner : Slots, run : Nat]
              /\ \A g \in Fds \ {filefd[s]} : desc'[g] = desc[g]
          <6>1. file.pos + 1 \in Nat
            BY <5>2
          <6>2. desc' = [desc EXCEPT ![filefd[s]].pos = @ + 1]
            BY <3>2
          <6>3. QED
            BY <4>1, <5>1, <6>1, <6>2
        <5>6. desc'[filefd[s]] \in Descriptors
          BY <5>5 DEF Descriptors
        <5>7. desc' \in [Fds -> Descriptors]
          BY <3>2, <5>5, <5>6
        <5>8. QED
          BY <5>4, <5>7
      <4>3. QED
        BY <3>1, <4>2
    <3>3. CASE UNCHANGED <<sent, desc>>
      BY <3>1, <3>3
    <3>4. QED
      BY <2>4, <3>2, <3>3 DEF WriteFile
  <2>5. CASE StatusLine(s)
    BY <2>5 DEF StatusLine
  <2>6. CASE ReadFileFails(s) \/ ResponseFails(s)
    <3>1. lost' \subseteq Slots \X Nat
      BY <2>6 DEF ReadFileFails, ResponseFails
    <3>2. QED
      BY <2>6, <3>1 DEF ReadFileFails, ResponseFails
  <2>7. CASE AfterRequest(s) \/ AfterResponse(s)
    <3>1. /\ filefd' \in [Slots -> {-1} \cup Fds] /\ desc' \in [Fds -> Descriptors]
      BY <2>0, <2>7 DEF AfterRequest, AfterResponse, Stdin
    <3>2. QED
      BY <2>7, <3>1 DEF AfterRequest, AfterResponse
  <2>8. CASE BodyArrives(s)
    <3> DEFINE block == Block[got[s] + 1]
    <3>1. got[s] + 1 \in 0 .. Len(Block) /\ block \in Blocks
      <4>1. Len(Block) = 2 /\ Block[1] = "first" /\ Block[2] = "second"
        BY DEF Block
      <4>2. got[s] \in 0 .. Len(Block) /\ got[s] < Len(Block)
        BY <2>8 DEF BodyArrives
      <4>3. got[s] = 0 \/ got[s] = 1
        BY <4>1, <4>2
      <4>4. QED
        BY <4>1, <4>3 DEF Blocks
    <3>2. \A q \in Seq(Blocks) : Append(q, block) \in Seq(Blocks)
      BY <3>1
    <3>3. got' \in [Slots -> 0 .. Len(Block)]
      BY <2>8, <3>1 DEF BodyArrives
    <3>4. disk' \in {disk, Written(filefd[s], block)}
      BY <2>8 DEF BodyArrives
    <3> HIDE DEF block
    <3>5. Written(filefd[s], block) \in [Files -> Seq(Blocks)]
      BY <3>2 DEF Written
    <3>6. QED
      BY <2>8, <3>3, <3>4, <3>5 DEF BodyArrives
  <2>9. CASE Close(s)
    <3>1. /\ desc' \in [Fds -> Descriptors] /\ sockfd' \in [Slots -> {-1} \cup Fds]
          /\ outcome' \in {"running", "ended", "aborted", "crashed"}
      BY <2>0, <2>9 DEF Close, SocketClosed, Stdin
    <3>2. header' \in [Slots -> BOOLEAN] /\ got' \in [Slots -> 0 .. Len(Block)]
      BY <2>9 DEF Close, ChunkCleared, Block
    <3>3. sent' \in [Slots -> Seq({"header"} \cup Blocks)]
      BY <2>9 DEF Close
    <3>4. UNCHANGED <<mode, run, filefd, code, disk, lost>>
      BY <2>9 DEF Close
    <3>5. QED
      BY <3>1, <3>2, <3>3, <3>4
  <2>10. CASE Abort(s) \/ HangUp(s) \/ BodyEnds(s)
    BY <2>10 DEF Abort, HangUp, BodyEnds
  <2>11. QED
    BY <1>2, <2>1, <2>2, <2>3, <2>4, <2>5, <2>6, <2>7, <2>8, <2>9, <2>10 DEF Step
<1>3. QED
  BY <1>1, <1>2 DEF Next

(* The state stays what the code's data are, also after a get has gone astray:  *)
(* a port fits its unsigned short, a descriptor is one or -1, and both of the   *)
(* programs' outcomes are among the four.                                       *)
THEOREM TypeCorrect == Spec => []TypeOK
<1>1. ASSUME Ledger, DataType, Asked, astray \in BOOLEAN PROVE TypeOK
  <2> USE <1>1 DEF Asked
  <2>1. ASSUME NEW s \in Slots, pc[s] # "idle" PROVE Target(s).port \in 0 .. ShortRange - 1
    <3>1. cmd[s] \in Commands
      BY <2>1
    <3>2. Port(cmd[s].url.text) % ShortRange \in 0 .. ShortRange - 1
      <4>1. Port(cmd[s].url.text) \in Nat
        BY <3>1, UrlParts, PortIs
      <4>2. QED
        BY <4>1, FitsShort
    <3>3. Target(s).port = Port(cmd[s].url.text) % ShortRange
      BY <3>1 DEF Target, InThreads, InOneShot, UrlToWords, UrlToData
    <3>4. QED
      BY <3>2, <3>3
  <2>2. QED
    BY <2>1 DEF TypeOK, DataType, Blocks, Ledger, TypeInv
<1>2. Init => Ledger /\ DataType
  BY InitInv, InitContents DEF Inv, Contents
<1>3. Init => astray \in BOOLEAN
  BY DEF Init
<1>4. astray \in BOOLEAN /\ [Next]_vars => (astray \in BOOLEAN)'
  <2> SUFFICES ASSUME astray \in BOOLEAN, [Next]_vars PROVE astray' \in BOOLEAN
    OBVIOUS
  <2>1. CASE UNCHANGED vars
    BY <2>1 DEF vars
  <2>2. ASSUME NEW s \in Slots, Step(s) PROVE astray' \in BOOLEAN
    BY <2>2 DEF Step, Command, OneShot, BeforeRequest, WriteHeader, WriteFile,
       ReadFileFails, AfterRequest, Abort, StatusLine, HeaderArrives, HangUp, BodyArrives,
       BodyEnds, ResponseFails, AfterResponse, Close
  <2>3. QED
    BY <2>1, <2>2 DEF Next
<1>5. Ledger /\ DataType /\ [Next]_vars => (Ledger /\ DataType)'
  BY InvStep, TypesKept
<1>6. QED
  BY <1>1, <1>2, <1>3, <1>4, <1>5, AskedKept, PTL DEF Spec

(* For a url of the plain form, as long as its slot is at work, a command        *)
(* connects to the host and the port that the url names and asks for its path,   *)
(* or for a beginning of it (url.c, threads.c), whatever the urls and whoever    *)
(* else is at work.                                                              *)
THEOREM UrlsAreTargeted == Spec => []UrlTarget
<1>1. Asked => UrlTarget
  <2> SUFFICES ASSUME Asked, NEW s \in Slots, pc[s] # "idle", PlainUrl(cmd[s].url)
               PROVE  LET url == cmd[s].url
                      IN /\ Target(s).domain = url.domain
                         /\ Target(s).port = url.port
                         /\ mode = "threads" /\ url.path # <<>> =>
                              /\ IsPrefix(Target(s).dir, url.path)
                              /\ \/ Target(s).dir = url.path
                                 \/ Len(Target(s).dir) = SessionLen(url.text)
    BY DEF UrlTarget
  <2> DEFINE url == cmd[s].url
  <2>1. cmd[s] \in Commands
    BY DEF Asked
  <2>2. /\ url.text \in Seq(STRING) /\ url.scheme \in Seq(STRING)
        /\ url.domain \in Seq(STRING) /\ url.digits \in Seq(STRING)
        /\ url.path \in Seq(STRING)
    BY <2>1, UrlParts
  <2> HIDE DEF url
  <2>3. PlainUrl(url)
    BY DEF url
  <2>4. QED
    BY <2>1, <2>2, <2>3, PlainTarget DEF url
<1>2. QED
  BY <1>1, AskedKept, PTL
=================================================================================
