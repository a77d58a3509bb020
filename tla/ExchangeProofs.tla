----------------------------- MODULE ExchangeProofs -----------------------------
(*******************************************************************************)
(* Theorems of Exchange, for every number of slots, descriptors, commands and   *)
(* exchanges:                                                                   *)
(*   FilesAreOwn         Spec => []OwnFile                                     *)
(*   FilesAreGivenBack   Spec => []FilesClosed                                 *)
(* Ledger is kept by every step.  Inv, which says besides whose sockets and     *)
(* files the numbers in the slots are, is kept until a get is about to close a  *)
(* number it has not opened (astray).                                           *)
(*******************************************************************************)
EXTENDS Exchange, TLAPS

Handle ==
  {Free, [kind |-> "stdin"]}
    \cup [kind : {"socket"}, owner : Slots, run : Int]
    \cup [kind : {"read", "write"}, name : Files, pos : Int, owner : Slots, run : Int]

TypeInv ==
  /\ pc \in [Slots -> Labels] /\ run \in [Slots -> Int]
  /\ cmd \in [Slots -> Commands \cup {NoCommand}]
  /\ sockfd \in [Slots -> Int] /\ filefd \in [Slots -> Int]
  /\ code \in [Slots -> Int] /\ opened \in [Slots -> BOOLEAN]
  /\ desc \in [Fds -> Handle]

IsAFile(f) == desc[f].kind \in {"read", "write"}

\* A slot at work has a socket, which is its own.
OwnSocket ==
  \A s \in Slots :
    pc[s] # "idle" =>
      sockfd[s] \in Fds /\ desc[sockfd[s]].kind = "socket" /\ desc[sockfd[s]].owner = s

\* A file is open because an exchange has lost it or holds it in filefd.
AccountedFor(f, s) ==
  \/ <<s, desc[f].run>> \in lost
  \/ desc[f].run = run[s] /\ HasFile(s) /\ filefd[s] = f
Accounted == \A f \in Fds : IsAFile(f) => AccountedFor(f, desc[f].owner)

\* The history of a get whose body comes knows of its file.
Recorded ==
  \A s \in Slots :
    HasFile(s) /\ pc[s] = "body" /\ filefd[s] \in Fds => opened[s]

OwnFiles == \A s \in Slots : HasFile(s) /\ filefd[s] \in Fds => Own(filefd[s], s)

Ledger == TypeInv /\ Accounted /\ Recorded
Inv == Ledger /\ OwnSocket /\ OwnFiles

(* The descriptors are integers, and a free one is nobody's. *)
LEMMA FdsAreInts == Fds \subseteq Int
  BY ExchangeAssumption DEF Fds, Stdin

(* The invariant holds in the beginning. *)
LEMMA InitInv == Init => Inv
<1> SUFFICES ASSUME Init PROVE Inv
  OBVIOUS
<1>1. TypeInv
  BY DEF Init, TypeInv, Labels, Handle, Free
<1>2. OwnSocket /\ OwnFiles /\ Recorded
  BY DEF Init, OwnSocket, OwnFiles, Recorded, HasFile
<1>3. Accounted
  BY DEF Init, Accounted, IsAFile, Free
<1>4. QED
  BY <1>1, <1>2, <1>3 DEF Inv, Ledger

(* A step that leaves what the invariant speaks of alone keeps it. *)
LEMMA Frame ==
  ASSUME Ledger, UNCHANGED <<pc, run, cmd, sockfd, filefd, code, opened, lost, desc>>
  PROVE  Ledger' /\ (Inv => Inv')
  BY DEF Ledger, Inv, TypeInv, OwnSocket, OwnFiles, Accounted, Recorded, HasFile, Own, Method,
     AccountedFor, IsAFile

(* A slot that goes on without a file in hand, and had none, or forgets none    *)
(* that is not on the record.                                                   *)
LEMMA Moves ==
  ASSUME Ledger, NEW s \in Slots, NEW l \in Labels, pc[s] # "idle", Goes(s, l),
         HasFile(s) <=> HasFile(s)', l # "body" \/ ~HasFile(s)',
         UNCHANGED <<run, cmd, sockfd, filefd, opened, lost, desc>>,
         NEW c \in Int, code' = [code EXCEPT ![s] = c]
  PROVE  Ledger' /\ (Inv => Inv')
<1> USE DEF Inv, Ledger, TypeInv
<1>1. \A t \in Slots : HasFile(t) <=> HasFile(t)'
  BY DEF HasFile, Method, Goes
<1>2. TypeInv'
  BY DEF Goes
<1>3. Inv => OwnSocket'
  BY DEF OwnSocket, Goes
<1>4. (Inv => OwnFiles') /\ Recorded'
  BY <1>1 DEF OwnFiles, Recorded, Own, Goes
<1>5. Accounted'
  BY <1>1 DEF Accounted, AccountedFor, IsAFile, Handle, Free
<1> HIDE DEF TypeInv
<1>6. QED
  BY <1>2, <1>3, <1>4, <1>5

(* A new exchange takes a free descriptor for its socket. *)
LEMMA Connects ==
  ASSUME Ledger, NEW s \in Slots, NEW c \in Commands, NEW f \in Fds,
         pc[s] = "idle", Begins(s, c), Lowest(f), Opened(f, Socket(s)),
         sockfd' = [sockfd EXCEPT ![s] = f], Goes(s, "before_req"),
         UNCHANGED <<filefd, code, opened, lost>>
  PROVE  Ledger' /\ (Inv => Inv')
<1> USE DEF Inv, Ledger, TypeInv
<1>1. desc[f].kind = "free"
  BY DEF Lowest, FreeFds, Free
<1>2. Socket(s) \in Handle /\ Socket(s).kind = "socket" /\ Socket(s).owner = s
  BY DEF Socket, Handle
<1>3. TypeInv'
  BY <1>2, FdsAreInts DEF Begins, Opened, Goes, Labels
<1>4. Inv => OwnSocket'
  BY <1>1, <1>2 DEF OwnSocket, Opened, Goes
<1>5. ~HasFile(s) /\ ~HasFile(s)'
  BY DEF HasFile, Goes
<1>6. ASSUME NEW t \in Slots, t # s
      PROVE  (HasFile(t) <=> HasFile(t)') /\ (Method(t) = Method(t)') /\ run'[t] = run[t]
  BY <1>6 DEF HasFile, Method, Goes, Begins
<1>7. (Inv => OwnFiles') /\ Recorded'
  BY <1>1, <1>5, <1>6 DEF OwnFiles, Recorded, Own, Opened, Goes
<1>8. Accounted'
  <2> SUFFICES ASSUME NEW g \in Fds, IsAFile(g)'
               PROVE  AccountedFor(g, desc[g].owner)'
    BY DEF Accounted
  <2>1. g # f /\ desc'[g] = desc[g]
    BY <1>2 DEF IsAFile, Opened
  <2>2. desc[g].owner \in Slots
    BY <2>1 DEF IsAFile, Handle, Free
  <2>3. QED
    BY <1>5, <1>6, <2>1, <2>2 DEF Accounted, AccountedFor, IsAFile
<1> HIDE DEF TypeInv
<1>9. QED
  BY <1>3, <1>4, <1>7, <1>8

(* A slot at work takes a free descriptor for its file. *)
LEMMA OpensFile ==
  ASSUME Ledger, NEW s \in Slots, NEW f \in Fds, NEW l \in Labels, NEW kind \in {"read", "write"},
         NEW c \in Int, code' = [code EXCEPT ![s] = c],
         pc[s] # "idle", ~HasFile(s), HasFile(s)', Lowest(f), Goes(s, l),
         OnDisk(LocalDir(s)), Opened(f, FileOf(s, kind)),
         filefd' = [filefd EXCEPT ![s] = f],
         l = "body" => opened'[s],
         opened' \in [Slots -> BOOLEAN], \A t \in Slots \ {s} : opened'[t] = opened[t],
         UNCHANGED <<run, cmd, sockfd, lost>>
  PROVE  Ledger' /\ (Inv => Inv')
<1> USE DEF Inv, Ledger, TypeInv
<1>1. desc[f].kind = "free"
  BY DEF Lowest, FreeFds, Free
<1>2. FileOf(s, kind) \in Handle
  BY DEF FileOf, Handle, OnDisk
<1>3. /\ FileOf(s, kind).kind = kind /\ FileOf(s, kind).owner = s
      /\ FileOf(s, kind).run = run[s]
  BY DEF FileOf
<1>4. TypeInv'
  BY <1>2, FdsAreInts DEF Opened, Goes
<1>5. Inv => OwnSocket'
  BY <1>1 DEF OwnSocket, Opened, Goes
<1>6. ASSUME NEW t \in Slots, t # s
      PROVE  (HasFile(t) <=> HasFile(t)')
  BY <1>6 DEF HasFile, Method, Goes
<1>7. Inv => OwnFiles'
  BY <1>1, <1>3, <1>6 DEF OwnFiles, Own, Opened
<1>8. Recorded'
  BY <1>6 DEF Recorded, Method, Goes
<1>9. Accounted'
  <2> SUFFICES ASSUME NEW g \in Fds, IsAFile(g)'
               PROVE  AccountedFor(g, desc[g].owner)'
    BY DEF Accounted
  <2>1. CASE g = f
    BY <1>3, <2>1 DEF Opened, AccountedFor
  <2>2. CASE g # f
    <3>1. desc'[g] = desc[g]
      BY <2>2 DEF Opened
    <3>2. desc[g].owner \in Slots
      BY <3>1 DEF IsAFile, Handle, Free
    <3>3. QED
      BY <1>6, <3>1, <3>2 DEF Accounted, AccountedFor, IsAFile
  <2>3. QED
    BY <2>1, <2>2
<1> HIDE DEF TypeInv
<1>10. QED
  BY <1>4, <1>5, <1>7, <1>8, <1>9

(* A slot closes the file it has in hand. *)
LEMMA ClosesFile ==
  ASSUME Ledger, NEW s \in Slots, NEW l \in Labels, pc[s] # "idle", Goes(s, l),
         HasFile(s), ~HasFile(s)', desc' = ClosedTable(filefd[s]),
         filefd' \in [Slots -> Int], \A t \in Slots \ {s} : filefd'[t] = filefd[t],
         UNCHANGED <<run, cmd, code, sockfd, opened, lost>>
  PROVE  Ledger' /\ (Inv => Inv')
<1> USE DEF Inv, Ledger, TypeInv
<1>1. Inv /\ filefd[s] \in Fds => IsAFile(filefd[s]) /\ desc[filefd[s]].owner = s
  BY DEF OwnFiles, Own, IsAFile
<1>2. Free \in Handle /\ Free.kind = "free"
  BY DEF Handle, Free
<1>3. TypeInv'
  BY <1>2 DEF ClosedTable, Goes
<1>4. Inv => OwnSocket'
  BY <1>1 DEF OwnSocket, ClosedTable, Goes, IsAFile
<1>5. ASSUME NEW t \in Slots, t # s
      PROVE  (HasFile(t) <=> HasFile(t)')
  BY <1>5 DEF HasFile, Method, Goes
<1>6. Inv => OwnFiles'
  BY <1>1, <1>5 DEF OwnFiles, Own, ClosedTable
<1>7. Recorded'
  BY <1>5 DEF Recorded, Method, Goes
<1>8. Accounted'
  <2> SUFFICES ASSUME NEW g \in Fds, IsAFile(g)'
               PROVE  AccountedFor(g, desc[g].owner)'
    BY DEF Accounted
  <2>1. g # filefd[s] /\ desc'[g] = desc[g]
    BY <1>2 DEF IsAFile, ClosedTable
  <2>2. desc[g].owner \in Slots
    BY <2>1 DEF IsAFile, Handle, Free
  <2>3. QED
    BY <1>5, <2>1, <2>2 DEF Accounted, AccountedFor, IsAFile
<1> HIDE DEF TypeInv
<1>9. QED
  BY <1>3, <1>4, <1>6, <1>7, <1>8

(* A slot fails, and what file it had is on the record of lost ones. *)
LEMMA Loses ==
  ASSUME Ledger, NEW s \in Slots, pc[s] # "idle", Goes(s, "fail"),
         lost \subseteq lost',
         HasFile(s) /\ filefd[s] \in Fds => <<s, run[s]>> \in lost',
         UNCHANGED <<run, cmd, code, sockfd, filefd, opened, desc>>
  PROVE  Ledger' /\ (Inv => Inv')
<1> USE DEF Inv, Ledger, TypeInv
<1>1. TypeInv'
  BY DEF Goes, Labels
<1>2. Inv => OwnSocket'
  BY DEF OwnSocket, Goes
<1>3. ~HasFile(s)'
  BY DEF HasFile, Goes
<1>4. ASSUME NEW t \in Slots, t # s
      PROVE  (HasFile(t) <=> HasFile(t)')
  BY <1>4 DEF HasFile, Method, Goes
<1>5. (Inv => OwnFiles') /\ Recorded'
  BY <1>3, <1>4 DEF OwnFiles, Recorded, Own, Method, Goes
<1>6. Accounted'
  <2> SUFFICES ASSUME NEW g \in Fds, IsAFile(g)
               PROVE  AccountedFor(g, desc[g].owner)'
    BY DEF Accounted, AccountedFor, IsAFile
  <2>1. desc[g].owner \in Slots
    BY DEF IsAFile, Handle, Free
  <2>2. QED
    BY <1>4, <2>1 DEF Accounted, AccountedFor
<1> HIDE DEF TypeInv
<1>7. QED
  BY <1>1, <1>2, <1>5, <1>6

(* A slot gives its socket back, or leaves it to the end of the process. *)
LEMMA Ends ==
  ASSUME Ledger, NEW s \in Slots, pc[s] \in {"close", "fail"}, Goes(s, "idle"),
         desc' \in {desc, SocketClosed(s)},
         sockfd' \in [Slots -> Int], \A t \in Slots \ {s} : sockfd'[t] = sockfd[t],
         cmd' = [cmd EXCEPT ![s] = NoCommand], opened' = [opened EXCEPT ![s] = FALSE],
         UNCHANGED <<run, code, filefd, lost>>
  PROVE  Ledger' /\ (Inv => Inv')
<1> USE DEF Inv, Ledger, TypeInv
<1>1. Inv => /\ sockfd[s] \in Fds
             /\ desc[sockfd[s]].kind = "socket" /\ desc[sockfd[s]].owner = s
  BY DEF OwnSocket
<1>2. Free \in Handle /\ Free.kind = "free"
  BY DEF Handle, Free
<1>3. \A g \in Fds : g # sockfd[s] => desc'[g] = desc[g]
  BY DEF SocketClosed, ClosedTable
<1>4. TypeInv'
  BY <1>2 DEF SocketClosed, ClosedTable, Goes, Labels
<1>5. Inv => OwnSocket'
  BY <1>1, <1>3 DEF OwnSocket, Goes
<1>6. ~HasFile(s) /\ ~HasFile(s)'
  BY DEF HasFile, Goes
<1>7. ASSUME NEW t \in Slots, t # s
      PROVE  (HasFile(t) <=> HasFile(t)') /\ Method(t) = Method(t)'
  BY <1>7 DEF HasFile, Method, Goes
<1>8. (Inv => OwnFiles') /\ Recorded'
  BY <1>1, <1>3, <1>6, <1>7 DEF OwnFiles, Recorded, Own, Goes
<1>9. Accounted'
  <2> SUFFICES ASSUME NEW g \in Fds, IsAFile(g)'
               PROVE  AccountedFor(g, desc[g].owner)'
    BY DEF Accounted
  <2>1. desc'[g] = desc[g]
    BY <1>2 DEF IsAFile, SocketClosed, ClosedTable
  <2>2. desc'[g] = desc[g] /\ desc[g].owner \in Slots
    BY <2>1 DEF IsAFile, Handle, Free
  <2>3. QED
    BY <1>6, <1>7, <2>2 DEF Accounted, AccountedFor, IsAFile
<1> HIDE DEF TypeInv
<1>10. QED
  BY <1>4, <1>5, <1>8, <1>9

(* The one-shot client gives up before it has a socket. *)
LEMMA GivesUp ==
  ASSUME Ledger, NEW s \in Slots, NEW c \in Commands, pc[s] = "idle", Begins(s, c),
         UNCHANGED <<pc, sockfd, filefd, code, opened, lost, desc>>
  PROVE  Ledger' /\ (Inv => Inv')
<1> USE DEF Inv, Ledger, TypeInv
<1>1. TypeInv' /\ (Inv => OwnSocket')
  BY DEF Begins, OwnSocket
<1>2. ~HasFile(s) /\ ~HasFile(s)'
  BY DEF HasFile
<1>3. ASSUME NEW t \in Slots, t # s
      PROVE  (HasFile(t) <=> HasFile(t)') /\ Method(t) = Method(t)' /\ run'[t] = run[t]
  BY <1>3 DEF HasFile, Method, Begins
<1>4. (Inv => OwnFiles') /\ Recorded'
  BY <1>2, <1>3 DEF OwnFiles, Recorded, Own, Goes
<1>5. Accounted'
  <2> SUFFICES ASSUME NEW g \in Fds, IsAFile(g)
               PROVE  AccountedFor(g, desc[g].owner)'
    BY DEF Accounted, AccountedFor, IsAFile
  <2>1. desc[g].owner \in Slots
    BY DEF IsAFile, Handle, Free
  <2>2. QED
    BY <1>2, <1>3, <2>1 DEF Accounted, AccountedFor
<1> HIDE DEF TypeInv
<1>6. QED
  BY <1>1, <1>4, <1>5

(* An open that fails leaves -1, which is no descriptor. *)
LEMMA OpensNothing ==
  ASSUME Ledger, NEW s \in Slots, NEW l \in Labels, pc[s] # "idle", ~HasFile(s),
         OpenFails(s, l), NEW c \in Int, code' = [code EXCEPT ![s] = c],
         UNCHANGED <<run, cmd, sockfd, lost>>
  PROVE  Ledger' /\ (Inv => Inv')
<1> USE DEF Inv, Ledger, TypeInv, OpenFails
<1>1. -1 \notin Fds
  BY ExchangeAssumption DEF Fds, Stdin
<1>2. TypeInv' /\ (Inv => OwnSocket')
  BY DEF OwnSocket, Goes
<1>3. ASSUME NEW t \in Slots, t # s
      PROVE  HasFile(t) <=> HasFile(t)'
  BY <1>3 DEF HasFile, Method, Goes
<1>4. (Inv => OwnFiles') /\ Recorded'
  BY <1>1, <1>3 DEF OwnFiles, Recorded, Own, Method, Goes
<1>5. Accounted'
  <2> SUFFICES ASSUME NEW g \in Fds, IsAFile(g)
               PROVE  AccountedFor(g, desc[g].owner)'
    BY DEF Accounted, AccountedFor, IsAFile
  <2>1. desc[g].owner \in Slots
    BY DEF IsAFile, Handle, Free
  <2>2. QED
    BY <1>3, <2>1 DEF Accounted, AccountedFor
<1> HIDE DEF TypeInv
<1>6. QED
  BY <1>2, <1>4, <1>5

(* A read moves the position in a file, and it stays whose it is. *)
LEMMA ReadsFile ==
  ASSUME Ledger, NEW f \in Fds, IsAFile(f), desc' = [desc EXCEPT ![f].pos = @ + 1],
         UNCHANGED <<pc, run, cmd, sockfd, filefd, code, opened, lost>>
  PROVE  Ledger' /\ (Inv => Inv')
<1> USE DEF Inv, Ledger, TypeInv
<1>1. desc[f] \in [kind : {"read", "write"}, name : Files, pos : Int, owner : Slots, run : Int]
  BY DEF IsAFile, Handle, Free
<1>2. /\ desc'[f] \in [kind : {"read", "write"}, name : Files, pos : Int, owner : Slots,
                      run : Int]
      /\ desc'[f].kind = desc[f].kind /\ desc'[f].owner = desc[f].owner
      /\ desc'[f].run = desc[f].run
      /\ \A g \in Fds \ {f} : desc'[g] = desc[g]
  BY <1>1
<1>3. TypeInv'
  <2>1. desc'[f] \in Handle
    BY <1>2 DEF Handle
  <2>2. QED
    BY <2>1
<1>4. \A t \in Slots : HasFile(t) <=> HasFile(t)'
  BY DEF HasFile, Method
<1>5. Inv => OwnSocket'
  BY <1>2 DEF OwnSocket
<1>6. (Inv => OwnFiles') /\ Recorded'
  BY <1>2, <1>4 DEF OwnFiles, Recorded, Own, Method, Goes
<1>7. Accounted'
  <2> SUFFICES ASSUME NEW g \in Fds, IsAFile(g)'
               PROVE  AccountedFor(g, desc[g].owner)'
    BY DEF Accounted
  <2>1. /\ desc'[g].kind = desc[g].kind /\ desc'[g].owner = desc[g].owner
        /\ desc'[g].run = desc[g].run
    BY <1>2
  <2>2. IsAFile(g)
    BY <2>1 DEF IsAFile
  <2>3. desc[g].owner \in Slots
    BY <2>2 DEF IsAFile, Handle, Free
  <2>4. QED
    BY <1>4, <2>1, <2>2, <2>3 DEF Accounted, AccountedFor
<1> HIDE DEF TypeInv
<1>8. QED
  BY <1>3, <1>5, <1>6, <1>7

(* How an exchange begins. *)
LEMMA BeginKeeps ==
  ASSUME Ledger, NEW s \in Slots, Command(s) \/ OneShot(s)
  PROVE  Ledger' /\ (Inv => Inv')
<1>1. CASE Command(s)
  <2>1. PICK c \in Understood, f \in Fds :
          /\ Lowest(f) /\ Begins(s, c) /\ Opened(f, Socket(s))
          /\ sockfd' = [sockfd EXCEPT ![s] = f]
    BY <1>1 DEF Command
  <2>2. c \in Commands
    BY DEF Understood
  <2>3. QED
    BY <1>1, <2>1, <2>2, Connects DEF Command, At
<1>2. CASE OneShot(s)
  <2>1. PICK c \in Commands :
          /\ Begins(s, c)
          /\ \/ UNCHANGED <<pc, sockfd, desc>>
             \/ /\ \E f \in Fds :
                     /\ Lowest(f)
                     /\ sockfd' = [sockfd EXCEPT ![s] = f]
                     /\ Opened(f, Socket(s))
                /\ Goes(s, "before_req")
    BY <1>2 DEF OneShot
  <2>2. CASE UNCHANGED <<pc, sockfd, desc>>
    BY <1>2, <2>1, <2>2, GivesUp DEF OneShot, At
  <2>3. ASSUME NEW f \in Fds, Lowest(f), sockfd' = [sockfd EXCEPT ![s] = f],
               Opened(f, Socket(s)), Goes(s, "before_req")
        PROVE  Ledger' /\ (Inv => Inv')
    BY <1>2, <2>1, <2>3, Connects DEF OneShot, At
  <2>4. QED
    BY <2>1, <2>2, <2>3
<1>3. QED
  BY <1>1, <1>2

(* The steps of the request. *)
LEMMA RequestKeeps ==
  ASSUME Ledger, NEW s \in Slots,
         BeforeRequest(s) \/ WriteHeader(s) \/ WriteFile(s) \/ ReadFileFails(s)
           \/ AfterRequest(s) \/ Abort(s)
  PROVE  Ledger' /\ (Inv => Inv')
<1>1. code = [code EXCEPT ![s] = code[s]] /\ code[s] \in Int
  BY DEF Ledger, TypeInv
<1>2. CASE BeforeRequest(s)
  <2>1. pc[s] = "before_req" /\ ~HasFile(s) /\ UNCHANGED <<run, cmd, sockfd, code, lost>>
    BY <1>2 DEF BeforeRequest, At, HasFile, cmdVars
  <2>2. CASE Method(s) # "put" /\ Goes(s, "write") /\ UNCHANGED <<filefd, desc, opened>>
    <3>1. ~HasFile(s)'
      BY <2>1, <2>2 DEF HasFile, Method, Goes, Ledger, TypeInv
    <3>2. QED
      BY <1>1, <2>1, <2>2, <3>1, Moves DEF Labels
  <2>3. CASE OpenFails(s, "fail")
    BY <1>1, <2>1, <2>3, OpensNothing DEF Labels
  <2>4. ASSUME Method(s) = "put", OnDisk(LocalDir(s)), NEW f \in Fds, Lowest(f),
               filefd' = [filefd EXCEPT ![s] = f], Opened(f, FileOf(s, "read")),
               Goes(s, "write"), opened' = opened
        PROVE  Ledger' /\ (Inv => Inv')
    <3>1. HasFile(s)'
      BY <2>1, <2>4 DEF HasFile, Method, Goes, Ledger, TypeInv
    <3>2. opened' \in [Slots -> BOOLEAN]
      BY <2>4 DEF Ledger, TypeInv
    <3>3. QED
      BY <1>1, <2>1, <2>4, <3>1, <3>2, OpensFile DEF Labels
  <2>5. QED
    BY <1>2, <2>2, <2>3, <2>4 DEF BeforeRequest
<1>3. CASE WriteHeader(s)
  <2>1. /\ pc[s] = "write"
        /\ UNCHANGED <<run, cmd, sockfd, filefd, code, desc, opened, lost>>
    BY <1>3 DEF WriteHeader, At, cmdVars
  <2>2. CASE pc' = pc
    BY <2>1, <2>2, Frame
  <2>3. CASE Method(s) # "put" /\ Goes(s, "after_req")
    <3>1. ~HasFile(s) /\ ~HasFile(s)'
      BY <2>1, <2>3 DEF HasFile, Method, Goes, Ledger, TypeInv
    <3>2. QED
      BY <1>1, <2>1, <2>3, <3>1, Moves DEF Labels
  <2>4. QED
    BY <1>3, <2>2, <2>3 DEF WriteHeader, PutHeader, GetHeader, PropfindDeleteHeader
<1>4. CASE WriteFile(s)
  <2>1. /\ pc[s] = "write" /\ Method(s) = "put"
        /\ UNCHANGED <<run, cmd, sockfd, filefd, code, opened, lost>>
    BY <1>4 DEF WriteFile, At, cmdVars
  <2>2. CASE /\ desc[filefd[s]].kind = "read" /\ pc' = pc
             /\ desc' = [desc EXCEPT ![filefd[s]].pos = @ + 1]
    <3>1. CASE filefd[s] \in Fds
      BY <2>1, <2>2, <3>1, ReadsFile DEF IsAFile
    <3>2. CASE filefd[s] \notin Fds
      <4>1. desc' = desc
        BY <2>2, <3>2 DEF Ledger, TypeInv
      <4>2. QED
        BY <2>1, <2>2, <4>1, Frame
    <3>3. QED
      BY <3>1, <3>2
  <2>3. CASE Goes(s, "after_req") /\ desc' = desc
    <3>1. HasFile(s) /\ HasFile(s)'
      BY <2>1, <2>3 DEF HasFile, Method, Goes, Ledger, TypeInv
    <3>2. QED
      BY <1>1, <2>1, <2>3, <3>1, Moves DEF Labels
  <2>4. QED
    BY <1>4, <2>2, <2>3 DEF WriteFile
<1>5. CASE ReadFileFails(s)
  BY <1>5, Loses DEF ReadFileFails, At, cmdVars
<1>6. CASE AfterRequest(s)
  <2>1. /\ pc[s] = "after_req" /\ Goes(s, "await")
        /\ UNCHANGED <<run, cmd, sockfd, filefd, code, opened, lost>>
    BY <1>6 DEF AfterRequest, At, cmdVars
  <2>2. ~HasFile(s)'
    BY <2>1 DEF HasFile, Goes, Ledger, TypeInv
  <2>3. CASE Method(s) = "put"
    <3>1. HasFile(s)
      BY <2>1, <2>3 DEF HasFile
    <3>2. filefd' \in [Slots -> Int] /\ desc' = ClosedTable(filefd[s])
      BY <1>6, <2>1, <2>3 DEF AfterRequest, Ledger, TypeInv
    <3>3. QED
      BY <2>1, <2>2, <3>1, <3>2, ClosesFile DEF Labels
  <2>4. CASE Method(s) # "put"
    <3>1. ~HasFile(s) /\ desc' = desc
      BY <1>6, <2>1, <2>4 DEF HasFile, AfterRequest
    <3>2. QED
      BY <1>1, <2>1, <2>2, <3>1, Moves DEF Labels
  <2>5. QED
    BY <2>3, <2>4
<1>7. CASE Abort(s)
  BY <1>7, Frame DEF Abort, cmdVars
<1>8. QED
  BY <1>2, <1>3, <1>4, <1>5, <1>6, <1>7

(* A get whose header has not been seen is about to close what its slot holds:  *)
(* no more is known of that than what the ledger says.                          *)
LEMMA HangsUp ==
  ASSUME Ledger, NEW s \in Slots, HangUp(s)
  PROVE  Ledger' /\ (Inv /\ ~astray' => Inv')
<1> USE DEF Inv, Ledger, TypeInv
<1>1. /\ pc[s] \in {"await", "header"} /\ Goes(s, "after_resp")
      /\ UNCHANGED <<run, cmd, sockfd, filefd, code, opened, lost, desc>>
      /\ ~astray' => ~(Method(s) = "get" /\ code[s] = OK /\ filefd[s] \in Fds)
  BY DEF HangUp, At, cmdVars
<1>2. TypeInv'
  BY <1>1 DEF Goes, Labels
<1>3. Inv => OwnSocket'
  BY <1>1 DEF OwnSocket, Goes
<1>4. ~HasFile(s) /\ pc'[s] = "after_resp"
  BY <1>1 DEF HasFile, Goes
<1>5. ASSUME NEW t \in Slots, t # s
      PROVE  HasFile(t) <=> HasFile(t)'
  BY <1>1, <1>5 DEF HasFile, Method, Goes
<1>6. Recorded'
  BY <1>1, <1>4, <1>5 DEF Recorded, Goes
<1>7. Inv /\ ~astray' => OwnFiles'
  <2>1. ~astray' => ~(HasFile(s)' /\ filefd'[s] \in Fds)
    BY <1>1, <1>4 DEF HasFile, Method
  <2>2. QED
    BY <1>1, <1>5, <2>1 DEF OwnFiles, Own
<1>8. Accounted'
  <2> SUFFICES ASSUME NEW g \in Fds, IsAFile(g)
               PROVE  AccountedFor(g, desc[g].owner)'
    BY <1>1 DEF Accounted, AccountedFor, IsAFile
  <2>1. desc[g].owner \in Slots
    BY DEF IsAFile, Handle, Free
  <2>2. QED
    BY <1>1, <1>4, <1>5, <2>1 DEF Accounted, AccountedFor
<1> HIDE DEF TypeInv
<1>9. QED
  BY <1>2, <1>3, <1>6, <1>7, <1>8

(* The steps of the response, and the end. *)
LEMMA ResponseKeeps ==
  ASSUME Ledger, NEW s \in Slots,
         StatusLine(s) \/ HeaderArrives(s) \/ BodyArrives(s) \/ BodyEnds(s)
           \/ ResponseFails(s) \/ AfterResponse(s) \/ Close(s)
  PROVE  Ledger' /\ (Inv => Inv')
<1>1. code = [code EXCEPT ![s] = code[s]] /\ code[s] \in Int
  BY DEF Ledger, TypeInv
<1>2. CASE StatusLine(s)
  <2>1. /\ pc[s] = "await" /\ Goes(s, "header")
        /\ UNCHANGED <<run, cmd, sockfd, filefd, opened, lost, desc>>
    BY <1>2 DEF StatusLine, At, cmdVars
  <2>2. PICK c \in Codes : code' = [code EXCEPT ![s] = c]
    BY <1>2 DEF StatusLine
  <2>3. c \in Int
    BY DEF Codes, OK
  <2>4. ~HasFile(s) /\ ~HasFile(s)'
    BY <2>1 DEF HasFile, Goes, Ledger, TypeInv
  <2>5. QED
    BY <2>1, <2>2, <2>3, <2>4, Moves DEF Labels
<1>3. CASE HeaderArrives(s)
  <2>1. pc[s] = "header" /\ ~HasFile(s) /\ UNCHANGED <<run, cmd, sockfd, code, lost>>
    BY <1>3 DEF HeaderArrives, At, HasFile, cmdVars
  <2>2. CASE /\ ~(Method(s) = "get" /\ code[s] = OK) /\ Goes(s, "body")
             /\ UNCHANGED <<filefd, desc, disk, opened>>
    <3>1. ~HasFile(s)'
      BY <2>1, <2>2 DEF HasFile, Method, Goes, Ledger, TypeInv
    <3>2. QED
      BY <1>1, <2>1, <2>2, <3>1, Moves DEF Labels
  <2>3. CASE OpenFails(s, "body")
    BY <1>1, <2>1, <2>3, OpensNothing DEF Labels
  <2>4. ASSUME Method(s) = "get", code[s] = OK, OnDisk(LocalDir(s)), NEW f \in Fds,
               Lowest(f), filefd' = [filefd EXCEPT ![s] = f],
               Opened(f, FileOf(s, "write")), opened' = [opened EXCEPT ![s] = TRUE],
               Goes(s, "body")
        PROVE  Ledger' /\ (Inv => Inv')
    <3>1. HasFile(s)'
      BY <2>1, <2>4 DEF HasFile, Method, Goes, Ledger, TypeInv
    <3>2. /\ opened' \in [Slots -> BOOLEAN] /\ opened'[s]
          /\ \A t \in Slots \ {s} : opened'[t] = opened[t]
      BY <2>4 DEF Ledger, TypeInv
    <3>3. QED
      BY <1>1, <2>1, <2>4, <3>1, <3>2, OpensFile DEF Labels
  <2>5. QED
    BY <1>3, <2>2, <2>3, <2>4 DEF HeaderArrives
<1>4. CASE BodyArrives(s)
  BY <1>4, Frame DEF BodyArrives, cmdVars
<1>5. CASE BodyEnds(s)
  <2>1. /\ pc[s] = "body" /\ Goes(s, "after_resp")
        /\ UNCHANGED <<run, cmd, sockfd, filefd, code, opened, lost, desc>>
    BY <1>5 DEF BodyEnds, At, cmdVars
  <2>2. HasFile(s) <=> HasFile(s)'
    BY <2>1 DEF HasFile, Method, Goes, Ledger, TypeInv
  <2>3. QED
    BY <1>1, <2>1, <2>2, Moves DEF Labels
<1>6. CASE ResponseFails(s)
  <2>1. /\ pc[s] = "body" /\ Goes(s, "fail")
        /\ UNCHANGED <<run, cmd, sockfd, filefd, code, opened, desc>>
    BY <1>6 DEF ResponseFails, At, cmdVars
  <2>2. lost \subseteq lost'
    BY <1>6 DEF ResponseFails
  <2>3. HasFile(s) /\ filefd[s] \in Fds => <<s, run[s]>> \in lost'
    BY <1>6, <2>1 DEF ResponseFails, Ledger, Recorded
  <2>4. QED
    BY <2>1, <2>2, <2>3, Loses
<1>7. CASE AfterResponse(s)
  <2>1. /\ pc[s] = "after_resp" /\ Goes(s, "close")
        /\ UNCHANGED <<run, cmd, sockfd, code, opened, lost>>
    BY <1>7 DEF AfterResponse, At, cmdVars
  <2>2. ~HasFile(s)'
    BY <2>1 DEF HasFile, Goes, Ledger, TypeInv
  <2>3. CASE Method(s) = "get" /\ code[s] = OK
    <3>1. HasFile(s)
      BY <2>1, <2>3 DEF HasFile
    <3>2. /\ filefd' \in [Slots -> Int] /\ desc' = ClosedTable(filefd[s])
          /\ \A t \in Slots \ {s} : filefd'[t] = filefd[t]
      BY <1>7, <2>3 DEF AfterResponse, Ledger, TypeInv
    <3>3. QED
      BY <2>1, <2>2, <3>1, <3>2, ClosesFile DEF Labels
  <2>4. CASE ~(Method(s) = "get" /\ code[s] = OK)
    <3>1. ~HasFile(s) /\ UNCHANGED <<desc, filefd>>
      BY <1>7, <2>1, <2>4 DEF HasFile, AfterResponse
    <3>2. QED
      BY <1>1, <2>1, <2>2, <3>1, Moves DEF Labels
  <2>5. QED
    BY <2>3, <2>4
<1>8. CASE Close(s)
  <2>1. /\ pc[s] \in {"close", "fail"} /\ Goes(s, "idle")
        /\ cmd' = [cmd EXCEPT ![s] = NoCommand] /\ opened' = [opened EXCEPT ![s] = FALSE]
        /\ UNCHANGED <<run, code, filefd, lost>>
    BY <1>8 DEF Close, At
  <2>2. desc' \in {desc, SocketClosed(s)}
    BY <1>8 DEF Close
  <2>3. sockfd' \in [Slots -> Int] /\ \A t \in Slots \ {s} : sockfd'[t] = sockfd[t]
    BY <1>8 DEF Close, Ledger, TypeInv
  <2>4. QED
    BY <2>1, <2>2, <2>3, Ends
<1>9. QED
  BY <1>2, <1>3, <1>4, <1>5, <1>6, <1>7, <1>8

(* The ledger is kept by every step, and the rest as long as no get has gone    *)
(* astray.                                                                      *)
LEMMA InvStep ==
  /\ Ledger /\ [Next]_vars => Ledger'
  /\ Inv /\ [Next]_vars => astray' \/ Inv'
<1> SUFFICES ASSUME Ledger, [Next]_vars PROVE Ledger' /\ (Inv /\ ~astray' => Inv')
  BY DEF Inv
<1>1. CASE UNCHANGED vars
  BY <1>1, Frame DEF vars, cmdVars
<1>2. ASSUME NEW s \in Slots, Step(s) PROVE Ledger' /\ (Inv /\ ~astray' => Inv')
  <2>1. CASE HangUp(s)
    BY <2>1, HangsUp
  <2>2. CASE ~HangUp(s)
    BY <1>2, <2>2, BeginKeeps, RequestKeeps, ResponseKeeps DEF Step
  <2>3. QED
    BY <2>1, <2>2
<1>3. QED
  BY <1>1, <1>2 DEF Next

(* Nothing takes back that a get has gone astray. *)
LEMMA AstrayStays == astray /\ [Next]_vars => astray'
<1> SUFFICES ASSUME astray, [Next]_vars PROVE astray'
  OBVIOUS
<1>1. CASE UNCHANGED vars
  BY <1>1 DEF vars
<1>2. ASSUME NEW s \in Slots, Step(s) PROVE astray'
  BY <1>2 DEF Step, Command, OneShot, BeforeRequest, WriteHeader, WriteFile,
     ReadFileFails, AfterRequest, Abort, StatusLine, HeaderArrives, HangUp, BodyArrives,
     BodyEnds, ResponseFails, AfterResponse, Close
<1>3. QED
  BY <1>1, <1>2 DEF Next

(* The descriptor that a callback reads, writes or closes is the file that its  *)
(* exchange has opened, or none (http_method.c), however many exchanges share   *)
(* the descriptors and whatever the slot held before, until a get that has not  *)
(* seen its header goes on to its end with code 200.                            *)
THEOREM FilesAreOwn == Spec => []OwnFile
<1>1. (astray \/ Inv) /\ [Next]_vars => (astray \/ Inv)'
  BY InvStep, AstrayStays
<1>2. astray \/ Inv => OwnFile
  BY DEF Inv, OwnFiles, OwnFile
<1>3. QED
  BY <1>1, <1>2, InitInv, PTL DEF Spec

(* An exchange gives back the file it opened, unless the local file or the      *)
(* connection cannot be read, also after a get has closed another's.            *)
THEOREM FilesAreGivenBack == Spec => []FilesClosed
<1>1. Ledger => FilesClosed
  BY DEF Ledger, Accounted, AccountedFor, IsAFile, FilesClosed
<1>2. Init => Ledger
  BY InitInv DEF Inv
<1>3. QED
  BY <1>1, <1>2, InvStep, PTL DEF Spec
=================================================================================
