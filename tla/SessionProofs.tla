------------------------------ MODULE SessionProofs ------------------------------
(*******************************************************************************)
(* Theorems of Session, for every number of workers, every input and every      *)
(* number of socket events:                                                     *)
(*   WorkspaceOutlivesPatcher   Spec => []PatcherHasWorkspace                  *)
(*   EndingIsQuiet              Spec => FlagsOnlyFall                          *)
(*   TypeCorrect                Spec => []TypeOK                               *)
(*   CommandsTakenInOrder       Spec => []TakenInOrder                         *)
(* The first two rest on Phases: how far the main thread and the patcher may   *)
(* be apart.  The others rest on ReadingInv: where in the text the reader is,  *)
(* and that what it has interpreted is what the text up to there says.         *)
(*******************************************************************************)
EXTENDS Session, InductionProofs

InputLabels == {"lock", "read", "line", "split"}
Alive == {"spawn", "test", "park", "wait", "announce", "join", "cancel", "spin",
          "destroy"}
Ending == {"cancel", "spin", "destroy", "exit"}
Ended == {"done", "failed", "crashed"}

\* The reader runs only where main has started it, as the patcher or in its own
\* input_handling; main is beyond the join only if the reader has left, and the
\* reader leaves only if it is told to; the workspace is there in between.
Unstarted == main \in {"init", "create"} => reader = "off"
ReadsItself == main = "input" => reader \in InputLabels
Joined == main \in Ending => reader = "exit"
LeavesWhenTold == reader = "exit" => main \in {"join"} \cup Ending \cup Ended
Allocated == main \in Alive => workspace = "live"
Phases == Unstarted /\ ReadsItself /\ Joined /\ LeavesWhenTold /\ Allocated

(* A step that leaves main, reader and workspace alone leaves the phases alone. *)
LEMMA SamePhase ==
  ASSUME Phases, UNCHANGED <<main, reader, workspace>>
  PROVE  Phases'
  BY DEF Phases, Unstarted, ReadsItself, Joined, LeavesWhenTold, Allocated

(* The process may always end: nothing is claimed of what comes then. *)
LEMMA EndedPhase ==
  ASSUME main' \in Ended
  PROVE  Phases'
  BY DEF Phases, Unstarted, ReadsItself, Joined, LeavesWhenTold, Allocated, Alive,
         Ending, Ended

(* The patcher moves between labels that are not its last, before it is told to *)
(* leave or while main waits for it.                                           *)
LEMMA ReaderPhase ==
  ASSUME Phases, Running, reader \notin {"off", "exit"},
         reader' \notin {"off", "exit"},
         main = "input" => reader' \in InputLabels,
         main' = main, workspace' = workspace
  PROVE  Phases'
  BY DEF Phases, Unstarted, ReadsItself, Joined, LeavesWhenTold, Allocated, Running

(* A signal moves main from its wait to its test, which are of one phase.       *)
LEMMA SignalPhase ==
  ASSUME Phases, main' \in {main, SignalledMain}, UNCHANGED <<reader, workspace>>
  PROVE  Phases'
  BY DEF Phases, Unstarted, ReadsItself, Joined, LeavesWhenTold, Allocated,
         SignalledMain, Alive, Ending, Ended, InputLabels

(* The reader's way back, from its own thread or from main's.                   *)
LEMMA ReturnPhase ==
  ASSUME Phases, Running, reader \in InputLabels, NEW m \in {main, SignalledMain},
         InputReturns(m), workspace' = workspace
  PROVE  Phases'
  BY DEF Phases, Unstarted, ReadsItself, Joined, LeavesWhenTold, Allocated, Running,
         InputReturns, ReaderGoes, SignalledMain, Alive, Ending, Ended, InputLabels

(* Init establishes the phases. *)
LEMMA PhasesInit == Init => Phases
  BY DEF Init, Phases, Unstarted, ReadsItself, Joined, LeavesWhenTold, Allocated, Alive,
         Ending, InputLabels

(* The steps of the patcher that do not read the input. *)
LEMMA PatcherPhase ==
  ASSUME Phases, Test \/ Wait \/ EventStdin \/ EventSocket \/ BatchDone
  PROVE  Phases'
<1>1. CASE Test
  BY <1>1 DEF Test, ReaderAt, ReaderGoes, noReader, mainVars, PatcherCancel, Running,
     Phases, Unstarted, ReadsItself, Joined, LeavesWhenTold, Allocated, InputLabels,
     Ending, Ended
<1>2. CASE Wait
  BY <1>2, ReaderPhase DEF Wait, ReaderAt, ReaderGoes, noReader, mainVars,
     Phases, ReadsItself, InputLabels
<1>3. CASE EventStdin
  BY <1>3, ReaderPhase DEF EventStdin, ReaderAt, ReaderGoes, noReader, mainVars,
     Phases, ReadsItself, InputLabels
<1>4. CASE EventSocket
  <2>1. CASE workspace = "live"
    BY <1>4, <2>1, SamePhase DEF EventSocket
  <2>2. CASE workspace # "live"
    BY <1>4, <2>2, EndedPhase DEF EventSocket, Ended
  <2>3. QED
    BY <2>1, <2>2
<1>5. CASE BatchDone
  BY <1>5, ReaderPhase DEF BatchDone, ReaderAt, ReaderGoes, noReader, mainVars,
     Phases, ReadsItself, InputLabels
<1>6. QED
  BY <1>1, <1>2, <1>3, <1>4, <1>5

(* The steps of input_handling, in whatever thread. *)
LEMMA InputPhase ==
  ASSUME Phases, InputHandling
  PROVE  Phases'
<1>1. ASSUME Running, reader \in InputLabels, NextPart, workspace' = workspace
      PROVE  Phases'
  <2>1. CASE Semicolon \in ToSet(Rest)
    BY <1>1, <2>1, SamePhase DEF NextPart
  <2>2. CASE Semicolon \notin ToSet(Rest)
    BY <1>1, <2>2, ReturnPhase DEF NextPart
  <2>3. QED
    BY <2>1, <2>2
<1>2. CASE LockInput
  BY <1>2, ReaderPhase DEF LockInput, ReaderAt, ReaderGoes, mainVars, InputLabels
<1>3. CASE ReadChar
  BY <1>3, ReaderPhase DEF ReadChar, ReaderAt, ReaderGoes, mainVars, InputLabels
<1>4. CASE ReadEof
  BY <1>4, ReaderPhase DEF ReadEof, ReaderAt, ReaderGoes, mainVars, InputLabels
<1>5. CASE LineRead
  <2>1. Running /\ reader = "line" /\ workspace' = workspace
    BY <1>5 DEF LineRead, ReaderAt
  <2>2. CASE InputReturns(SignalledMain)
    BY <2>1, <2>2, ReturnPhase DEF InputLabels
  <2>3. CASE reader' \in {"split", "lock"} /\ main' = main
    BY <2>1, <2>3, ReaderPhase DEF InputLabels
  <2>4. QED
    BY <1>5, <2>2, <2>3 DEF LineRead, ReaderGoes
<1>6. CASE SkipEmpty
  BY <1>1, <1>6 DEF SkipEmpty, ReaderAt, InputLabels
<1>7. CASE Refuse
  BY <1>1, <1>7 DEF Refuse, ReaderAt, InputLabels
<1>8. CASE Accept
  <2>1. CASE main' = "crashed"
    BY <2>1, EndedPhase DEF Ended
  <2>2. CASE NextPart
    BY <1>1, <1>8, <2>2 DEF Accept, ReaderAt, InputLabels
  <2>3. QED
    BY <1>8, <2>1, <2>2 DEF Accept
<1>9. QED
  BY <1>2, <1>3, <1>4, <1>5, <1>6, <1>7, <1>8 DEF InputHandling

(* The steps of a worker: it may signal main, or crash. *)
LEMMA WorkerPhase ==
  ASSUME Phases, NEW w \in Workers, WorkerMoves(w) \/ Run(w) \/ SpuriousWake(w)
  PROVE  Phases'
<1>1. CASE Begin(w)
  BY <1>1, SamePhase, EndedPhase DEF Begin, Ended
<1>2. CASE Park(w)
  BY <1>2, SamePhase, EndedPhase DEF Park, Ended
<1>3. CASE Finish(w)
  BY <1>3, SignalPhase DEF Finish
<1>4. CASE Check(w) \/ Log(w) \/ Cancelled(w) \/ Run(w) \/ SpuriousWake(w)
  BY <1>4, SamePhase DEF Check, Log, Cancelled, Run, SpuriousWake, noWorker, mainVars
<1>5. QED
  BY <1>1, <1>2, <1>3, <1>4 DEF WorkerMoves

(* The steps of the main thread. *)
LEMMA MainPhase ==
  ASSUME Phases, MainMoves \/ StartFails \/ MainWakes
  PROVE  Phases'
<1> USE DEF Phases, Unstarted, ReadsItself, Joined, LeavesWhenTold, Allocated, MainGoes,
            MainAt, noMain
<1>1. CASE InputInit
  BY <1>1 DEF InputInit, InputLabels, Ending, Alive, Ended
<1>2. CASE CreatePatcher \/ CountWorkspace \/ AllocWorkspace \/ SpawnWorkers
  BY <1>2 DEF CreatePatcher, CountWorkspace, AllocWorkspace, SpawnWorkers, InputLabels,
     Ending, Alive, Ended
<1>3. CASE TestContinue \/ WaitContinue \/ MainWakes \/ Announce
  BY <1>3 DEF TestContinue, WaitContinue, MainWakes, Announce, Ending, Alive, Ended
<1>4. CASE JoinPatcher \/ CancelWorkers \/ JoinWorkers
  BY <1>4 DEF JoinPatcher, CancelWorkers, JoinWorkers, Ending, Alive, Ended
<1>5. CASE Destroy \/ Exit
  BY <1>5 DEF Destroy, Exit, Ending, Alive, Ended
<1>6. CASE StartFails
  BY <1>6, EndedPhase DEF StartFails, Ended
<1>7. QED
  BY <1>1, <1>2, <1>3, <1>4, <1>5, <1>6 DEF MainMoves

(* The user does not touch the phases. *)
LEMMA TypePhase ==
  ASSUME Phases, Type
  PROVE  Phases'
  BY SamePhase DEF Type, mainVars

(* The phases are an inductive invariant. *)
THEOREM PhasesKept == Spec => []Phases
<1>1. Phases /\ [Next]_vars => Phases'
  <2> SUFFICES ASSUME Phases, [Next]_vars PROVE Phases'
    OBVIOUS
  <2>1. CASE UNCHANGED vars
    BY <2>1, SamePhase DEF vars, mainVars
  <2>2. CASE Next
    BY <2>2, TypePhase, PatcherPhase, InputPhase, WorkerPhase, MainPhase
       DEF Next, Reader
  <2>3. QED
    BY <2>1, <2>2
<1>2. QED
  BY <1>1, PhasesInit, PTL DEF Spec

(* As long as the patcher runs, and once the startup is over, the workspaces it *)
(* reads are allocated: epoll_patcher_join comes before workspace_destroy.       *)
THEOREM WorkspaceOutlivesPatcher == Spec => []PatcherHasWorkspace
<1>1. Phases => PatcherHasWorkspace
  BY DEF Phases, Joined, Allocated, PatcherHasWorkspace, Ending, Alive
<1>2. QED
  BY <1>1, PhasesKept, PTL

(* While main waits for the flag word no flag is set and no command is taken:   *)
(* the patcher has been joined, and workers only clear flags.                   *)
THEOREM EndingIsQuiet == Spec => FlagsOnlyFall
<1>1. Phases /\ [Next]_vars =>
        (main = "spin" => flags' \subseteq flags /\ handled' = handled)
  <2> SUFFICES ASSUME Phases, [Next]_vars, main = "spin"
               PROVE  flags' \subseteq flags /\ handled' = handled
    OBVIOUS
  <2>1. reader = "exit"
    BY DEF Phases, Joined, Ending
  <2>2. ~Reader
    BY <2>1 DEF Reader, Test, Wait, EventStdin, EventSocket, BatchDone, InputHandling,
       LockInput, ReadChar, ReadEof, LineRead, SkipEmpty, Refuse, Accept, ReaderAt
  <2>3. CASE UNCHANGED vars
    BY <2>3 DEF vars, workVars
  <2>4. CASE Type
    BY <2>4 DEF Type, workVars
  <2>5. ASSUME NEW w \in Workers, WorkerMoves(w) \/ Run(w) \/ SpuriousWake(w)
        PROVE  flags' \subseteq flags /\ handled' = handled
    <3>1. CASE Finish(w)
      BY <3>1 DEF Finish
    <3>2. CASE Begin(w) \/ Park(w)
      BY <3>2 DEF Begin, Park, workVars
    <3>3. CASE Check(w) \/ Log(w) \/ Cancelled(w) \/ Run(w) \/ SpuriousWake(w)
      BY <3>3 DEF Check, Log, Cancelled, Run, SpuriousWake, noWorker, workVars
    <3>4. QED
      BY <2>5, <3>1, <3>2, <3>3 DEF WorkerMoves
  <2>6. CASE MainMoves \/ StartFails \/ MainWakes
    BY <2>6 DEF MainMoves, StartFails, MainWakes, InputInit, CreatePatcher,
       CountWorkspace, AllocWorkspace, SpawnWorkers, TestContinue, WaitContinue,
       Announce, JoinPatcher, CancelWorkers, JoinWorkers, Destroy, Exit, MainGoes,
       MainAt, noMain, workVars
  <2>7. QED
    BY <2>2, <2>3, <2>4, <2>5, <2>6 DEF Next
<1>2. QED
  BY <1>1, PhasesKept, PTL DEF Spec, FlagsOnlyFall

--------------------------------------------------------------------------------
(* Filtered, along its argument.                                                *)

(* The recursion has a solution, so the function is one: its values are         *)
(* sequences of tokens, and each follows from the one before.                   *)
LEMMA FilteredUnfolds ==
  ASSUME NEW T, NEW s \in Seq(T), NEW seps
  PROVE  LET F == Filtered(s, seps)
         IN /\ F \in [0 .. Len(s) -> Seq(T)]
            /\ F[0] = <<>>
            /\ \A n \in 1 .. Len(s) :
                 F[n] = IF s[n] \in seps THEN F[n - 1] ELSE Append(F[n - 1], s[n])
<1> DEFINE N == Len(s)
           V == Seq(T)
           empty == <<>>
           Longer(n, v) == IF s[n] \in seps THEN v ELSE Append(v, s[n])
           Unfolded(f) ==
             [n \in 0 .. N |-> IF n = 0 THEN empty ELSE Longer(n, f[n - 1])]
           step == [n \in 1 .. N |-> [v \in V |-> Longer(n, v)]]
           F == Filtered(s, seps)
<1>1. N \in Nat /\ empty \in V
  OBVIOUS
<1>2. ASSUME NEW n \in 1 .. N, NEW v \in V PROVE Longer(n, v) \in V
  <2>1. s[n] \in T
    OBVIOUS
  <2>2. Append(v, s[n]) \in Seq(T)
    BY <2>1
  <2>3. QED
    BY <2>2
<1>3. F = CHOOSE f : f = Unfolded(f)
  BY DEF Filtered
<1>4. ASSUME NEW f
      PROVE  f = Unfolded(f) <=>
               /\ f = [n \in 0 .. N |-> f[n]]
               /\ \A n \in 0 .. N : f[n] = IF n = 0 THEN empty ELSE Longer(n, f[n - 1])
  <2> HIDE DEF Longer, N, empty
  <2>1. QED
    OBVIOUS
<1> HIDE DEF N, V, empty, Longer, Unfolded, F
<1>5. PICK g : Follows(g, N, V, empty, step)
  <2>1. \A n \in 1 .. N : \A v \in V : step[n][v] \in V
    BY <1>2
  <2> HIDE DEF step
  <2>2. QED
    BY <1>1, <2>1, RecursionExists
<1>6. g = Unfolded(g)
  <2> USE DEF Follows
  <2>1. ASSUME NEW n \in 1 .. N PROVE g[n] = Longer(n, g[n - 1])
    <3>1. g[n - 1] \in V
      BY <1>1, <1>5
    <3>2. step[n][g[n - 1]] = Longer(n, g[n - 1])
      BY <3>1
    <3> HIDE DEF step
    <3>3. QED
      BY <1>5, <3>2
  <2> HIDE DEF step
  <2>2. ASSUME NEW n \in 0 .. N
        PROVE  g[n] = IF n = 0 THEN empty ELSE Longer(n, g[n - 1])
    BY <1>1, <1>5, <2>1
  <2>3. g = [n \in 0 .. N |-> g[n]]
    BY <1>5
  <2>4. QED
    BY <1>4, <2>2, <2>3
<1>7. F = Unfolded(F)
  BY <1>3, <1>6, Zenon
<1>8. /\ F = [n \in 0 .. N |-> F[n]]
      /\ F[0] = empty
      /\ \A n \in 1 .. N : F[n] = Longer(n, F[n - 1])
  BY <1>1, <1>4, <1>7
<1>9. F \in [0 .. N -> V]
  <2> DEFINE S == {n \in 0 .. N : F[n] \in V}
  <2>1. 0 \in S
    BY <1>1, <1>8
  <2>2. ASSUME NEW n \in 0 .. N - 1, n \in S PROVE n + 1 \in S
    <3>1. n + 1 \in 1 .. N /\ F[n] \in V /\ (n + 1) - 1 = n
      BY <1>1, <2>2
    <3>2. F[n + 1] = Longer(n + 1, F[n])
      BY <1>8, <3>1
    <3>3. F[n + 1] \in V
      BY <1>2, <3>1, <3>2
    <3>4. QED
      BY <1>1, <3>1, <3>3
  <2> HIDE DEF S
  <2>3. 0 .. N \subseteq S
    BY <1>1, <2>1, <2>2, IntervalInduction
  <2>4. \A n \in 0 .. N : F[n] \in V
    BY <2>3 DEF S
  <2>5. QED
    BY <1>8, <2>4
<1>10. QED
  BY <1>8, <1>9 DEF N, V, empty, Longer, F

\* c is a with b behind it.  (A name of its own, for the provers' sake.)
IsJoin(c, a, b) == c = a \o b

(* A sequence that ends in b grows as b grows. *)
LEMMA JoinAppend ==
  ASSUME NEW T, NEW a \in Seq(T), NEW b \in Seq(T), NEW x \in T, NEW c, IsJoin(c, a, b)
  PROVE  IsJoin(Append(c, x), a, Append(b, x))
<1>1. Append(a \o b, x) = a \o Append(b, x)
  OBVIOUS
<1>2. QED
  BY <1>1 DEF IsJoin

(* A beginning of b is a beginning of whatever b is continued by. *)
LEMMA PrefixOfAppend ==
  ASSUME NEW T, NEW a \in Seq(T), NEW b \in Seq(T), NEW x \in T,
         Len(a) <= Len(b), SubSeq(b, 1, Len(a)) = a
  PROVE  Len(a) <= Len(Append(b, x)) /\ SubSeq(Append(b, x), 1, Len(a)) = a
  OBVIOUS

(* A run of separators adds nothing. *)
LEMMA FilteredSkips ==
  ASSUME NEW T, NEW s \in Seq(T), NEW seps, NEW p \in Nat, NEW q \in Nat, p <= q,
         q <= Len(s), \A k \in p + 1 .. q : s[k] \in seps
  PROVE  Filtered(s, seps)[q] = Filtered(s, seps)[p]
<1> DEFINE F == Filtered(s, seps)
           S == {j \in 0 .. q - p : F[p + j] = F[p]}
<1>1. \A n \in 1 .. Len(s) : s[n] \in seps => F[n] = F[n - 1]
  BY FilteredUnfolds
<1> HIDE DEF F
<1>2. 0 \in S
  OBVIOUS
<1>3. ASSUME NEW j \in 0 .. (q - p) - 1, j \in S PROVE j + 1 \in S
  <2>1. p + (j + 1) \in 1 .. Len(s) /\ s[p + (j + 1)] \in seps
    OBVIOUS
  <2>2. F[p + (j + 1)] = F[(p + (j + 1)) - 1] /\ (p + (j + 1)) - 1 = p + j
    BY <1>1, <2>1
  <2>3. QED
    BY <1>3, <2>2
<1>4. 0 .. q - p \subseteq S
  <2> HIDE DEF S
  <2>1. QED
    BY <1>2, <1>3, IntervalInduction
<1>5. q - p \in S /\ p + (q - p) = q
  <2>1. q - p \in 0 .. q - p /\ p + (q - p) = q
    OBVIOUS
  <2> HIDE DEF S
  <2>2. QED
    BY <1>4, <2>1
<1>6. QED
  BY <1>5 DEF F

\* From p on, s goes on as r, and the same of those tokens are separators.
Agrees(s, seps, p, r, others) ==
  /\ p + Len(r) <= Len(s)
  /\ \A j \in 1 .. Len(r) : s[p + j] = r[j] /\ (r[j] \in seps <=> r[j] \in others)

(* What is between two places of s adds what it gives by itself, if the same of *)
(* its tokens are separators.                                                   *)
LEMMA FilteredSegment ==
  ASSUME NEW T, NEW s \in Seq(T), NEW seps, NEW r \in Seq(T), NEW others,
         NEW p \in Nat, Agrees(s, seps, p, r, others)
  PROVE  IsJoin(Filtered(s, seps)[p + Len(r)],
                Filtered(s, seps)[p], Filtered(r, others)[Len(r)])
<1> DEFINE F == Filtered(s, seps)
           G == Filtered(r, others)
           S == {j \in 0 .. Len(r) : IsJoin(F[p + j], F[p], G[j])}
<1>1. /\ F \in [0 .. Len(s) -> Seq(T)]
      /\ \A n \in 1 .. Len(s) :
           F[n] = IF s[n] \in seps THEN F[n - 1] ELSE Append(F[n - 1], s[n])
  BY FilteredUnfolds
<1>2. /\ G \in [0 .. Len(r) -> Seq(T)]
      /\ G[0] = <<>>
      /\ \A n \in 1 .. Len(r) :
           G[n] = IF r[n] \in others THEN G[n - 1] ELSE Append(G[n - 1], r[n])
  BY FilteredUnfolds
<1> HIDE DEF F, G
<1>3. F[p] \in Seq(T) /\ p + Len(r) <= Len(s)
  BY <1>1 DEF Agrees
<1>4. 0 \in S
  <2>1. F[p] \o <<>> = F[p] /\ p + 0 = p /\ 0 \in 0 .. Len(r)
    BY <1>3
  <2>2. QED
    BY <1>2, <2>1 DEF IsJoin
<1>5. ASSUME NEW j \in 0 .. Len(r) - 1, j \in S PROVE j + 1 \in S
  <2> DEFINE k == p + (j + 1)
  <2>1. k \in 1 .. Len(s) /\ k - 1 = p + j /\ j + 1 \in 1 .. Len(r) /\ (j + 1) - 1 = j
    BY <1>3
  <2>2. s[k] = r[j + 1] /\ (s[k] \in seps <=> r[j + 1] \in others) /\ r[j + 1] \in T
    BY <2>1 DEF Agrees
  <2>3. F[k] = IF s[k] \in seps THEN F[p + j] ELSE Append(F[p + j], s[k])
    BY <1>1, <2>1
  <2>4. G[j + 1] = IF r[j + 1] \in others THEN G[j] ELSE Append(G[j], r[j + 1])
    BY <1>2, <2>1
  <2>5. IsJoin(F[p + j], F[p], G[j]) /\ G[j] \in Seq(T)
    BY <1>2, <1>5
  <2> HIDE DEF k
  <2>6. IsJoin(F[k], F[p], G[j + 1])
    <3>1. CASE r[j + 1] \in others
      BY <2>2, <2>3, <2>4, <2>5, <3>1
    <3>2. CASE r[j + 1] \notin others
      <4>1. F[k] = Append(F[p + j], r[j + 1]) /\ G[j + 1] = Append(G[j], r[j + 1])
        BY <2>2, <2>3, <2>4, <3>2
      <4>2. IsJoin(Append(F[p + j], r[j + 1]), F[p], Append(G[j], r[j + 1]))
        BY <1>3, <2>2, <2>5, JoinAppend, Zenon
      <4>3. QED
        BY <4>1, <4>2, Zenon
    <3>3. QED
      BY <3>1, <3>2
  <2>7. j + 1 \in 0 .. Len(r) /\ IsJoin(F[p + (j + 1)], F[p], G[j + 1])
    BY <2>1, <2>6 DEF k
  <2>8. QED
    BY <2>7
<1>6. 0 .. Len(r) \subseteq S
  <2>1. Len(r) \in Nat
    OBVIOUS
  <2> HIDE DEF S
  <2>2. QED
    BY <1>4, <1>5, <2>1, IntervalInduction
<1>7. Len(r) \in 0 .. Len(r)
  OBVIOUS
<1>8. IsJoin(F[p + Len(r)], F[p], G[Len(r)])
  BY <1>6, <1>7
<1>9. QED
  BY <1>8 DEF F, G

(* What the first p tokens give is where what they all give begins. *)
LEMMA FilteredPrefix ==
  ASSUME NEW T, NEW s \in Seq(T), NEW seps, NEW p \in 0 .. Len(s)
  PROVE  IsPrefix(Filtered(s, seps)[p], Filtered(s, seps)[Len(s)])
<1> DEFINE F == Filtered(s, seps)
           S == {j \in 0 .. Len(s) - p :
                   /\ Len(F[p]) <= Len(F[p + j])
                   /\ SubSeq(F[p + j], 1, Len(F[p])) = F[p]}
<1>1. /\ F \in [0 .. Len(s) -> Seq(T)]
      /\ \A n \in 1 .. Len(s) :
           F[n] = IF s[n] \in seps THEN F[n - 1] ELSE Append(F[n - 1], s[n])
  BY FilteredUnfolds
<1> HIDE DEF F
<1>2. F[p] \in Seq(T)
  BY <1>1
<1>3. 0 \in S
  BY <1>2
<1>4. ASSUME NEW j \in 0 .. (Len(s) - p) - 1, j \in S PROVE j + 1 \in S
  <2>1. p + (j + 1) \in 1 .. Len(s) /\ (p + (j + 1)) - 1 = p + j
    OBVIOUS
  <2>2. F[p + (j + 1)] \in {F[p + j], Append(F[p + j], s[p + (j + 1)])}
    BY <1>1, <2>1
  <2>3. F[p + j] \in Seq(T) /\ s[p + (j + 1)] \in T
    <3>1. p + j \in 0 .. Len(s)
      OBVIOUS
    <3>2. F[p + j] \in Seq(T)
      BY <1>1, <3>1
    <3>3. QED
      BY <2>1, <3>2
  <2>4. Len(F[p]) <= Len(F[p + j]) /\ SubSeq(F[p + j], 1, Len(F[p])) = F[p]
    BY <1>4
  <2>5. /\ Len(F[p]) <= Len(F[p + (j + 1)])
        /\ SubSeq(F[p + (j + 1)], 1, Len(F[p])) = F[p]
    <3>1. CASE F[p + (j + 1)] = F[p + j]
      BY <2>4, <3>1
    <3>2. CASE F[p + (j + 1)] = Append(F[p + j], s[p + (j + 1)])
      <4>1. /\ Len(F[p]) <= Len(Append(F[p + j], s[p + (j + 1)]))
            /\ SubSeq(Append(F[p + j], s[p + (j + 1)]), 1, Len(F[p])) = F[p]
        BY <1>2, <2>3, <2>4, PrefixOfAppend, Zenon
      <4>2. QED
        BY <3>2, <4>1, Zenon
    <3>3. QED
      BY <2>2, <3>1, <3>2
  <2>6. QED
    BY <2>1, <2>5
<1>5. 0 .. Len(s) - p \subseteq S
  <2>1. Len(s) - p \in Nat
    OBVIOUS
  <2> HIDE DEF S
  <2>2. QED
    BY <1>3, <1>4, <2>1, IntervalInduction
<1>6. Len(s) - p \in 0 .. Len(s) - p /\ p + (Len(s) - p) = Len(s)
  OBVIOUS
<1>7. Len(F[p]) <= Len(F[Len(s)]) /\ SubSeq(F[Len(s)], 1, Len(F[p])) = F[p]
  BY <1>5, <1>6
<1>8. SubSeq(F[p], 1, Len(F[p])) = F[p]
  BY <1>2
<1>9. QED
  BY <1>7, <1>8 DEF IsPrefix, F

--------------------------------------------------------------------------------
(* The text and its lines.                                                      *)

(* A cropped sequence is as the whole, but for its last token. *)
LEMMA CroppedIs ==
  ASSUME NEW s \in Seq(Tokens), s # <<>>
  PROVE  /\ Cropped(s) \in Seq(Tokens)
         /\ \A k \in 1 .. Len(s) - 1 : Cropped(s)[k] = s[k]
         /\ s[Len(s)] \in {Semicolon, Blank} => Len(Cropped(s)) = Len(s) - 1
         /\ s[Len(s)] \notin {Semicolon, Blank} =>
              Len(Cropped(s)) = Len(s) /\ Cropped(s)[Len(s)] = Cut
<1>1. /\ Front(s) \in Seq(Tokens)
      /\ Len(Front(s)) = Len(s) - 1
      /\ \A k \in 1 .. Len(s) - 1 : Front(s)[k] = s[k]
  BY DEF Front
<1>2. Last(s) = s[Len(s)] /\ Cut \in Tokens
  BY DEF Last, Tokens
<1>3. CASE s[Len(s)] \in {Semicolon, Blank}
  <2>1. Cropped(s) = Front(s)
    <3>1. Cropped(s) = Front(s) \o <<>>
      BY <1>2, <1>3 DEF Cropped
    <3>2. QED
      BY <1>1, <3>1
  <2>2. QED
    BY <1>1, <1>3, <2>1
<1>4. CASE s[Len(s)] \notin {Semicolon, Blank}
  <2>1. Cropped(s) = Front(s) \o <<Cut>>
    BY <1>2, <1>4 DEF Cropped
  <2> HIDE DEF Cut, Tokens
  <2>2. QED
    BY <1>1, <1>2, <1>4, <2>1
<1>5. QED
  BY <1>3, <1>4

(* The lines of an input are its text, but that an unended last line is ended   *)
(* and has lost its last token.                                                 *)
LEMMA LinesAre ==
  ASSUME NEW i \in InputType
  PROVE  /\ Lines(i) \in Seq(Tokens)
         /\ ~Unended(i) => Lines(i) = i.text
         /\ Unended(i) =>
              /\ Lines(i) = Cropped(i.text) \o <<Newline>>
              /\ Len(Lines(i)) = Len(Cropped(i.text)) + 1
              /\ Lines(i)[Len(Lines(i))] = Newline
              /\ \A k \in 1 .. Len(Cropped(i.text)) : Lines(i)[k] = Cropped(i.text)[k]
<1>1. i.text \in Seq(Tokens) /\ Newline \in Tokens
  BY DEF InputType, Tokens
<1>2. CASE ~Unended(i)
  BY <1>1, <1>2 DEF Lines
<1>3. CASE Unended(i)
  <2>1. Cropped(i.text) \in Seq(Tokens)
    BY <1>1, <1>3, CroppedIs DEF Unended
  <2>2. Lines(i) = Cropped(i.text) \o <<Newline>>
    BY <1>3 DEF Lines
  <2> DEFINE c == Cropped(i.text)
  <2> HIDE DEF c
  <2>3. c \in Seq(Tokens) /\ Lines(i) = c \o <<Newline>>
    BY <2>1, <2>2 DEF c
  <2>4. /\ Lines(i) \in Seq(Tokens)
        /\ Len(Lines(i)) = Len(c) + 1
        /\ Lines(i)[Len(c) + 1] = Newline
        /\ \A k \in 1 .. Len(c) : Lines(i)[k] = c[k]
    BY <1>1, <2>3
  <2>5. QED
    BY <1>3, <2>2, <2>4 DEF c
<1>4. QED
  BY <1>2, <1>3

--------------------------------------------------------------------------------
(* Where the reader is in the text.                                             *)

Separators == {Newline, Semicolon, Blank}
Text == Script(Lines(input))
\* The commands in what stands before place p of the text.
Interpreted(p) == Filtered(Text, Separators)[p]

Unbroken(p, q) == \A k \in p + 1 .. q : input.text[k] # Newline
Boundary(p) == p = 0 \/ p = Len(input.text) \/ input.text[p] = Newline
\* A line ends with its newline, or with the input.
LineComplete ==
  IF eof
    THEN input.closed /\ taken = Len(input.text) /\ Unbroken(start, taken)
    ELSE taken > start /\ input.text[taken] = Newline /\ Unbroken(start, taken - 1)

\* The line in g_input_buffer, and its end, among the lines of the input.
EndOfLine == start + Len(Line) + 1
LineStands ==
  /\ Line \in Seq(Tokens)
  /\ start = 0 \/ (start \in 1 .. Len(Lines(input)) /\ Lines(input)[start] = Newline)
  /\ \A j \in 1 .. Len(Line) : Lines(input)[start + j] = Line[j] /\ Line[j] # Newline
  /\ EndOfLine <= Len(Lines(input)) /\ Lines(input)[EndOfLine] = Newline
  /\ EndOfLine \in {taken, taken + 1}

(* The line in the buffer stands in the text that was typed, behind the lines   *)
(* taken before it.                                                             *)
LEMMA LineIs ==
  ASSUME input \in InputType, start \in Nat, taken \in start .. Len(input.text),
         Boundary(start), LineComplete, Chars # <<>>
  PROVE  LineStands
<1> DEFINE text == input.text
           n == Len(text)
           L == Lines(input)
<1>1. text \in Seq(Tokens) /\ n \in Nat
  BY DEF InputType
<1>2. /\ Chars \in Seq(Tokens)
      /\ Len(Chars) = taken - start
      /\ \A j \in 1 .. taken - start : Chars[j] = text[start + j]
  BY <1>1 DEF Chars
<1>3. taken > start
  BY <1>1, <1>2
<1>4. Unended(input) => n > 0 /\ text[n] # Newline
  BY <1>1 DEF Unended, Last
<1>5. /\ Unended(input) =>
           \A k \in 1 .. n - 1 : k <= Len(L) /\ L[k] = text[k]
      /\ ~Unended(input) => L = text
  <2>1. CASE Unended(input)
    <3>1. text # <<>>
      BY <2>1 DEF Unended
    <3>2. /\ Cropped(text) \in Seq(Tokens) /\ Len(Cropped(text)) >= n - 1
          /\ \A k \in 1 .. n - 1 : Cropped(text)[k] = text[k]
      BY <1>1, <3>1, CroppedIs
    <3>3. /\ Len(L) = Len(Cropped(text)) + 1
          /\ \A k \in 1 .. Len(Cropped(text)) : L[k] = Cropped(text)[k]
      BY <2>1, LinesAre
    <3> HIDE DEF L, n
    <3>4. ASSUME NEW k \in 1 .. n - 1 PROVE k <= Len(L) /\ L[k] = text[k]
      BY <1>1, <3>2, <3>3
    <3>5. QED
      BY <2>1, <3>4
  <2>2. QED
    BY <2>1, LinesAre
<1>6. start = 0 \/ (start \in 1 .. Len(L) /\ L[start] = Newline)
  <2>1. start = 0 \/ (start \in 1 .. n - 1 /\ text[start] = Newline)
    BY <1>1, <1>3 DEF Boundary
  <2> HIDE DEF L
  <2>2. QED
    BY <1>1, <1>5, <2>1
<1>7. CASE ~eof
  <2>1. /\ Line \in Seq(Tokens)
        /\ Len(Line) = (taken - start) - 1
        /\ \A j \in 1 .. Len(Line) : Line[j] = text[start + j]
    <3>1. Line = Front(Chars)
      BY <1>7 DEF Line
    <3>2. QED
      BY <1>2, <1>3, <3>1 DEF Front
  <2>2. text[taken] = Newline /\ \A k \in start + 1 .. taken - 1 : text[k] # Newline
    BY <1>7 DEF LineComplete, Unbroken
  <2>3. taken \in 1 .. n /\ (Unended(input) => taken < n)
    BY <1>1, <1>3, <1>4, <2>2
  <2>4. \A k \in 1 .. taken : k <= Len(L) /\ L[k] = text[k]
    <3> HIDE DEF L
    <3>1. QED
      BY <1>1, <1>5, <2>3
  <2>5. EndOfLine = taken
    BY <1>1, <1>3, <2>1 DEF EndOfLine
  <2>6. ASSUME NEW j \in 1 .. Len(Line)
        PROVE  L[start + j] = Line[j] /\ Line[j] # Newline
    <3>1. start + j \in start + 1 .. taken - 1 /\ start + j \in 1 .. taken
      BY <1>3, <2>1
    <3>2. L[start + j] = text[start + j]
      BY <2>4, <3>1
    <3>3. QED
      BY <2>1, <2>2, <3>1, <3>2
  <2>7. taken <= Len(L) /\ L[taken] = Newline
    BY <2>2, <2>3, <2>4
  <2>8. QED
    BY <1>6, <2>1, <2>5, <2>6, <2>7 DEF LineStands
<1>8. CASE eof
  <2>1. input.closed /\ taken = n /\ \A k \in start + 1 .. n : text[k] # Newline
    BY <1>8 DEF LineComplete, Unbroken
  <2>2. Unended(input)
    <3>1. n \in start + 1 .. n /\ text # <<>> /\ Last(text) = text[n]
      BY <1>1, <1>3, <2>1 DEF Last
    <3>2. QED
      BY <2>1, <3>1 DEF Unended
  <2>3. Line = Cropped(Chars)
    BY <1>8 DEF Line
  <2>4. Chars[Len(Chars)] = text[n] /\ Len(Chars) = n - start
    BY <1>2, <1>3, <2>1
  <2>5. /\ Line \in Seq(Tokens)
        /\ \A j \in 1 .. (n - start) - 1 : Line[j] = Chars[j]
        /\ text[n] \in {Semicolon, Blank} => Len(Line) = (n - start) - 1
        /\ text[n] \notin {Semicolon, Blank} =>
             Len(Line) = n - start /\ Line[n - start] = Cut
    BY <1>2, <2>3, <2>4, CroppedIs
  <2>6. /\ Cropped(text) \in Seq(Tokens)
        /\ \A k \in 1 .. n - 1 : Cropped(text)[k] = text[k]
        /\ text[n] \in {Semicolon, Blank} => Len(Cropped(text)) = n - 1
        /\ text[n] \notin {Semicolon, Blank} =>
             Len(Cropped(text)) = n /\ Cropped(text)[n] = Cut
    BY <1>1, <1>4, <2>2, CroppedIs
  <2>7. /\ Len(L) = Len(Cropped(text)) + 1
        /\ L[Len(L)] = Newline
        /\ \A k \in 1 .. Len(Cropped(text)) : L[k] = Cropped(text)[k]
    BY <2>2, LinesAre
  <2> HIDE DEF L, n, text
  <2>8. start + Len(Line) = Len(Cropped(text)) /\ Len(Cropped(text)) \in {n - 1, n}
    BY <1>1, <2>5, <2>6
  <2>9. EndOfLine = Len(L) /\ EndOfLine \in {taken, taken + 1}
    BY <1>1, <2>1, <2>5, <2>7, <2>8 DEF EndOfLine
  <2>10. ASSUME NEW j \in 1 .. Len(Line)
         PROVE  L[start + j] = Line[j] /\ Line[j] # Newline
    <3>1. start + j \in 1 .. Len(Cropped(text))
      BY <2>5, <2>8
    <3>2. L[start + j] = Cropped(text)[start + j]
      BY <2>7, <3>1
    <3>3. CASE j <= (n - start) - 1
      <4>1. Line[j] = text[start + j]
        <5>1. j \in 1 .. (n - start) - 1 /\ j \in 1 .. taken - start
          BY <1>1, <2>1, <3>3
        <5>2. Line[j] = Chars[j]
          BY <2>5, <5>1
        <5>3. Chars[j] = text[start + j]
          BY <1>2, <5>1
        <5>4. QED
          BY <5>2, <5>3
      <4>2. start + j \in 1 .. n - 1 /\ start + j \in start + 1 .. n
        BY <1>1, <3>3
      <4>3. QED
        BY <2>1, <2>6, <3>2, <4>1, <4>2
    <3>4. CASE ~(j <= (n - start) - 1)
      <4>1. j = n - start /\ text[n] \notin {Semicolon, Blank} /\ start + j = n
        BY <1>1, <2>5, <3>4
      <4>2. QED
        BY <2>5, <2>6, <3>2, <4>1 DEF Cut, Newline
    <3>5. QED
      BY <3>3, <3>4
  <2>11. QED
    BY <1>6, <2>5, <2>7, <2>9, <2>10 DEF LineStands, L
<1>9. QED
  BY <1>7, <1>8

(* What the script makes of a line that stands: nothing of one that quits.      *)
LEMMA ScriptOfLine ==
  ASSUME input \in InputType, start \in Nat, LineStands
  PROVE  /\ Text \in Seq(Tokens) /\ Len(Text) = Len(Lines(input))
         /\ Text[EndOfLine] = Newline
         /\ Line = <<Quit>> => Text[start + 1] = Newline
         /\ Line # <<Quit>> => \A j \in 1 .. Len(Line) : Text[start + j] = Line[j]
<1> DEFINE L == Lines(input)
           n == Len(Line)
<1>1. L \in Seq(Tokens) /\ Newline \in Tokens
  BY LinesAre DEF Tokens
<1>2. /\ Text \in Seq(Tokens) /\ Len(Text) = Len(L)
      /\ \A k \in 1 .. Len(L) : Text[k] = IF k \in Quits(L) THEN Newline ELSE L[k]
  <2>1. Text = [k \in 1 .. Len(L) |-> IF k \in Quits(L) THEN Newline ELSE L[k]]
    BY DEF Text, Script
  <2> HIDE DEF L
  <2>2. QED
    BY <1>1, <2>1
<1>3. /\ Line \in Seq(Tokens) /\ n \in Nat /\ start + n + 1 = EndOfLine
      /\ start + n + 1 <= Len(L) /\ L[start + n + 1] = Newline
      /\ \A j \in 1 .. n : L[start + j] = Line[j] /\ Line[j] # Newline
      /\ start = 0 \/ (start \in 1 .. Len(L) /\ L[start] = Newline)
  BY DEF LineStands, EndOfLine
<1>4. \A k \in 1 .. Len(L) :
        k \in Quits(L) <=> /\ L[k] = Quit
                           /\ k = 1 \/ L[k - 1] = Newline
                           /\ k < Len(L) => L[k + 1] = Newline
  BY DEF Quits
<1>5. Newline # Quit
  BY DEF Newline, Quit
<1> HIDE DEF L, n
<1>6. Text[EndOfLine] = Newline
  BY <1>1, <1>2, <1>3
<1>7. CASE Line = <<Quit>>
  <2>1. n = 1 /\ Line[1] = Quit
    BY <1>7 DEF n
  <2>2. start + 1 \in 1 .. Len(L) /\ L[start + 1] = Quit /\ L[(start + 1) + 1] = Newline
    BY <1>1, <1>3, <2>1
  <2>3. start + 1 = 1 \/ L[(start + 1) - 1] = Newline
    BY <1>3
  <2>4. start + 1 \in Quits(L)
    BY <1>4, <2>2, <2>3
  <2>5. QED
    BY <1>2, <1>6, <1>7, <2>2, <2>4 DEF L
<1>8. CASE Line # <<Quit>>
  <2>1. ASSUME NEW j \in 1 .. n PROVE Text[start + j] = Line[j]
    <3>1. start + j \in 1 .. Len(L) /\ L[start + j] = Line[j] /\ Line[j] # Newline
      BY <1>1, <1>3
    <3>2. SUFFICES ASSUME start + j \in Quits(L) PROVE FALSE
      BY <1>2, <3>1
    <3>3. /\ Line[j] = Quit
          /\ start + j = 1 \/ L[(start + j) - 1] = Newline
          /\ start + j < Len(L) => L[(start + j) + 1] = Newline
      BY <1>4, <3>1, <3>2
    <3>4. j = 1
      <4>1. SUFFICES ASSUME j # 1 PROVE FALSE
        OBVIOUS
      <4>2. j - 1 \in 1 .. n /\ start + (j - 1) = (start + j) - 1 /\ start + j # 1
        BY <1>3, <4>1
      <4>3. QED
        BY <1>3, <3>3, <4>2
    <3>5. n = 1
      <4>1. SUFFICES ASSUME n # 1 PROVE FALSE
        OBVIOUS
      <4>2. 2 \in 1 .. n /\ start + 2 = (start + j) + 1 /\ start + j < Len(L)
        BY <1>1, <1>3, <3>4, <4>1
      <4>3. QED
        BY <1>3, <3>3, <4>2
    <3>6. Line = <<Line[1]>>
      BY <1>3, <3>5 DEF n
    <3>7. QED
      BY <1>8, <3>3, <3>4, <3>6
  <2>2. QED
    BY <1>2, <1>6, <1>8, <2>1 DEF n, L
<1>9. QED
  BY <1>7, <1>8

(* The end of a line and the place of its last character say the same. *)
LEMMA EndSays ==
  ASSUME input \in InputType, start \in Nat, taken \in Nat, LineStands
  PROVE  /\ Interpreted(EndOfLine) = Interpreted(taken)
         /\ Interpreted(EndOfLine) = Interpreted(start + Len(Line))
<1>1. /\ Text \in Seq(Tokens) /\ EndOfLine \in 1 .. Len(Text)
      /\ Text[EndOfLine] \in Separators
  <2>1. start + Len(Line) + 1 \in Nat /\ EndOfLine >= 1
    BY DEF LineStands, EndOfLine
  <2>2. QED
    BY <2>1, ScriptOfLine DEF Separators, LineStands, EndOfLine
<1>2. /\ EndOfLine = (start + Len(Line)) + 1 /\ start + Len(Line) \in Nat
      /\ EndOfLine = taken \/ EndOfLine = taken + 1
  BY DEF EndOfLine, LineStands
<1>3. ASSUME NEW p \in Nat, EndOfLine = p + 1
      PROVE  Interpreted(EndOfLine) = Interpreted(p)
  <2> DEFINE q == EndOfLine
             s == Text
  <2> HIDE DEF q, s
  <2>1. /\ s \in Seq(Tokens) /\ q \in Nat /\ p <= q /\ q <= Len(s)
        /\ \A k \in p + 1 .. q : s[k] \in Separators
    BY <1>1, <1>3 DEF q, s
  <2>2. Filtered(s, Separators)[q] = Filtered(s, Separators)[p]
    BY <2>1, FilteredSkips
  <2>3. QED
    BY <2>2 DEF q, s, Interpreted
<1>4. QED
  BY <1>2, <1>3

(* One round of interprete_multiple_commands: what is left of the line up to a  *)
(* semicolon.                                                                   *)
LEMMA PartIs ==
  ASSUME Line \in Seq(Tokens), cursor \in 1 .. Len(Line) + 1
  PROVE  /\ Part \in Seq(Tokens)
         /\ \A j \in 1 .. Len(Part) : /\ cursor + j - 1 \in 1 .. Len(Line)
                                      /\ Part[j] = Line[cursor + j - 1]
                                      /\ Part[j] # Semicolon
         /\ Semicolon \in ToSet(Rest) =>
              /\ cursor + Len(Part) \in 1 .. Len(Line)
              /\ Line[cursor + Len(Part)] = Semicolon
         /\ Semicolon \notin ToSet(Rest) => cursor + Len(Part) = Len(Line) + 1
<1>1. /\ Rest \in Seq(Tokens)
      /\ Len(Rest) = Len(Line) - cursor + 1
      /\ \A j \in 1 .. Len(Rest) : Rest[j] = Line[cursor + j - 1]
  BY DEF Rest
<1>2. \A x : x \in ToSet(Rest) <=> \E j \in 1 .. Len(Rest) : Rest[j] = x
  BY <1>1 DEF ToSet
<1>3. CASE Semicolon \in ToSet(Rest)
  <2> DEFINE I == {i \in 1 .. Len(Rest) : Rest[i] = Semicolon}
             m == Min(I)
  <2>1. I # {} /\ I \in SUBSET Nat
    BY <1>2, <1>3
  <2>2. m \in I /\ \A k \in I : m <= k
    BY <2>1, MinIsLeast
  <2>3. SelectInSeq(Rest, LAMBDA t : t = Semicolon) = m
    BY <2>1 DEF SelectInSeq
  <2>4. Part = SubSeq(Rest, 1, m - 1)
    BY <1>3, <2>3 DEF Part
  <2>5. m \in 1 .. Len(Rest) /\ Rest[m] = Semicolon
    BY <2>2
  <2>6. \A j \in 1 .. m - 1 : Rest[j] # Semicolon
    <3>1. \A j \in 1 .. m - 1 : j \in 1 .. Len(Rest) /\ ~(m <= j)
      BY <1>1, <2>5
    <3>2. QED
      BY <2>2, <3>1
  <2> HIDE DEF m, I
  <2>7. /\ Part \in Seq(Tokens) /\ Len(Part) = m - 1
        /\ \A j \in 1 .. m - 1 : Part[j] = Rest[j]
    BY <1>1, <2>4, <2>5
  <2>8. cursor + Len(Part) \in 1 .. Len(Line) /\ cursor + Len(Part) = cursor + m - 1
    BY <1>1, <2>5, <2>7
  <2>9. Line[cursor + Len(Part)] = Semicolon
    BY <1>1, <2>5, <2>8
  <2>10. ASSUME NEW j \in 1 .. Len(Part)
         PROVE  /\ cursor + j - 1 \in 1 .. Len(Line)
                /\ Part[j] = Line[cursor + j - 1]
                /\ Part[j] # Semicolon
    <3>1. j \in 1 .. m - 1 /\ j \in 1 .. Len(Rest) /\ cursor + j - 1 \in 1 .. Len(Line)
      BY <1>1, <2>5, <2>7
    <3>2. QED
      BY <1>1, <2>6, <2>7, <3>1
  <2>11. QED
    BY <1>3, <2>7, <2>8, <2>9, <2>10
<1>4. CASE Semicolon \notin ToSet(Rest)
  <2>1. Part = Rest
    BY <1>4 DEF Part
  <2>2. ASSUME NEW j \in 1 .. Len(Rest)
        PROVE  cursor + j - 1 \in 1 .. Len(Line) /\ Rest[j] # Semicolon
    BY <1>1, <1>2, <1>4
  <2>3. cursor + Len(Rest) = Len(Line) + 1
    BY <1>1
  <2>4. QED
    BY <1>1, <1>4, <2>1, <2>2, <2>3
<1>5. QED
  BY <1>3, <1>4

\* Where the round after this one begins, or the line is over.
Behind == IF Semicolon \in ToSet(Rest) THEN start + cursor + Len(Part) ELSE taken

(* What a round makes of its part is what the text says there. *)
LEMMA PartInterpreted ==
  ASSUME input \in InputType, start \in Nat, taken \in Nat, LineStands,
         Line # <<Quit>>, cursor \in 1 .. Len(Line) + 1
  PROVE  /\ Interpreted(Behind) = Interpreted(start + cursor - 1) \o Command(Part)
         /\ IsEmpty(Part) => Interpreted(Behind) = Interpreted(start + cursor - 1)
         /\ Command(Part) \in Seq(Tokens)
<1> DEFINE p == start + cursor - 1
           s == Text
           r == Part
           n == Len(Part)
           F == Filtered(Text, Separators)
<1>1. /\ Line \in Seq(Tokens) /\ Len(Line) \in Nat
      /\ start + Len(Line) < Len(s)
      /\ \A j \in 1 .. Len(Line) : s[start + j] = Line[j] /\ Line[j] # Newline
      /\ s \in Seq(Tokens)
  BY ScriptOfLine DEF LineStands, EndOfLine
<1>2. /\ r \in Seq(Tokens) /\ n \in Nat
      /\ \A j \in 1 .. n : /\ cursor + j - 1 \in 1 .. Len(Line)
                           /\ r[j] = Line[cursor + j - 1]
                           /\ r[j] # Semicolon
      /\ Semicolon \in ToSet(Rest) =>
           cursor + n \in 1 .. Len(Line) /\ Line[cursor + n] = Semicolon
      /\ Semicolon \notin ToSet(Rest) => cursor + n = Len(Line) + 1
  <2>1. Line \in Seq(Tokens)
    BY <1>1
  <2> HIDE DEF p, s, F
  <2>2. QED
    BY <2>1, PartIs
<1>3. p \in Nat /\ p + n <= start + Len(Line)
  BY <1>1, <1>2
<1>4. Agrees(s, Separators, p, r, {Blank})
  <2> HIDE DEF s, r
  <2>1. ASSUME NEW j \in 1 .. n
        PROVE  s[p + j] = r[j] /\ (r[j] \in Separators <=> r[j] \in {Blank})
    <3>1. cursor + j - 1 \in 1 .. Len(Line) /\ p + j = start + (cursor + j - 1)
      BY <1>1, <1>2
    <3>2. s[p + j] = r[j] /\ r[j] # Newline /\ r[j] # Semicolon
      BY <1>1, <1>2, <3>1
    <3>3. QED
      BY <3>2 DEF Separators
  <2>2. p + n <= Len(s) /\ Len(r) = n
    BY <1>1, <1>3 DEF r
  <2>3. QED
    BY <2>1, <2>2 DEF Agrees
<1> HIDE DEF p, F
<1>5. F[p + n] = F[p] \o Command(r)
  <2> DEFINE blank == {Blank}
  <2> HIDE DEF s, r, blank
  <2>1. Agrees(s, Separators, p, r, blank)
    BY <1>4 DEF blank
  <2>2. IsJoin(Filtered(s, Separators)[p + Len(r)],
               Filtered(s, Separators)[p], Filtered(r, blank)[Len(r)])
    BY <1>1, <1>2, <1>3, <2>1, FilteredSegment
  <2>3. QED
    BY <2>2 DEF IsJoin, F, Command, s, r, blank
<1>6. F[p] \in Seq(Tokens) /\ Command(r) \in Seq(Tokens)
  <2>1. F \in [0 .. Len(s) -> Seq(Tokens)] /\ p \in 0 .. Len(s)
    BY <1>1, <1>2, <1>3, FilteredUnfolds DEF F
  <2>2. Filtered(r, {Blank}) \in [0 .. n -> Seq(Tokens)]
    BY <1>2, FilteredUnfolds
  <2>3. Filtered(r, {Blank})[n] \in Seq(Tokens)
    <3>1. n \in 0 .. n
      BY <1>2
    <3> HIDE DEF n, r
    <3>2. QED
      BY <2>2, <3>1
  <2>4. QED
    BY <2>1, <2>3 DEF Command
<1>7. IsEmpty(r) => Command(r) = <<>>
  <2>1. SUFFICES ASSUME IsEmpty(r) PROVE Command(r) = <<>>
    OBVIOUS
  <2>2. \A k \in 0 + 1 .. n : r[k] \in {Blank}
    <3> HIDE DEF r
    <3>1. \A k \in 1 .. Len(r) : r[k] \in ToSet(r)
      BY <1>2 DEF ToSet
    <3>2. ToSet(r) \subseteq {Blank}
      BY <2>1 DEF IsEmpty
    <3>3. QED
      BY <3>1, <3>2 DEF r
  <2>3. Filtered(r, {Blank})[n] = Filtered(r, {Blank})[0]
    <3> HIDE DEF r, n
    <3>1. 0 <= n /\ n <= Len(r)
      BY <1>2 DEF n, r
    <3>2. QED
      BY <1>2, <2>2, <3>1, FilteredSkips
  <2>4. Filtered(r, {Blank})[0] = <<>>
    BY <1>2, FilteredUnfolds
  <2>5. QED
    BY <2>3, <2>4 DEF Command
<1>8. F[Behind] = F[p + n]
  <2>1. CASE Semicolon \in ToSet(Rest)
    <3> DEFINE q == (p + n) + 1
    <3>1. q = start + (cursor + n) /\ p + n \in Nat /\ q = Behind
      BY <1>2, <1>3, <2>1 DEF Behind, p
    <3>2. q <= Len(s) /\ s[q] \in Separators
      BY <1>1, <1>2, <2>1, <3>1 DEF Separators
    <3> HIDE DEF q, s
    <3>3. \A k \in (p + n) + 1 .. q : s[k] \in Separators
      BY <3>1, <3>2 DEF q
    <3>4. Filtered(s, Separators)[q] = Filtered(s, Separators)[p + n]
      <4>1. q \in Nat /\ p + n <= q
        BY <3>1 DEF q
      <4> DEFINE u == p + n
      <4>2. u \in Nat /\ u <= q /\ q <= Len(s) /\ \A k \in u + 1 .. q : s[k] \in Separators
        BY <3>1, <3>2, <3>3, <4>1
      <4> HIDE DEF u
      <4>3. Filtered(s, Separators)[q] = Filtered(s, Separators)[u]
        BY <1>1, <4>1, <4>2, FilteredSkips
      <4>4. QED
        BY <4>3 DEF u
    <3>5. QED
      BY <3>1, <3>4 DEF F, s
  <2>2. CASE Semicolon \notin ToSet(Rest)
    <3>1. p + n = start + Len(Line) /\ Behind = taken
      BY <1>1, <1>2, <2>2 DEF Behind, p
    <3>2. QED
      BY <3>1, EndSays DEF Interpreted, F
  <2>3. QED
    BY <2>1, <2>2
<1>9. IsEmpty(r) => F[p + n] = F[p]
  <2>1. F[p] \o <<>> = F[p]
    BY <1>6
  <2>2. QED
    BY <1>5, <1>7, <2>1
<1>10. QED
  BY <1>5, <1>6, <1>8, <1>9 DEF Interpreted, F, p

--------------------------------------------------------------------------------
(* The invariant of the reader.                                                 *)

InLine == {"read", "line", "split"}

\* What a terminal has handed out is whole lines.
TtyByLine == input.kind = "tty" => arrived \in LineEnds \cup {0}
\* Between two lines, within one, and at the end of one.
TakenAt ==
  /\ reader \notin InLine => Boundary(taken)
  /\ reader \in InLine => Boundary(start)
  /\ reader = "read" => Unbroken(start, taken)
  /\ reader \in {"line", "split"} => LineComplete
SplitInside ==
  reader = "split" => Chars # <<>> /\ Line # <<Quit>> /\ cursor \in 1 .. Len(Line) + 1
\* Up to where the text has been interpreted.
Place == IF reader \in {"read", "line"} THEN start
         ELSE IF reader = "split" THEN start + cursor - 1 ELSE taken
SoFar == handled = Interpreted(Place)
Reading == TtyByLine /\ TakenAt /\ SplitInside /\ SoFar

(* The text is a sequence of tokens, as long as the input at least. *)
LEMMA TextIs ==
  ASSUME input \in InputType
  PROVE  /\ Text \in Seq(Tokens) /\ Len(Text) = Len(Lines(input))
         /\ Len(input.text) \in Nat /\ Len(input.text) <= Len(Text)
         /\ Interpreted(0) = <<>>
         /\ \A p \in 0 .. Len(Text) : Interpreted(p) \in Seq(Tokens)
<1> DEFINE L == Lines(input)
<1>1. L \in Seq(Tokens) /\ input.text \in Seq(Tokens)
  BY LinesAre DEF InputType
<1>2. Len(input.text) <= Len(L)
  <2>1. CASE Unended(input)
    <3>1. input.text # <<>>
      BY <2>1 DEF Unended
    <3>2. Len(Cropped(input.text)) >= Len(input.text) - 1
      BY <1>1, <3>1, CroppedIs
    <3>3. Len(L) = Len(Cropped(input.text)) + 1 /\ Cropped(input.text) \in Seq(Tokens)
      BY <1>1, <2>1, <3>1, LinesAre, CroppedIs
    <3> HIDE DEF L
    <3>4. QED
      BY <1>1, <3>2, <3>3
  <2>2. CASE ~Unended(input)
    BY <1>1, <2>2, LinesAre
  <2>3. QED
    BY <2>1, <2>2
<1>3. Text \in Seq(Tokens) /\ Len(Text) = Len(L)
  <2>1. Text = [k \in 1 .. Len(L) |-> IF k \in Quits(L) THEN Newline ELSE L[k]]
    BY DEF Text, Script
  <2>2. Newline \in Tokens
    BY DEF Tokens
  <2> HIDE DEF L
  <2>3. QED
    BY <1>1, <2>1, <2>2
<1>4. /\ Filtered(Text, Separators) \in [0 .. Len(Text) -> Seq(Tokens)]
      /\ Filtered(Text, Separators)[0] = <<>>
  BY <1>3, FilteredUnfolds
<1>5. /\ Interpreted(0) = <<>>
      /\ \A p \in 0 .. Len(Text) : Interpreted(p) \in Seq(Tokens)
  BY <1>4 DEF Interpreted
<1>6. Len(input.text) \in Nat
  BY <1>1
<1> HIDE DEF L
<1>7. QED
  BY <1>2, <1>3, <1>5, <1>6 DEF L

(* An input is of its type. *)
LEMMA InputIs == ASSUME TypeOK PROVE input \in InputType
  BY SessionAssumption DEF TypeOK

(* A step that does not read leaves the reader where it is in the text. *)
LEMMA ReadingStays ==
  ASSUME Reading, UNCHANGED <<input, readVars, handled>>,
         reader' = reader \/ (reader \notin InLine /\ reader' \notin InLine)
  PROVE  Reading'
<1>1. /\ UNCHANGED <<input, arrived, fetched, taken, start, eof, cursor, handled>>
  BY DEF readVars
<1>2. TtyByLine'
  BY <1>1 DEF Reading, TtyByLine, LineEnds
<1>3. Chars' = Chars
  BY <1>1 DEF Chars
<1>4. Line' = Line
  BY <1>1, <1>3 DEF Line
<1>5. TakenAt'
  BY <1>1 DEF Reading, TakenAt, Boundary, Unbroken, LineComplete, InLine
<1>6. SplitInside'
  BY <1>1, <1>3, <1>4 DEF Reading, SplitInside, InLine
<1>7. Place' = Place
  BY <1>1 DEF Place, InLine
<1>8. SoFar'
  <2>1. Interpreted(Place)' = Interpreted(Place)
    BY <1>1, <1>7 DEF Interpreted, Text
  <2>2. QED
    BY <1>1, <2>1 DEF Reading, SoFar
<1>9. QED
  BY <1>2, <1>5, <1>6, <1>8 DEF Reading

\* What has its type: of the input and its reading, and of all the rest.
ReadType ==
  /\ input \in Inputs
  /\ start \in Nat /\ taken \in start .. fetched /\ fetched \in 0 .. arrived
  /\ arrived \in 0 .. Len(input.text)
  /\ cursor \in 0 .. Len(input.text) + 1
  /\ eof \in BOOLEAN
  /\ handled \in Seq(Tokens)
ReaderLabels ==
  {"off", "poll", "epoll", "batch", "lock", "read", "line", "split", "exit"}
RunType ==
  /\ main \in MainLabels
  /\ reader \in ReaderLabels
  /\ due \subseteq {"stdin", "socket"}
  /\ wpc \in [Workers -> {"none", "new", "check", "park", "wait", "run", "log", "finish",
                          "dead"}]
  /\ flags \subseteq Workers
  /\ workspace \in {"none", "live", "freed"}
  /\ log \in {Nobody, "reader", "dead"}
  /\ continue \in BOOLEAN /\ missed \in BOOLEAN
  /\ remain \in Int
  /\ queue \in Nat /\ conns \in Nat /\ events \in Nat

(* The types of the input and those of the threads, one by one. *)
LEMMA Types == TypeOK <=> ReadType /\ RunType
  BY DEF TypeOK, ReadType, RunType, ReaderLabels

(* The beginning. *)
LEMMA ReadingInit == Init => TypeOK /\ Reading
<1> SUFFICES ASSUME Init PROVE TypeOK /\ Reading
  OBVIOUS
<1>1. input \in InputType /\ input \in Inputs
  BY SessionAssumption DEF Init
<1>2. Len(input.text) \in Nat
  BY <1>1, TextIs
<1>3. ReadType
  <2>1. /\ start = 0 /\ taken = 0 /\ fetched = 0 /\ cursor = 0 /\ eof = FALSE
        /\ arrived \in {0, Len(input.text)} /\ handled = <<>>
    BY DEF Init
  <2>2. <<>> \in Seq(Tokens)
    OBVIOUS
  <2>3. handled \in Seq(Tokens)
    BY <2>1, <2>2
  <2>4. arrived \in 0 .. Len(input.text) /\ fetched \in 0 .. arrived
    BY <1>2, <2>1
  <2>5. eof \in BOOLEAN
    BY DEF Init
  <2>6. start \in Nat /\ taken \in start .. fetched /\ cursor \in 0 .. Len(input.text) + 1
    BY <1>2, <2>1
  <2>7. QED
    BY <1>1, <2>3, <2>4, <2>5, <2>6 DEF ReadType
<1>4. RunType
  <2>1. wpc \in [Workers -> {"none", "new", "check", "park", "wait", "run", "log",
                             "finish", "dead"}]
    BY DEF Init
  <2>2. main \in MainLabels /\ reader \in ReaderLabels
    BY DEF Init, MainLabels, ReaderLabels
  <2>3. continue \in BOOLEAN /\ missed \in BOOLEAN
    BY DEF Init
  <2>4. /\ remain \in Int /\ queue \in Nat /\ conns \in Nat /\ events \in Nat
        /\ due \subseteq {"stdin", "socket"} /\ flags \subseteq Workers
        /\ workspace \in {"none", "live", "freed"} /\ log \in {Nobody, "reader", "dead"}
    BY DEF Init
  <2>5. QED
    BY <2>1, <2>2, <2>3, <2>4 DEF RunType
<1>5. TypeOK
  BY <1>3, <1>4, Types
<1>6. TtyByLine /\ TakenAt /\ SplitInside
  BY DEF Init, TtyByLine, TakenAt, SplitInside, InLine, Boundary
<1>7. SoFar
  BY <1>1, TextIs DEF Init, SoFar, Place
<1>8. QED
  BY <1>5, <1>6, <1>7 DEF Reading

--------------------------------------------------------------------------------
(* The steps that do not read.                                                  *)

(* They leave what is read alone, and the reader between lines or in its line.  *)
NoReading ==
  /\ UNCHANGED <<input, readVars, handled>>
  /\ reader' = reader \/ (reader \notin InLine /\ reader' \notin InLine)

(* A step that reads nothing keeps what is said of the reading. *)
LEMMA NoReadingKeeps ==
  ASSUME TypeOK, Reading, NoReading, RunType'
  PROVE  TypeOK' /\ Reading'
<1>1. ReadType'
  BY Types DEF NoReading, ReadType, readVars
<1>2. Reading'
  BY ReadingStays DEF NoReading
<1>3. TypeOK'
  BY <1>1 DEF TypeOK, ReadType, RunType, ReaderLabels
<1>4. QED
  BY <1>2, <1>3

WorkerLabels ==
  {"none", "new", "check", "park", "wait", "run", "log", "finish", "dead"}

(* Handing out work keeps the types of the workers (98-105). *)
LEMMA HandOutTypes ==
  ASSUME RunType, HandOut
  PROVE  wpc' \in [Workers -> WorkerLabels] /\ flags' \subseteq Workers /\ queue' \in Nat
<1>1. wpc \in [Workers -> WorkerLabels] /\ flags \subseteq Workers /\ queue \in Nat
  BY DEF RunType, WorkerLabels
<1>2. CASE queue' = queue + 1 /\ UNCHANGED <<flags, wpc>>
  BY <1>1, <1>2
<1>3. ASSUME NEW w \in WorkspaceCount, flags' = flags \cup {w}, wpc' = Signalled(w),
             queue' = queue
      PROVE  wpc' \in [Workers -> WorkerLabels] /\ flags' \subseteq Workers /\ queue' \in Nat
  <2>1. w \in Workers
    BY DEF WorkspaceCount
  <2>2. wpc' \in [Workers -> WorkerLabels]
    BY <1>1, <1>3, <2>1 DEF Signalled, WorkerLabels
  <2>3. QED
    BY <1>1, <1>3, <2>1, <2>2
<1>4. QED
  BY <1>2, <1>3 DEF HandOut

(* The patcher's own steps. *)
LEMMA PatcherReads ==
  ASSUME TypeOK, Test \/ Wait \/ EventStdin \/ EventSocket \/ BatchDone
  PROVE  NoReading /\ RunType'
<1>1. RunType
  BY Types
<1>2. CASE Test
  BY <1>1, <1>2 DEF Test, ReaderAt, ReaderGoes, noReader, mainVars, workVars, RunType,
     NoReading, InLine, ReaderLabels
<1>3. CASE Wait
  <2>1. due' \subseteq {"stdin", "socket"}
    BY <1>3 DEF Wait
  <2>2. QED
    BY <1>1, <1>3, <2>1 DEF Wait, ReaderAt, ReaderGoes, noReader, mainVars, workVars,
       RunType, NoReading, InLine, ReaderLabels
<1>4. CASE EventStdin
  BY <1>1, <1>4 DEF EventStdin, ReaderAt, ReaderGoes, noReader, mainVars, workVars,
     RunType, NoReading, InLine, ReaderLabels
<1>5. CASE EventSocket
  <2>1. NoReading
    BY <1>5 DEF EventSocket, NoReading
  <2>2. CASE workspace = "live"
    <3>1. /\ wpc' \in [Workers -> WorkerLabels] /\ flags' \subseteq Workers
          /\ queue' \in Nat
      BY <1>1, <1>5, <2>2, HandOutTypes DEF EventSocket, RunType, WorkerLabels
    <3>2. /\ due' \subseteq {"stdin", "socket"} /\ events' \in Nat
          /\ UNCHANGED <<main, workspace, continue, missed, reader, log, conns, remain>>
      <4>1. /\ due' = due \ {"socket"} /\ events' = events + 1
            /\ UNCHANGED <<main, workspace, continue, missed, reader, log, conns, remain>>
        BY <1>5, <2>2 DEF EventSocket
      <4>2. due \subseteq {"stdin", "socket"} /\ events \in Nat
        BY <1>1 DEF RunType
      <4>3. QED
        BY <4>1, <4>2
    <3>3. QED
      BY <1>1, <2>1, <3>1, <3>2 DEF RunType, WorkerLabels
  <2>3. CASE workspace # "live"
    BY <1>1, <1>5, <2>1, <2>3 DEF EventSocket, RunType, MainLabels
  <2>4. QED
    BY <2>2, <2>3
<1>6. CASE BatchDone
  BY <1>1, <1>6 DEF BatchDone, ReaderAt, ReaderGoes, noReader, mainVars, workVars,
     RunType, NoReading, InLine, ReaderLabels
<1>7. QED
  BY <1>2, <1>3, <1>4, <1>5, <1>6

(* The steps of a worker. *)
LEMMA WorkerReads ==
  ASSUME TypeOK, NEW w \in Workers, WorkerMoves(w) \/ Run(w) \/ SpuriousWake(w)
  PROVE  NoReading /\ RunType'
<1>1. RunType /\ wpc \in [Workers -> WorkerLabels]
  BY Types DEF RunType, WorkerLabels
<1>2. \A l \in WorkerLabels : WorkerGoes(w, l) => wpc' \in [Workers -> WorkerLabels]
  BY <1>1 DEF WorkerGoes
<1>3. CASE Begin(w)
  <2>1. WorkerGoes(w, "check") /\ main' \in MainLabels
    BY <1>1, <1>3 DEF Begin, RunType, MainLabels
  <2>2. QED
    BY <1>1, <1>2, <1>3, <2>1 DEF Begin, workVars, RunType, WorkerLabels, NoReading
<1>4. CASE Park(w)
  <2>1. WorkerGoes(w, "wait") /\ main' \in MainLabels
    BY <1>1, <1>4 DEF Park, RunType, MainLabels
  <2>2. QED
    BY <1>1, <1>2, <1>4, <2>1 DEF Park, workVars, RunType, WorkerLabels, NoReading
<1>5. CASE Check(w) \/ SpuriousWake(w) \/ Run(w) \/ Log(w) \/ Cancelled(w)
  <2>1. \E l \in WorkerLabels : WorkerGoes(w, l)
    BY <1>5 DEF Check, SpuriousWake, Run, Log, Cancelled, WorkerLabels
  <2>2. UNCHANGED noWorker /\ log' \in {Nobody, "reader", "dead"}
    BY <1>1, <1>5 DEF Check, SpuriousWake, Run, Log, Cancelled, RunType
  <2>3. QED
    BY <1>1, <1>2, <2>1, <2>2 DEF noWorker, mainVars, workVars, RunType, WorkerLabels,
       NoReading
<1>6. CASE Finish(w)
  <2>1. NoReading /\ UNCHANGED <<workspace, reader, due, log, events>>
    BY <1>6 DEF Finish, NoReading
  <2>2. /\ main' \in MainLabels /\ remain' \in Int /\ conns' \in Nat
        /\ continue' \in BOOLEAN /\ missed' \in BOOLEAN
    <3>1. PICK closed \in BOOLEAN :
            /\ closed => conns > 0
            /\ conns' = conns - (IF closed THEN 1 ELSE 0)
            /\ IF closed /\ input.kind = "file"
                 THEN /\ remain' = remain - 1
                      /\ continue' = (continue \/ remain' # 0)
                      /\ main' = SignalledMain
                      /\ missed' = (main = "park")
                 ELSE UNCHANGED <<main, remain, continue, missed>>
      BY <1>6 DEF Finish
    <3>2. conns' \in Nat
      BY <1>1, <3>1 DEF RunType
    <3>3. CASE closed /\ input.kind = "file"
      <4>1. main' \in MainLabels
        BY <1>1, <3>1, <3>3 DEF RunType, SignalledMain, MainLabels
      <4>2. remain' \in Int
        BY <1>1, <3>1, <3>3 DEF RunType
      <4>3. continue' \in BOOLEAN /\ missed' \in BOOLEAN
        BY <3>1, <3>3
      <4>4. QED
        BY <3>2, <4>1, <4>2, <4>3
    <3>4. CASE ~(closed /\ input.kind = "file")
      BY <1>1, <3>1, <3>2, <3>4 DEF RunType
    <3>5. QED
      BY <3>3, <3>4
  <2>3. wpc' \in [Workers -> WorkerLabels] /\ flags' \subseteq Workers /\ queue' \in Nat
    <3>1. \/ queue > 0 /\ queue' = queue - 1 /\ WorkerGoes(w, "run") /\ flags' = flags
          \/ queue' = queue /\ WorkerGoes(w, "check") /\ flags' = flags \ {w}
      BY <1>6 DEF Finish
    <3>2. queue' \in Nat /\ flags' \subseteq Workers
      BY <1>1, <3>1 DEF RunType
    <3>3. \E l \in WorkerLabels : WorkerGoes(w, l)
      BY <3>1 DEF WorkerLabels
    <3>4. QED
      BY <1>2, <3>2, <3>3
  <2>4. QED
    BY <1>1, <2>1, <2>2, <2>3 DEF RunType, WorkerLabels
<1>7. QED
  BY <1>3, <1>4, <1>5, <1>6 DEF WorkerMoves

(* The steps of the main thread. *)
LEMMA MainReads ==
  ASSUME TypeOK, Phases, MainMoves \/ StartFails \/ MainWakes
  PROVE  NoReading /\ RunType'
<1>1. RunType /\ (main \in {"init", "create"} => reader = "off")
  BY Types DEF Phases, Unstarted
<1>2. ASSUME NEW from \in MainLabels, NEW to \in MainLabels, MainGoes(from, to)
      PROVE  NoReading /\ RunType'
  BY <1>1, <1>2 DEF MainGoes, MainAt, noMain, workVars, NoReading, RunType
<1>3. CASE StartFails
  BY <1>1, <1>2, <1>3 DEF StartFails, MainLabels
<1>4. CASE CountWorkspace \/ TestContinue \/ WaitContinue \/ MainWakes \/ Announce
             \/ JoinPatcher \/ CancelWorkers \/ JoinWorkers \/ Exit
  BY <1>2, <1>4 DEF CountWorkspace, TestContinue, WaitContinue, MainWakes, Announce,
     JoinPatcher, CancelWorkers, JoinWorkers, Exit, MainLabels
<1>5. CASE InputInit
  BY <1>1, <1>5 DEF InputInit, MainAt, workVars, NoReading, RunType, MainLabels,
     ReaderLabels, InLine
<1>6. CASE CreatePatcher
  BY <1>1, <1>6 DEF CreatePatcher, MainAt, workVars, NoReading, RunType, MainLabels,
     ReaderLabels, InLine
<1>7. CASE AllocWorkspace \/ Destroy
  BY <1>1, <1>7 DEF AllocWorkspace, Destroy, workVars, NoReading, RunType, MainLabels
<1>8. CASE SpawnWorkers
  <2>1. wpc' \in [Workers -> WorkerLabels]
    BY <1>8 DEF SpawnWorkers, WorkerLabels
  <2>2. QED
    BY <1>1, <1>8, <2>1 DEF SpawnWorkers, workVars, NoReading, RunType, MainLabels,
       WorkerLabels
<1>9. QED
  BY <1>3, <1>4, <1>5, <1>6, <1>7, <1>8 DEF MainMoves

--------------------------------------------------------------------------------
(* The steps that read.                                                         *)

(* What the user types leaves the reader where it is; a terminal gives lines.   *)
LEMMA TypeReads ==
  ASSUME TypeOK, Reading, Type
  PROVE  TypeOK' /\ Reading'
<1>1. UNCHANGED <<mainVars, reader, due, wpc, log, input, fetched, taken, start, eof,
                  cursor, workVars, handled>>
  BY DEF Type
<1>2. arrived' \in arrived + 1 .. Len(input.text)
      /\ (input.kind = "tty" => arrived' \in LineEnds)
  BY DEF Type
<1>3. Len(input.text) \in Nat /\ arrived \in 0 .. Len(input.text)
  BY InputIs, TextIs DEF TypeOK
<1>4. TypeOK'
  <2>1. arrived' \in 0 .. Len(input.text) /\ fetched \in 0 .. arrived'
    BY <1>2, <1>3 DEF TypeOK
  <2>2. ReadType'
    BY <1>1, <2>1, Types DEF ReadType
  <2>3. RunType'
    BY <1>1, Types DEF RunType, mainVars, workVars
  <2>4. QED
    BY <2>2, <2>3 DEF TypeOK, ReadType, RunType, ReaderLabels
<1>5. TtyByLine'
  BY <1>1, <1>2 DEF TtyByLine, LineEnds
<1>6. Chars' = Chars
  BY <1>1 DEF Chars
<1>7. Line' = Line
  BY <1>1, <1>6 DEF Line
<1>8. TakenAt' /\ SplitInside'
  BY <1>1, <1>6, <1>7 DEF Reading, TakenAt, SplitInside, Boundary, Unbroken,
     LineComplete, InLine
<1>9. SoFar'
  <2>1. Place' = Place
    BY <1>1 DEF Place
  <2>2. Interpreted(Place)' = Interpreted(Place)
    BY <1>1, <2>1 DEF Interpreted, Text
  <2>3. QED
    BY <1>1, <2>2 DEF Reading, SoFar
<1>10. QED
  BY <1>4, <1>5, <1>8, <1>9 DEF Reading

(* What stdio reads from a terminal is up to the next line's end that has       *)
(* arrived.                                                                     *)
LEMMA RefillIs ==
  ASSUME TypeOK, TtyByLine, fetched < arrived
  PROVE  Refill \in fetched + 1 .. arrived
<1>1. arrived \in Nat /\ fetched \in Nat
  BY InputIs, TextIs DEF TypeOK
<1>2. CASE input.kind = "tty"
  <2> DEFINE S == {k \in LineEnds : k > fetched}
  <2>1. arrived \in S
    BY <1>1, <1>2 DEF TtyByLine
  <2>2. S \in SUBSET Nat
    BY DEF LineEnds
  <2>3. PICK m \in S : \A k \in S : m <= k
    BY <2>1, <2>2, NatLeast
  <2>4. \E n \in LineEnds : n > fetched /\ \A k \in LineEnds : k > fetched => n <= k
    BY <2>3
  <2>5. /\ Refill \in LineEnds /\ Refill > fetched
        /\ \A k \in LineEnds : k > fetched => Refill <= k
    BY <1>2, <2>4 DEF Refill
  <2>6. Refill \in Nat /\ Refill <= arrived
    BY <2>1, <2>5 DEF LineEnds
  <2>7. QED
    BY <1>1, <2>5, <2>6
<1>3. CASE input.kind # "tty"
  BY <1>1, <1>3 DEF Refill
<1>4. QED
  BY <1>2, <1>3

(* A step between or within lines that interprets nothing: what it leaves is    *)
(* said of the new place in the text.                                           *)
LEMMA PlaceMoves ==
  ASSUME Reading, input' = input, handled' = handled,
         TtyByLine', TakenAt', SplitInside', Interpreted(Place') = Interpreted(Place)
  PROVE  Reading'
<1>1. Interpreted(Place)' = Interpreted(Place')
  BY DEF Interpreted, Text
<1>2. QED
  BY <1>1 DEF Reading, SoFar

(* The mutex of the log is taken, and a line begins (193). *)
LEMMA LockReads ==
  ASSUME TypeOK, Reading, LockInput
  PROVE  TypeOK' /\ Reading'
<1>1. /\ reader = "lock" /\ reader' = "read" /\ start' = taken /\ log' = "reader"
      /\ UNCHANGED <<mainVars, due, wpc, input, arrived, fetched, taken, eof, cursor,
                     workVars, handled>>
  BY DEF LockInput, ReaderAt, ReaderGoes
<1>2. Len(input.text) \in Nat
  BY InputIs, TextIs
<1>3. TypeOK'
  <2>1. start' \in Nat /\ taken' \in start' .. fetched'
    BY <1>1, <1>2 DEF TypeOK
  <2>2. ReadType'
    BY <1>1, <2>1, Types DEF ReadType
  <2>3. RunType'
    BY <1>1, Types DEF RunType, ReaderLabels, mainVars, workVars
  <2>4. QED
    BY <2>2, <2>3 DEF TypeOK, ReadType, RunType, ReaderLabels
<1>4. TtyByLine'
  BY <1>1 DEF Reading, TtyByLine, LineEnds
<1>5. Boundary(taken)
  BY <1>1 DEF Reading, TakenAt, InLine
<1>6. TakenAt'
  <2>1. Boundary(start)' /\ Unbroken(start, taken)'
    <3>1. taken + 1 .. taken = {}
      BY <1>2 DEF TypeOK
    <3>2. QED
      BY <1>1, <1>5, <3>1 DEF Boundary, Unbroken
  <2>2. QED
    BY <1>1, <2>1 DEF TakenAt, InLine
<1>7. SplitInside' /\ Place' = Place
  BY <1>1 DEF SplitInside, Place
<1>8. QED
  BY <1>1, <1>3, <1>4, <1>6, <1>7, PlaceMoves

(* A character is read; a newline ends the line (196-200). *)
LEMMA ReadCharReads ==
  ASSUME TypeOK, Reading, ReadChar
  PROVE  TypeOK' /\ Reading'
<1>1. /\ reader = "read" /\ taken < arrived /\ taken' = taken + 1 /\ eof' = FALSE
      /\ fetched' = (IF taken < fetched THEN fetched ELSE Refill)
      /\ IF input.text[taken'] = Newline
           THEN log' = Nobody /\ reader' = "line"
           ELSE UNCHANGED <<log, reader>>
      /\ UNCHANGED <<mainVars, due, wpc, input, arrived, start, cursor, workVars, handled>>
  BY DEF ReadChar, ReaderAt, ReaderGoes
<1>2. /\ Len(input.text) \in Nat /\ start \in Nat /\ taken \in start .. fetched
      /\ fetched \in 0 .. arrived /\ arrived \in 0 .. Len(input.text)
  BY InputIs, TextIs DEF TypeOK
<1>3. fetched' \in taken + 1 .. arrived
  <2>1. CASE taken < fetched
    BY <1>1, <1>2, <2>1
  <2>2. CASE ~(taken < fetched)
    <3>1. fetched < arrived /\ fetched = taken
      BY <1>1, <1>2, <2>2
    <3>2. Refill \in fetched + 1 .. arrived
      BY <3>1, RefillIs DEF Reading
    <3>3. QED
      BY <1>1, <2>2, <3>1, <3>2
  <2>3. QED
    BY <2>1, <2>2
<1>4. TypeOK'
  <2>1. taken' = taken + 1 /\ start' = start /\ arrived' = arrived /\ eof' \in BOOLEAN
    BY <1>1
  <2>2. ReadType'
    <3>1. taken' \in start' .. fetched' /\ fetched' \in 0 .. arrived'
      BY <1>2, <1>3, <2>1
    <3>2. QED
      BY <1>1, <2>1, <3>1, Types DEF ReadType
  <2>3. RunType'
    BY <1>1, Types DEF RunType, ReaderLabels, mainVars, workVars
  <2>4. QED
    BY <2>2, <2>3 DEF TypeOK, ReadType, RunType, ReaderLabels
<1>5. TtyByLine'
  BY <1>1 DEF Reading, TtyByLine, LineEnds
<1>6. Boundary(start) /\ Unbroken(start, taken)
  BY <1>1 DEF Reading, TakenAt, InLine
<1>7. TakenAt'
  <2>1. Boundary(start)'
    BY <1>1, <1>6 DEF Boundary
  <2>2. CASE input.text[taken'] = Newline
    <3>1. taken' - 1 = taken /\ taken' > start
      BY <1>1, <1>2
    <3>2. LineComplete'
      BY <1>1, <1>6, <2>2, <3>1 DEF LineComplete, Unbroken
    <3>3. QED
      BY <1>1, <2>1, <2>2, <3>2 DEF TakenAt, InLine
  <2>3. CASE input.text[taken'] # Newline
    <3>1. \A k \in start + 1 .. taken + 1 : k \in start + 1 .. taken \/ k = taken + 1
      BY <1>2
    <3>2. Unbroken(start, taken)'
      BY <1>1, <1>6, <2>3, <3>1 DEF Unbroken
    <3>3. QED
      BY <1>1, <2>1, <2>3, <3>2 DEF TakenAt, InLine
  <2>4. QED
    BY <2>2, <2>3
<1>8. SplitInside' /\ Place' = Place
  BY <1>1 DEF SplitInside, Place
<1>9. QED
  BY <1>1, <1>4, <1>5, <1>7, <1>8, PlaceMoves

(* The end of the input ends the line as well (203). *)
LEMMA ReadEofReads ==
  ASSUME TypeOK, Reading, ReadEof
  PROVE  TypeOK' /\ Reading'
<1>1. /\ reader = "read" /\ reader' = "line" /\ eof' = TRUE /\ log' = Nobody
      /\ input.closed /\ arrived = Len(input.text) /\ taken = arrived
      /\ UNCHANGED <<mainVars, due, wpc, input, arrived, fetched, taken, start, cursor,
                     workVars, handled>>
  BY DEF ReadEof, ReaderAt, ReaderGoes, AtEnd
<1>2. TypeOK'
  <2>1. ReadType'
    BY <1>1, Types DEF ReadType
  <2>2. RunType'
    BY <1>1, Types DEF RunType, ReaderLabels, mainVars, workVars
  <2>3. QED
    BY <2>1, <2>2 DEF TypeOK, ReadType, RunType, ReaderLabels
<1>3. TtyByLine'
  BY <1>1 DEF Reading, TtyByLine, LineEnds
<1>4. Boundary(start) /\ Unbroken(start, taken)
  BY <1>1 DEF Reading, TakenAt, InLine
<1>5. TakenAt'
  BY <1>1, <1>4 DEF TakenAt, InLine, LineComplete, Unbroken, Boundary
<1>6. SplitInside' /\ Place' = Place
  BY <1>1 DEF SplitInside, Place
<1>7. QED
  BY <1>1, <1>2, <1>3, <1>5, <1>6, PlaceMoves

(* After a line the reader is between two lines, and in no line.                *)
LEMMA BetweenLines ==
  ASSUME TypeOK, LineComplete, UNCHANGED <<input, taken>>, reader' \notin InLine
  PROVE  TakenAt'
<1>1. Boundary(taken)
  BY DEF LineComplete, Boundary
<1>2. QED
  BY <1>1 DEF TakenAt, Boundary, InLine

(* A line that quits, one with something in it, and an empty one.               *)
LEMMA LineReadReads ==
  ASSUME TypeOK, Reading, LineRead
  PROVE  TypeOK' /\ Reading'
<1>1. /\ reader = "line"
      /\ UNCHANGED <<workspace, due, wpc, log, input, arrived, fetched, taken, start, eof,
                     workVars, handled>>
  BY DEF LineRead, ReaderAt
<1>2. \/ /\ Line = <<Quit>> /\ continue' = TRUE /\ InputReturns(SignalledMain)
         /\ missed' = (main = "park") /\ cursor' = cursor
      \/ /\ Line # <<Quit>> /\ Len(Chars) > (IF eof THEN 0 ELSE 1)
         /\ reader' = "split" /\ cursor' = 1 /\ UNCHANGED <<main, continue, missed>>
      \/ /\ Line # <<Quit>> /\ Len(Chars) = (IF eof THEN 0 ELSE 1)
         /\ reader' = "lock" /\ UNCHANGED <<main, continue, missed, cursor>>
  BY DEF LineRead, ReaderGoes
<1>3. /\ input \in InputType /\ start \in Nat /\ taken \in start .. Len(input.text)
      /\ Len(input.text) \in Nat /\ taken \in Nat
  BY InputIs, TextIs DEF TypeOK
<1>4. Boundary(start) /\ LineComplete
  BY <1>1 DEF Reading, TakenAt, InLine
<1>5. Chars # <<>> => LineStands
  BY <1>3, <1>4, LineIs
<1>6. Chars \in Seq(Tokens) /\ Len(Chars) = taken - start
  <2>1. input.text \in Seq(Tokens)
    BY <1>3 DEF InputType
  <2>2. QED
    BY <1>3, <2>1 DEF Chars
<1>7. ~eof => Chars # <<>>
  <2>1. SUFFICES ASSUME ~eof PROVE taken - start # 0
    BY <1>6
  <2>2. QED
    BY <1>3, <1>4, <2>1 DEF LineComplete
<1>8. TypeOK'
  <2>1. cursor' \in 0 .. Len(input.text) + 1
    BY <1>2, <1>3 DEF TypeOK
  <2>2. ReadType'
    BY <1>1, <2>1, Types DEF ReadType
  <2>3. /\ reader' \in ReaderLabels /\ main' \in MainLabels
        /\ continue' \in BOOLEAN /\ missed' \in BOOLEAN
    <3>1. main \in MainLabels /\ continue \in BOOLEAN /\ missed \in BOOLEAN
      BY DEF TypeOK
    <3>2. CASE InputReturns(SignalledMain) /\ continue' = TRUE /\ missed' = (main = "park")
      BY <3>1, <3>2 DEF InputReturns, ReaderGoes, SignalledMain, MainLabels, ReaderLabels
    <3>3. CASE reader' \in {"split", "lock"} /\ UNCHANGED <<main, continue, missed>>
      BY <3>1, <3>3 DEF ReaderLabels
    <3>4. QED
      BY <1>2, <3>2, <3>3
  <2>4. RunType'
    BY <1>1, <2>3, Types DEF RunType, workVars
  <2>5. QED
    BY <2>2, <2>4 DEF TypeOK, ReadType, RunType, ReaderLabels
<1>9. TtyByLine'
  BY <1>1 DEF Reading, TtyByLine, LineEnds
<1>10. Place = start
  BY <1>1 DEF Place
<1>11. CASE Line = <<Quit>>
  <2>1. reader' \in {"off", "batch"}
    BY <1>2, <1>11 DEF InputReturns, ReaderGoes
  <2>2. Chars # <<>>
    <3>1. SUFFICES ASSUME Chars = <<>> PROVE FALSE
      OBVIOUS
    <3>2. Line = <<>>
      BY <1>7, <3>1 DEF Line
    <3>3. QED
      BY <1>11, <3>2
  <2>3. LineStands
    BY <1>5, <2>2
  <2>4. /\ Text \in Seq(Tokens) /\ Len(Text) = Len(Lines(input))
        /\ Text[start + 1] = Newline /\ Len(Line) = 1
    BY <1>3, <1>11, <2>3, ScriptOfLine
  <2>5. Interpreted(start + 1) = Interpreted(start)
    <3> DEFINE s == Text
               q == start + 1
    <3>1. /\ s \in Seq(Tokens) /\ q \in Nat /\ start <= q /\ q <= Len(s)
          /\ \A k \in start + 1 .. q : s[k] \in Separators
      <4>1. start + Len(Line) + 1 <= Len(Text)
        BY <2>3, <2>4 DEF LineStands, EndOfLine
      <4>2. q <= Len(s)
        BY <1>3, <2>4, <4>1
      <4>3. QED
        BY <1>3, <2>4, <4>2 DEF Separators
    <3> HIDE DEF s, q
    <3>2. Filtered(s, Separators)[q] = Filtered(s, Separators)[start]
      BY <1>3, <3>1, FilteredSkips
    <3>3. QED
      BY <3>2 DEF Interpreted, s, q
  <2>6. Interpreted(taken) = Interpreted(start)
    BY <1>3, <2>3, <2>4, <2>5, EndSays
  <2>7. Place' = taken /\ SplitInside'
    BY <1>1, <2>1 DEF Place, SplitInside
  <2>8. TakenAt'
    BY <1>1, <1>4, <2>1, BetweenLines DEF InLine
  <2>9. QED
    BY <1>1, <1>8, <1>9, <1>10, <2>6, <2>7, <2>8, PlaceMoves
<1>12. CASE reader' = "split" /\ cursor' = 1 /\ Line # <<Quit>>
              /\ Len(Chars) > (IF eof THEN 0 ELSE 1)
  <2>1. Chars # <<>>
    BY <1>6, <1>12
  <2>2. Line \in Seq(Tokens)
    BY <1>5, <2>1 DEF LineStands
  <2>3. SplitInside'
    <3>1. Chars' = Chars
      BY <1>1 DEF Chars
    <3>2. Line' = Line
      BY <1>1, <3>1 DEF Line
    <3>3. 1 \in 1 .. Len(Line) + 1
      BY <2>2
    <3>4. QED
      BY <1>12, <2>1, <3>1, <3>2, <3>3 DEF SplitInside
  <2>4. TakenAt'
    BY <1>1, <1>4, <1>12 DEF TakenAt, Boundary, LineComplete, Unbroken, InLine
  <2>5. Place' = Place
    <3>1. Place' = start + 1 - 1
      BY <1>1, <1>12 DEF Place
    <3>2. QED
      BY <1>3, <1>10, <3>1
  <2>6. QED
    BY <1>1, <1>8, <1>9, <2>3, <2>4, <2>5, PlaceMoves
<1>13. CASE reader' = "lock" /\ Line # <<Quit>> /\ Len(Chars) = (IF eof THEN 0 ELSE 1)
  <2>1. Interpreted(taken) = Interpreted(start)
    <3>1. CASE eof
      BY <1>3, <1>6, <1>13, <3>1
    <3>2. CASE ~eof
      <4>1. Line = Front(Chars) /\ Len(Chars) = 1
        BY <1>13, <3>2 DEF Line
      <4>2. Len(Line) = 0
        BY <1>6, <4>1 DEF Front
      <4>3. LineStands
        BY <1>5, <1>7, <3>2
      <4>4. start + Len(Line) = start
        BY <1>3, <4>2
      <4>5. QED
        BY <1>3, <4>3, <4>4, EndSays
    <3>3. QED
      BY <3>1, <3>2
  <2>2. Place' = taken /\ SplitInside'
    BY <1>1, <1>13 DEF Place, SplitInside
  <2>3. TakenAt'
    BY <1>1, <1>4, <1>13, BetweenLines DEF InLine
  <2>4. QED
    BY <1>1, <1>8, <1>9, <1>10, <2>1, <2>2, <2>3, PlaceMoves
<1>14. QED
  BY <1>2, <1>11, <1>12, <1>13

(* One round of interprete_multiple_commands, whatever becomes of its command.  *)
LEMMA RoundReads ==
  ASSUME TypeOK, Reading, reader = "split", NextPart,
         UNCHANGED <<input, arrived, fetched, taken, start, eof>>,
         handled' = handled \o Command(Part) \/ (IsEmpty(Part) /\ handled' = handled)
  PROVE  ReadType' /\ Reading' /\ reader' \in ReaderLabels /\ main' \in MainLabels
<1>1. /\ input \in InputType /\ start \in Nat /\ taken \in start .. Len(input.text)
      /\ Len(input.text) \in Nat /\ taken \in Nat
  BY InputIs, TextIs DEF TypeOK
<1>2. /\ Boundary(start) /\ LineComplete
      /\ Chars # <<>> /\ Line # <<Quit>> /\ cursor \in 1 .. Len(Line) + 1
  BY DEF Reading, TakenAt, SplitInside, InLine
<1>3. LineStands
  BY <1>1, <1>2, LineIs
<1>4. Line \in Seq(Tokens) /\ start + Len(Line) <= taken
  BY <1>1, <1>3 DEF LineStands, EndOfLine
<1>5. /\ Interpreted(Behind) = Interpreted(start + cursor - 1) \o Command(Part)
      /\ IsEmpty(Part) => Interpreted(Behind) = Interpreted(start + cursor - 1)
      /\ Command(Part) \in Seq(Tokens)
  BY <1>1, <1>2, <1>3, PartInterpreted
<1>6. handled = Interpreted(start + cursor - 1)
  BY DEF Reading, SoFar, Place
<1>7. handled' = Interpreted(Behind)
  BY <1>5, <1>6
<1>8. /\ Part \in Seq(Tokens)
      /\ Semicolon \in ToSet(Rest) => cursor + Len(Part) \in 1 .. Len(Line)
  BY <1>2, <1>4, PartIs
<1>9. \/ /\ Semicolon \in ToSet(Rest) /\ cursor' = cursor + Len(Part) + 1
         /\ UNCHANGED <<main, reader>>
      \/ Semicolon \notin ToSet(Rest) /\ cursor' = 0 /\ InputReturns(main)
  BY DEF NextPart
<1>10. /\ reader' \in ReaderLabels /\ main' \in MainLabels
       /\ cursor' \in 0 .. Len(Line) + 1
  <2>1. reader' \in ReaderLabels /\ main' \in MainLabels
    BY <1>9 DEF InputReturns, ReaderGoes, TypeOK, ReaderLabels, MainLabels
  <2>2. cursor \in Nat /\ Len(Part) \in Nat /\ Len(Line) \in Nat
    BY <1>2, <1>4, <1>8
  <2>3. cursor' \in 0 .. Len(Line) + 1
    BY <1>8, <1>9, <2>2
  <2>4. QED
    BY <2>1, <2>3
<1>11. ReadType'
  <2>1. handled' \in Seq(Tokens)
    <3>1. handled \in Seq(Tokens)
      BY DEF TypeOK
    <3>2. handled \o Command(Part) \in Seq(Tokens)
      BY <1>5, <3>1
    <3>3. QED
      BY <3>1, <3>2
  <2>2. cursor' \in 0 .. Len(input.text) + 1
    BY <1>1, <1>4, <1>10
  <2>3. QED
    BY <2>1, <2>2, Types DEF ReadType
<1>12. Chars' = Chars
  BY DEF Chars
<1>13. Line' = Line
  BY <1>12 DEF Line
<1>14. TtyByLine'
  BY DEF Reading, TtyByLine, LineEnds
<1>15. CASE Semicolon \in ToSet(Rest)
  <2>1. reader' = "split" /\ cursor' = cursor + Len(Part) + 1
    BY <1>9, <1>15
  <2>2. TakenAt'
    BY <1>2, <2>1 DEF TakenAt, Boundary, LineComplete, Unbroken, InLine
  <2>3. SplitInside'
    <3>1. cursor' \in 1 .. Len(Line) + 1
      BY <1>2, <1>4, <1>8, <1>15, <2>1
    <3>2. QED
      BY <1>2, <1>12, <1>13, <3>1 DEF SplitInside
  <2>4. Place' = Behind
    <3>1. Place' = start + (cursor + Len(Part) + 1) - 1
      BY <2>1 DEF Place
    <3>2. QED
      BY <1>1, <1>2, <1>8, <1>15, <3>1 DEF Behind
  <2>5. SoFar'
    <3>1. Interpreted(Place)' = Interpreted(Place')
      BY DEF Interpreted, Text
    <3>2. QED
      BY <1>7, <2>4, <3>1 DEF SoFar
  <2>6. QED
    BY <1>10, <1>11, <1>14, <2>2, <2>3, <2>5 DEF Reading
<1>16. CASE Semicolon \notin ToSet(Rest)
  <2>1. reader' \in {"off", "batch"}
    BY <1>9, <1>16 DEF InputReturns, ReaderGoes
  <2>2. TakenAt'
    BY <1>2, <2>1, BetweenLines DEF InLine
  <2>3. SplitInside' /\ Place' = Behind
    BY <1>16, <2>1 DEF SplitInside, Place, Behind
  <2>4. SoFar'
    <3>1. Interpreted(Place)' = Interpreted(Place')
      BY DEF Interpreted, Text
    <3>2. QED
      BY <1>7, <2>3, <3>1 DEF SoFar
  <2>5. QED
    BY <1>10, <1>11, <1>14, <2>2, <2>3, <2>4 DEF Reading
<1>17. QED
  BY <1>15, <1>16

(* A round skips its part, or refuses or accepts the command in it. *)
LEMMA SplitReads ==
  ASSUME TypeOK, Reading, SkipEmpty \/ Refuse \/ Accept
  PROVE  TypeOK' /\ Reading'
<1>1. RunType
  BY Types
<1>2. ASSUME RunType', ReadType' PROVE TypeOK'
  BY <1>2 DEF TypeOK, ReadType, RunType, ReaderLabels
<1>3. CASE SkipEmpty
  <2>1. /\ reader = "split" /\ IsEmpty(Part) /\ NextPart
        /\ UNCHANGED <<workspace, continue, missed, due, wpc, log, input, arrived,
                       fetched, taken, start, eof, workVars, handled>>
    BY <1>3 DEF SkipEmpty, ReaderAt
  <2>2. ReadType' /\ Reading' /\ reader' \in ReaderLabels /\ main' \in MainLabels
    BY <2>1, RoundReads
  <2>3. RunType'
    BY <1>1, <2>1, <2>2 DEF RunType, workVars
  <2>4. QED
    BY <1>2, <2>2, <2>3
<1>4. CASE Refuse
  <2>1. /\ reader = "split" /\ NextPart /\ handled' = handled \o Command(Part)
        /\ UNCHANGED <<workspace, continue, missed, due, wpc, log, input, arrived,
                       fetched, taken, start, eof, workVars>>
    BY <1>4 DEF Refuse, ReaderAt
  <2>2. ReadType' /\ Reading' /\ reader' \in ReaderLabels /\ main' \in MainLabels
    BY <2>1, RoundReads
  <2>3. RunType'
    BY <1>1, <2>1, <2>2 DEF RunType, workVars
  <2>4. QED
    BY <1>2, <2>2, <2>3
<1>5. CASE Accept
  <2>1. /\ reader = "split"
        /\ UNCHANGED <<workspace, continue, missed, due, log, input, arrived, fetched,
                       taken, start, eof, events>>
    BY <1>5 DEF Accept, ReaderAt
  <2>2. CASE /\ NextPart /\ handled' = handled \o Command(Part)
             /\ conns' = conns + 1 /\ remain' = remain + 1 /\ HandOut
    <3>1. ReadType' /\ Reading' /\ reader' \in ReaderLabels /\ main' \in MainLabels
      BY <2>1, <2>2, RoundReads
    <3>2. /\ wpc' \in [Workers -> WorkerLabels] /\ flags' \subseteq Workers
          /\ queue' \in Nat
      BY <1>1, <2>2, HandOutTypes
    <3>3. conns' \in Nat /\ remain' \in Int
      <4>1. conns \in Nat /\ remain \in Int
        BY <1>1 DEF RunType
      <4>2. QED
        BY <2>2, <4>1
    <3>4. RunType'
      BY <1>1, <2>1, <3>1, <3>2, <3>3 DEF RunType, WorkerLabels
    <3>5. QED
      BY <1>2, <3>1, <3>4
  <2>3. CASE /\ main' = "crashed"
             /\ UNCHANGED <<reader, cursor, handled, conns, remain, flags, wpc, queue>>
    <3>1. NoReading
      BY <2>1, <2>3 DEF NoReading, readVars
    <3>2. main' \in MainLabels
      BY <2>3 DEF MainLabels
    <3>3. RunType'
      BY <1>1, <2>1, <2>3, <3>2 DEF RunType
    <3>4. QED
      BY <3>1, <3>3, NoReadingKeeps
  <2>4. QED
    BY <1>5, <2>2, <2>3 DEF Accept
<1>6. QED
  BY <1>3, <1>4, <1>5

--------------------------------------------------------------------------------
(* The theorems.                                                                *)

ReadingInv == TypeOK /\ Reading

(* TypeOK and Reading are kept by every step. *)
LEMMA ReadingStep ==
  ASSUME ReadingInv, Phases, [Next]_vars
  PROVE  ReadingInv'
<1> USE DEF ReadingInv
<1>1. CASE UNCHANGED vars
  <2>1. NoReading
    BY <1>1 DEF vars, NoReading, readVars
  <2>2. RunType'
    BY <1>1, Types DEF vars, mainVars, workVars, RunType
  <2>3. QED
    BY <2>1, <2>2, NoReadingKeeps
<1>2. CASE Type
  BY <1>2, TypeReads
<1>3. CASE Test \/ Wait \/ EventStdin \/ EventSocket \/ BatchDone
  BY <1>3, PatcherReads, NoReadingKeeps
<1>4. CASE InputHandling
  BY <1>4, LockReads, ReadCharReads, ReadEofReads, LineReadReads, SplitReads
     DEF InputHandling
<1>5. ASSUME NEW w \in Workers, WorkerMoves(w) \/ Run(w) \/ SpuriousWake(w)
      PROVE  ReadingInv'
  BY <1>5, WorkerReads, NoReadingKeeps
<1>6. CASE MainMoves \/ StartFails \/ MainWakes
  BY <1>6, MainReads, NoReadingKeeps
<1>7. QED
  BY <1>1, <1>2, <1>3, <1>4, <1>5, <1>6 DEF Next, Reader

(* The reader is where the text says it is, and has interpreted what stands     *)
(* before: the inductive invariant.                                             *)
THEOREM ReadingKept == Spec => []ReadingInv
<1>1. ReadingInv /\ Phases /\ [Next]_vars => ReadingInv'
  BY ReadingStep
<1>2. Init => ReadingInv
  BY ReadingInit DEF ReadingInv
<1>3. QED
  BY <1>1, <1>2, PhasesKept, PTL DEF Spec

(* Every variable of the session has its type; among it, that stdio never hands *)
(* out what the kernel does not have, and that the cursor of                    *)
(* interprete_multiple_commands stays in the line.                              *)
THEOREM TypeCorrect == Spec => []TypeOK
<1>1. ReadingInv => TypeOK
  BY DEF ReadingInv
<1>2. QED
  BY <1>1, ReadingKept, PTL

(* Whatever way the characters come in, the commands interpreted so far are the *)
(* first ones typed, each once and in order.                                    *)
THEOREM CommandsTakenInOrder == Spec => []TakenInOrder
<1>1. ReadingInv => TakenInOrder
  <2> SUFFICES ASSUME ReadingInv PROVE TakenInOrder
    OBVIOUS
  <2>1. /\ input \in InputType /\ start \in Nat /\ taken \in start .. Len(input.text)
        /\ Len(input.text) \in Nat /\ taken \in Nat
    BY InputIs, TextIs DEF ReadingInv, TypeOK
  <2>2. Place \in 0 .. Len(Text)
    <3>1. CASE reader = "split"
      <4>1. /\ Boundary(start) /\ LineComplete
            /\ Chars # <<>> /\ cursor \in 1 .. Len(Line) + 1
        BY <3>1 DEF ReadingInv, Reading, TakenAt, SplitInside, InLine
      <4>2. LineStands
        BY <2>1, <4>1, LineIs
      <4>3. Line \in Seq(Tokens) /\ start + Len(Line) + 1 <= Len(Text)
        BY <2>1, <4>2, ScriptOfLine DEF LineStands, EndOfLine
      <4>4. Place = start + cursor - 1
        BY <3>1 DEF Place
      <4>5. QED
        BY <2>1, <4>1, <4>3, <4>4
    <3>2. CASE reader # "split"
      <4>1. Place \in {start, taken}
        BY <3>2 DEF Place
      <4>2. Len(input.text) <= Len(Text) /\ Text \in Seq(Tokens)
        BY <2>1, TextIs
      <4>3. QED
        BY <2>1, <4>1, <4>2
    <3>3. QED
      BY <3>1, <3>2
  <2>3. Text \in Seq(Tokens) /\ Len(Text) = Len(Lines(input))
    BY <2>1, TextIs
  <2>4. IsPrefix(Interpreted(Place), Interpreted(Len(Text)))
    <3> DEFINE s == Text
               p == Place
    <3>1. s \in Seq(Tokens) /\ p \in 0 .. Len(s)
      BY <2>2, <2>3
    <3> HIDE DEF s, p
    <3>2. IsPrefix(Filtered(s, Separators)[p], Filtered(s, Separators)[Len(s)])
      BY <3>1, FilteredPrefix, Zenon
    <3>3. QED
      BY <3>2 DEF s, p, Interpreted
  <2>5. Intended(input) = Interpreted(Len(Text))
    BY <2>3 DEF Intended, Interpreted, Text, Separators
  <2>6. handled = Interpreted(Place)
    BY DEF ReadingInv, Reading, SoFar
  <2>7. QED
    BY <2>4, <2>5, <2>6 DEF TakenInOrder
<1>2. QED
  BY <1>1, ReadingKept, PTL
=================================================================================
