---------------------------- MODULE EventQueueProofs ----------------------------
(* Proofs about EventQueue for every array size, every set of events and every  *)
(* bound on the outstanding events.                                             *)
EXTENDS EventQueue, SequenceTheorems, TLAPS

(* An index below the size of the array is its own remainder. *)
LEMMA WrapBelow ==
  ASSUME NEW n \in Nat \ {0}, NEW a \in 0 .. n - 1
  PROVE  a % n = a
  OBVIOUS

(* An index in the second lap wraps to the first. *)
LEMMA WrapAbove ==
  ASSUME NEW n \in Nat \ {0}, NEW a \in n .. 2 * n - 1
  PROVE  a % n = a - n
  OBVIOUS

(* A remainder is an index of the array. *)
LEMMA WrapType ==
  ASSUME NEW n \in Nat \ {0}, NEW a \in Nat
  PROVE  a % n \in 0 .. n - 1
  OBVIOUS

(* Moving the start index one on moves every element one nearer to it. *)
LEMMA WrapStep ==
  ASSUME NEW n \in Nat \ {0}, NEW s \in 0 .. n - 1, NEW k \in 1 .. n
  PROVE  (((s + 1) % n) + (k - 1)) % n = (s + k) % n
<1>1. CASE s + 1 < n
  <2>1. (s + 1) % n = s + 1
    BY <1>1, WrapBelow
  <2>2. QED
    BY <2>1
<1>2. CASE s + 1 = n
  <2>1. (s + 1) % n = 0
    BY <1>2, WrapAbove
  <2>2. (s + k) % n = k - 1
    <3>1. s + k \in n .. 2 * n - 1 /\ s + k - n = k - 1
      BY <1>2
    <3>2. QED
      BY <3>1, WrapAbove
  <2>3. (k - 1) % n = k - 1
    BY WrapBelow
  <2>4. QED
    BY <2>1, <2>2, <2>3
<1>3. QED
  BY <1>1, <1>2

(* Two elements of the queue lie at different places of the array. *)
LEMMA WrapDistinct ==
  ASSUME NEW n \in Nat \ {0}, NEW s \in 0 .. n - 1,
         NEW j \in 0 .. n - 1, NEW k \in 0 .. n - 1, j # k
  PROVE  (s + j) % n # (s + k) % n
<1>1. ASSUME NEW m \in 0 .. n - 1
      PROVE  (s + m) % n = IF s + m < n THEN s + m ELSE s + m - n
  <2>1. CASE s + m < n
    BY <2>1, WrapBelow
  <2>2. CASE s + m >= n
    <3>1. s + m \in n .. 2 * n - 1
      BY <2>2
    <3>2. QED
      BY <2>2, <3>1, WrapAbove
  <2>3. QED
    BY <2>1, <2>2
<1>2. (s + j) % n = IF s + j < n THEN s + j ELSE s + j - n
  BY <1>1
<1>3. (s + k) % n = IF s + k < n THEN s + k ELSE s + k - n
  BY <1>1
<1>4. QED
  BY <1>2, <1>3

--------------------------------------------------------------------------------
(* The types hold of every behaviour, also when the ring overflows. *)
THEOREM TypeCorrect == Spec => []TypeOK
<1> USE QueueAssumption
<1>0. 0 \in Index /\ 0 \in 0 .. Outstanding
  BY DEF QueueAssumption, Index
<1>1. Init => TypeOK
  BY <1>0 DEF Init, TypeOK
<1>2. TypeOK /\ [Next]_vars => TypeOK'
  <2> SUFFICES ASSUME TypeOK, [Next]_vars
               PROVE  TypeOK'
    OBVIOUS
  <2> USE DEF TypeOK, searchVars, ringVars, history
  <2>1. ASSUME NEW e \in Event, Enqueue(e)
        PROVE  TypeOK'
    <3>1. ring' \in [Index -> Event \cup {NoEvent}]
      BY <2>1 DEF Enqueue
    <3>2. QED
      BY <2>1, <3>1 DEF Enqueue
  <2>2. CASE TakeEvent
    <3>1. start % QueueMax \in Index
      BY WrapType DEF Index
    <3>2. stayed' \in BOOLEAN
      BY <2>2 DEF TakeEvent
    <3>3. QED
      BY <2>2, <3>1, <3>2 DEF TakeEvent
  <2>9. CASE AdvanceStart
    <3>1. (start + 1) % QueueMax \in Index
      BY WrapType DEF Index
    <3>2. torn' \in BOOLEAN
      BY <2>9 DEF AdvanceStart
    <3>3. QED
      BY <2>9, <3>1, <3>2 DEF AdvanceStart
  <2>3. ASSUME NEW e \in Event, SearchCount(e)
        PROVE  TypeOK'
    <3>1. had' \in BOOLEAN /\ stayed' \in BOOLEAN /\ torn' \in BOOLEAN
      BY <2>3 DEF SearchCount, Queued
    <3>2. QED
      BY <2>3, <3>1 DEF SearchCount
  <2>4. CASE SearchStart
    BY <2>4 DEF SearchStart
  <2>5. CASE SearchLoop
    BY <2>5 DEF SearchLoop, Bound
  <2>6. CASE SearchReturn
    BY <1>0, <2>6 DEF SearchReturn
  <2>7. CASE UNCHANGED vars
    BY <2>7 DEF vars
  <2>8. QED
    BY <2>1, <2>2, <2>3, <2>4, <2>5, <2>6, <2>7, <2>9 DEF Next
<1>3. QED
  BY <1>1, <1>2, PTL DEF Spec

--------------------------------------------------------------------------------
(* The oldest event not taken is at an index of the array, and stays there when *)
(* the start index catches up with it.                                          *)
LEMMA OldestType ==
  ASSUME TypeOK
  PROVE  Oldest \in Index
<1>1. start \in Index /\ (start + 1) % QueueMax \in Index
  BY QueueAssumption, WrapType DEF TypeOK, Index
<1>2. QED
  BY <1>1 DEF Oldest

(* The content of the ring as the abstract queue's sequence. *)
LEMMA ContentType ==
  ASSUME TypeOK
  PROVE  /\ Content \in Seq(Event \cup {NoEvent})
         /\ Len(Content) = count
         /\ \A k \in 1 .. count : Content[k] = ring[(Oldest + (k - 1)) % QueueMax]
<1> USE QueueAssumption DEF TypeOK
<1>1. \A k \in 1 .. count : (Oldest + (k - 1)) % QueueMax \in Index
  <2>1. Oldest \in Nat
    BY OldestType DEF Index
  <2>2. QED
    BY <2>1, WrapType DEF Index
<1>2. \A k \in 1 .. count : ring[(Oldest + (k - 1)) % QueueMax] \in Event \cup {NoEvent}
  BY <1>1
<1>3. Content \in [1 .. count -> Event \cup {NoEvent}]
  BY <1>2 DEF Content
<1>4. count \in Nat
  OBVIOUS
<1>5. QED
  BY <1>3, <1>4 DEF Content

(* Putting an event in, while there is room, is the abstract Put. *)
LEMMA EnqueuePuts ==
  ASSUME TypeOK, TypeOK', Outstanding <= QueueMax,
         NEW e \in Event, Enqueue(e)
  PROVE  FifoQueue!Put(e)
<1> USE QueueAssumption DEF TypeOK
<1>1. /\ count < QueueMax /\ count' = count + 1 /\ start' = start
      /\ Oldest = start /\ Oldest' = start
  BY DEF Enqueue, searchVars, Oldest
<1>2. (start + count) % QueueMax \in Index
  BY WrapType DEF Index
<1>3. \A k \in 1 .. count : ring'[(start + (k - 1)) % QueueMax]
                              = ring[(start + (k - 1)) % QueueMax]
  <2> TAKE k \in 1 .. count
  <2>1. k - 1 \in 0 .. QueueMax - 1 /\ count \in 0 .. QueueMax - 1 /\ k - 1 # count
    BY <1>1
  <2>2. (start + (k - 1)) % QueueMax # (start + count) % QueueMax
    BY <2>1, WrapDistinct DEF Index
  <2>3. (start + (k - 1)) % QueueMax \in Index
    BY WrapType DEF Index
  <2>4. QED
    BY <2>2, <2>3 DEF Enqueue
<1>4. ring'[(start + count) % QueueMax] = e
  BY <1>2 DEF Enqueue
<1>5. Content' = Append(Content, e)
  <2>1. \A k \in 1 .. count + 1 :
           Content'[k] = IF k = count + 1 THEN e ELSE Content[k]
    <3>1. \A k \in 1 .. count + 1 :
             Content'[k] = ring'[(start + (k - 1)) % QueueMax]
      BY <1>1 DEF Content
    <3>2. \A k \in 1 .. count : Content[k] = ring[(start + (k - 1)) % QueueMax]
      BY <1>1, ContentType
    <3>3. \A k \in 1 .. count : Content'[k] = Content[k]
      BY <1>3, <3>1, <3>2
    <3>4. Content'[count + 1] = e
      <4>1. count + 1 \in 1 .. count + 1 /\ (count + 1) - 1 = count
        OBVIOUS
      <4>2. QED
        BY <1>4, <3>1, <4>1
    <3>5. \A k \in 1 .. count + 1 : k = count + 1 \/ k \in 1 .. count
      OBVIOUS
    <3>6. QED
      BY <3>3, <3>4, <3>5
  <2>2. Content' = [k \in 1 .. count + 1 |->
                      IF k = count + 1 THEN e ELSE Content[k]]
    BY <2>1, <1>1 DEF Content
  <2>3. Content' \in [1 .. count + 1 -> Event \cup {NoEvent}]
    BY <2>2, ContentType
  <2>4. Content' \in Seq(Event \cup {NoEvent}) /\ Len(Content') = count + 1
    BY <2>3
  <2>5. /\ Append(Content, e) \in Seq(Event \cup {NoEvent})
        /\ Len(Append(Content, e)) = count + 1
        /\ \A k \in 1 .. count : Append(Content, e)[k] = Content[k]
        /\ Append(Content, e)[count + 1] = e
    BY ContentType, AppendProperties
  <2>6. \A k \in 1 .. count + 1 : Content'[k] = Append(Content, e)[k]
    BY <2>1, <2>5
  <2>7. QED
    BY <2>4, <2>5, <2>6, SeqEqual
<1>6. taken' = taken
  BY DEF Enqueue
<1>7. QED
  BY <1>5, <1>6 DEF FifoQueue!Put

(* Lowering the count takes the oldest event: the abstract Take.                *)
LEMMA DequeueTakes ==
  ASSUME TypeOK, TypeOK', Outstanding <= QueueMax, TakeEvent
  PROVE  /\ FifoQueue!Take
         /\ \A k \in 1 .. count - 1 :
               ring'[(Oldest' + (k - 1)) % QueueMax] = ring[(Oldest + k) % QueueMax]
<1> USE QueueAssumption DEF TypeOK
<1>1. /\ count \in 1 .. QueueMax
      /\ count' = count - 1
      /\ Oldest = start
      /\ Oldest' = (start + 1) % QueueMax
      /\ ring' = ring
      /\ taken' = ring[start % QueueMax]
  BY DEF TakeEvent, Oldest
<1>2. Content # <<>>
  BY <1>1, ContentType
<1>3. taken' = Head(Content)
  <2>1. Head(Content) = Content[1]
    BY <1>2, ContentType
  <2>2. 1 \in 1 .. count /\ start + (1 - 1) = start
    BY <1>1 DEF Index
  <2>3. QED
    BY <1>1, <2>1, <2>2, ContentType
<1>6. \A k \in 1 .. count - 1 :
         ring'[(Oldest' + (k - 1)) % QueueMax] = ring[(Oldest + k) % QueueMax]
  <2> TAKE k \in 1 .. count - 1
  <2>1. (((start + 1) % QueueMax) + (k - 1)) % QueueMax = (start + k) % QueueMax
    <3>1. k \in 1 .. QueueMax /\ start \in 0 .. QueueMax - 1
      BY <1>1 DEF Index
    <3>2. QED
      BY <3>1, WrapStep
  <2>2. QED
    BY <1>1, <2>1
<1>4. Content' = Tail(Content)
  <2>1. \A k \in 1 .. count - 1 :
           ring'[(Oldest' + (k - 1)) % QueueMax] = Content[k + 1]
    <3> TAKE k \in 1 .. count - 1
    <3>1. k + 1 \in 1 .. count /\ (k + 1) - 1 = k
      BY <1>1
    <3>4. Content[k + 1] = ring[(Oldest + ((k + 1) - 1)) % QueueMax]
      BY <3>1, ContentType
    <3>5. Content[k + 1] = ring[(Oldest + k) % QueueMax]
      BY <3>1, <3>4
    <3>6. QED
      BY <1>6, <3>5
  <2>2. Content' = [k \in 1 .. count - 1 |-> Content[k + 1]]
    BY <1>1, <2>1 DEF Content
  <2>3. Content' \in [1 .. count - 1 -> Event \cup {NoEvent}]
    BY <1>1, <2>2, ContentType
  <2>4. Content' \in Seq(Event \cup {NoEvent}) /\ Len(Content') = count - 1
    BY <1>1, <2>3
  <2>5. /\ Tail(Content) \in Seq(Event \cup {NoEvent})
        /\ Len(Tail(Content)) = count - 1
        /\ \A k \in 1 .. count - 1 : Tail(Content)[k] = Content[k + 1]
    BY <1>2, ContentType, HeadTailProperties
  <2>6. \A k \in 1 .. count - 1 : Content'[k] = Tail(Content)[k]
    BY <2>2, <2>5
  <2>7. QED
    BY <2>4, <2>5, <2>6, SeqEqual
<1>5. QED
  BY <1>1, <1>2, <1>3, <1>4, <1>6 DEF FifoQueue!Take

(* Moving the start index on changes nothing of what is queued. *)
LEMMA AdvanceKeeps ==
  ASSUME TypeOK, AdvanceStart
  PROVE  Oldest' = Oldest /\ UNCHANGED <<ring, count, taken>>
BY DEF AdvanceStart, Oldest

(* With no more events outstanding than the array has elements, the ring is a   *)
(* first-in first-out queue.                                                    *)
THEOREM RingIsFifo ==
  ASSUME Outstanding <= QueueMax
  PROVE  Spec => ImplementsFifo
<1> USE QueueAssumption
<1>1. Init => FifoQueue!Init
  BY DEF Init, FifoQueue!Init, Content, Oldest
<1>2. TypeOK /\ TypeOK' /\ [Next]_vars => [FifoQueue!Next]_(FifoQueue!vars)
  <2> SUFFICES ASSUME TypeOK, TypeOK', [Next]_vars
               PROVE  [FifoQueue!Next]_(FifoQueue!vars)
    OBVIOUS
  <2>1. ASSUME NEW e \in Event, Enqueue(e)
        PROVE  FifoQueue!Next
    BY <2>1, EnqueuePuts DEF FifoQueue!Next
  <2>2. CASE TakeEvent
    BY <2>2, DequeueTakes DEF FifoQueue!Next
  <2>8. CASE AdvanceStart
    BY <2>8, AdvanceKeeps DEF Content, FifoQueue!vars
  <2>3. CASE UNCHANGED ringVars
    BY <2>3 DEF ringVars, Content, Oldest, FifoQueue!vars
  <2>4. ASSUME NEW e \in Event, SearchCount(e)
        PROVE  UNCHANGED ringVars
    BY <2>4 DEF SearchCount
  <2>5. SearchStart \/ SearchLoop \/ SearchReturn => UNCHANGED ringVars
    BY DEF SearchStart, SearchLoop, SearchReturn
  <2>6. UNCHANGED vars => UNCHANGED ringVars
    BY DEF vars
  <2>7. QED
    BY <2>1, <2>2, <2>3, <2>4, <2>5, <2>6, <2>8 DEF Next
<1>3. QED
  BY <1>1, <1>2, TypeCorrect, PTL DEF Spec, ImplementsFifo, FifoQueue!Spec
--------------------------------------------------------------------------------
(* What a dequeue leaves is what was queued before it. *)
LEMMA DequeueAddsNothing ==
  ASSUME TypeOK, TypeOK', Outstanding <= QueueMax, TakeEvent, NEW e, Queued(e)'
  PROVE  Queued(e)
<1>1. count \in Nat /\ count' = count - 1
  BY DEF TypeOK, TakeEvent
<1>2. PICK j \in 0 .. count' - 1 : ring'[(Oldest' + j) % QueueMax] = e
  BY DEF Queued
<1>3. j + 1 \in 1 .. count - 1 /\ (j + 1) - 1 = j
  BY <1>1
<1>4. ring[(Oldest + (j + 1)) % QueueMax] = e
  BY <1>2, <1>3, DequeueTakes
<1>5. j + 1 \in 0 .. count - 1
  BY <1>3
<1>6. QED
  BY <1>4, <1>5 DEF Queued

(* Moving the start index on leaves every event queued that was. *)
LEMMA AdvanceKeepsQueued ==
  ASSUME TypeOK, AdvanceStart, NEW e
  PROVE  Queued(e)' <=> Queued(e)
BY AdvanceKeeps DEF Queued

(* Where the queued events lie, seen from the start index. *)
LEMMA PlaceFromStart ==
  ASSUME TypeOK, Outstanding <= QueueMax, NEW k \in 0 .. count - 1
  PROVE  (Oldest + k) % QueueMax =
           (start + (IF dequeuing THEN k + 1 ELSE k)) % QueueMax
<1> USE QueueAssumption
<1>1. CASE dequeuing
  <2>1. k + 1 \in 1 .. QueueMax /\ start \in 0 .. QueueMax - 1 /\ (k + 1) - 1 = k
    BY DEF TypeOK, Index
  <2>2. (((start + 1) % QueueMax) + ((k + 1) - 1)) % QueueMax
          = (start + (k + 1)) % QueueMax
    BY <2>1, WrapStep
  <2>3. QED
    BY <1>1, <2>1, <2>2 DEF Oldest
<1>2. CASE ~dequeuing
  BY <1>2 DEF Oldest
<1>3. QED
  BY <1>1, <1>2

(* A key that is still queued lies in the part of the array that the search has *)
(* yet to read, or just behind it when the search began in the middle of a      *)
(* dequeue.                                                                     *)
MissInv ==
  /\ search = "start" /\ torn => dequeuing /\ count = cnt
  /\ search = "start" /\ ~torn => count + (IF dequeuing THEN 1 ELSE 0) <= cnt
  /\ search = "start" /\ stayed => Queued(key)
  /\ search = "loop" /\ stayed =>
       \E k \in idx .. cnt : /\ ring[(first + k) % QueueMax] = key
                             /\ k = cnt => torn
  /\ MissesTheYoungest

(* The search of epoll_queue_have_sockfd misses nothing that stays queued but   *)
(* the youngest event, and that only in the middle of a dequeue.                *)
THEOREM SnapshotSearchMissesTheYoungest ==
  ASSUME Outstanding <= QueueMax
  PROVE  Spec => []MissesTheYoungest
<1> USE QueueAssumption
<1>1. Init => MissInv
  BY DEF Init, MissInv, MissesTheYoungest
<1>2. TypeOK /\ TypeOK' /\ MissInv /\ [Next]_vars => MissInv'
  <2> SUFFICES ASSUME TypeOK, TypeOK', MissInv, [Next]_vars
               PROVE  MissInv'
    OBVIOUS
  <2> USE DEF MissesTheYoungest, searchVars, ringVars, history
  <2>1. ASSUME NEW e \in Event, Enqueue(e)
        PROVE  MissInv'
    BY <2>1 DEF Enqueue, MissInv
  <2>2. CASE TakeEvent
    <3>1. /\ UNCHANGED <<snapshot, ring, search, key, cnt, first, idx, torn>>
          /\ ~dequeuing /\ dequeuing' /\ count' = count - 1 /\ count \in Nat /\ cnt \in Nat
      BY <2>2 DEF TakeEvent, TypeOK
    <3>2. stayed' => stayed /\ Queued(key)'
      BY <2>2 DEF TakeEvent
    <3>3. (search = "start" /\ torn => dequeuing /\ count = cnt)'
      BY <3>1 DEF MissInv
    <3>4. (search = "start" /\ ~torn => count + (IF dequeuing THEN 1 ELSE 0) <= cnt)'
      BY <3>1 DEF MissInv
    <3>5. (search = "start" /\ stayed => Queued(key))'
      BY <3>2
    <3>6. QED
      BY <3>1, <3>2, <3>3, <3>4, <3>5 DEF MissInv
  <2>8. CASE AdvanceStart
    <3>1. /\ UNCHANGED <<snapshot, ring, count, search, key, cnt, first, idx, stayed>>
          /\ dequeuing /\ ~dequeuing' /\ count \in Nat /\ cnt \in Nat
          /\ search = "start" => ~torn'
          /\ search # "start" => torn' = torn
      BY <2>8 DEF AdvanceStart, TypeOK
    <3>2. Queued(key)' <=> Queued(key)
      <4>1. \A e : Queued(e)' <=> Queued(e)
        BY <2>8, AdvanceKeepsQueued
      <4>2. Queued(key)' <=> \E k \in 0 .. count' - 1 : ring'[(Oldest' + k) % QueueMax] = key
        BY <3>1 DEF Queued
      <4>3. QED
        BY <4>1, <4>2 DEF Queued
    <3>3. (search = "start" /\ torn => dequeuing /\ count = cnt)'
      BY <3>1
    <3>4. (search = "start" /\ ~torn => count + (IF dequeuing THEN 1 ELSE 0) <= cnt)'
      BY <3>1 DEF MissInv
    <3>5. (search = "start" /\ stayed => Queued(key))'
      BY <3>1, <3>2 DEF MissInv
    <3>6. (search = "loop" /\ stayed =>
             \E k \in idx .. cnt : /\ ring[(first + k) % QueueMax] = key
                                   /\ k = cnt => torn)'
      BY <3>1 DEF MissInv
    <3>7. MissesTheYoungest'
      BY <3>1 DEF MissInv
    <3>8. QED
      BY <3>3, <3>4, <3>5, <3>6, <3>7 DEF MissInv
  <2>3. ASSUME NEW e \in Event, SearchCount(e)
        PROVE  MissInv'
    <3>1. /\ search' = "start" /\ cnt' = count /\ torn' = dequeuing
          /\ count' = count /\ dequeuing' = dequeuing
      BY <2>3 DEF SearchCount
    <3>2. stayed' => Queued(key)'
      BY <2>3 DEF SearchCount, Queued, Oldest
    <3>3. count \in Nat
      BY DEF TypeOK
    <3>4. QED
      BY <3>1, <3>2, <3>3 DEF MissInv
  <2>4. CASE SearchStart
    <3>1. /\ search = "start" /\ search' = "loop" /\ first' = start /\ idx' = 0
          /\ UNCHANGED <<ring, cnt, key, stayed, torn>>
      BY <2>4 DEF SearchStart
    <3>2. ASSUME stayed
          PROVE  \E k \in 0 .. cnt : /\ ring[(start + k) % QueueMax] = key
                                     /\ k = cnt => torn
      <4>1. PICK k \in 0 .. count - 1 : ring[(Oldest + k) % QueueMax] = key
        BY <3>1, <3>2 DEF MissInv, Queued
      <4>2. count \in Nat /\ cnt \in Nat
        BY DEF TypeOK
      <4>3. ring[(start + (IF dequeuing THEN k + 1 ELSE k)) % QueueMax] = key
        BY <4>1, PlaceFromStart
      <4>4. CASE dequeuing
        <5>1. k + 1 \in 0 .. cnt /\ (k + 1 = cnt => torn)
          BY <3>1, <4>1, <4>2, <4>4 DEF MissInv
        <5>2. QED
          BY <4>3, <4>4, <5>1
      <4>5. CASE ~dequeuing
        <5>1. k \in 0 .. cnt - 1
          BY <3>1, <4>1, <4>2, <4>5 DEF MissInv
        <5>2. QED
          BY <4>2, <4>3, <4>5, <5>1
      <4>6. QED
        BY <4>4, <4>5
    <3>3. QED
      BY <3>1, <3>2 DEF MissInv
  <2>5. CASE SearchLoop
    <3>0. /\ search = "loop" /\ UNCHANGED <<snapshot, ring, count, dequeuing, key, cnt, first, stayed, torn>>
          /\ idx \in Nat /\ cnt \in Nat
      BY <2>5 DEF SearchLoop, TypeOK
    <3>1. CASE idx >= Bound
      <4>1. search' = "miss" /\ idx' = idx
        BY <2>5, <3>1, <3>0 DEF SearchLoop, Bound, TypeOK
      <4>2. ASSUME snapshot, stayed
            PROVE  torn /\ ring[(first + cnt) % QueueMax] = key
        <5>1. PICK k \in idx .. cnt : /\ ring[(first + k) % QueueMax] = key
                                      /\ k = cnt => torn
          BY <3>0, <4>2 DEF MissInv
        <5>2. k = cnt
          BY <3>0, <3>1, <4>2, <5>1 DEF Bound
        <5>3. QED
          BY <5>1, <5>2
      <4>3. QED
        BY <3>0, <4>1, <4>2 DEF MissInv
    <3>2. CASE idx < Bound /\ ring[(first + idx) % QueueMax] = key
      <4>1. search' = "hit"
        BY <2>5, <3>2, <3>0 DEF SearchLoop, Bound, TypeOK
      <4>2. QED
        BY <4>1 DEF MissInv
    <3>3. CASE idx < Bound /\ ring[(first + idx) % QueueMax] # key
      <4>1. idx' = idx + 1 /\ search' = "loop"
        BY <2>5, <3>3, <3>0 DEF SearchLoop, Bound, TypeOK
      <4>2. ASSUME stayed
            PROVE  \E k \in idx + 1 .. cnt : /\ ring[(first + k) % QueueMax] = key
                                             /\ k = cnt => torn
        <5>1. PICK k \in idx .. cnt : /\ ring[(first + k) % QueueMax] = key
                                      /\ k = cnt => torn
          BY <3>0, <4>2 DEF MissInv
        <5>2. k # idx
          BY <3>3, <5>1
        <5>3. k \in idx + 1 .. cnt
          BY <3>0, <5>2
        <5>4. QED
          BY <5>1, <5>3
      <4>3. QED
        BY <3>0, <4>1, <4>2 DEF MissInv
    <3>4. QED
      BY <2>5, <3>1, <3>2, <3>3 DEF SearchLoop
  <2>6. CASE SearchReturn
    BY <2>6 DEF SearchReturn, MissInv
  <2>7. CASE UNCHANGED vars
    BY <2>7 DEF vars, MissInv, Queued, Oldest
  <2>9. QED
    BY <2>1, <2>2, <2>3, <2>4, <2>5, <2>6, <2>7, <2>8 DEF Next
<1>3. MissInv => MissesTheYoungest
  BY DEF MissInv
<1>4. QED
  BY <1>1, <1>2, <1>3, TypeCorrect, PTL DEF Spec

(* What is left to read of the array holds the key only if it was queued when   *)
(* the search began, or was being taken then.                                   *)
HitInv ==
  /\ search = "start" /\ Queued(key) => had
  /\ search = "start" /\ dequeuing /\ ring[start] = key => had
  /\ search = "loop" =>
       \A k \in idx .. count - 1 : ring[(first + k) % QueueMax] = key => had
  /\ NoStaleHit

(* The search of conn_queue_have_conn_index reports nothing whose dequeue was   *)
(* over before it began.                                                        *)
THEOREM LiveSearchIsSound ==
  ASSUME Outstanding <= QueueMax
  PROVE  Spec => []NoStaleHit
<1> USE QueueAssumption
<1>1. Init => HitInv
  BY DEF Init, HitInv, NoStaleHit
<1>2. TypeOK /\ TypeOK' /\ HitInv /\ [Next]_vars => HitInv'
  <2> SUFFICES ASSUME TypeOK, TypeOK', HitInv, [Next]_vars
               PROVE  HitInv'
    OBVIOUS
  <2> USE DEF NoStaleHit, searchVars, ringVars, history
  <2>1. ASSUME NEW e \in Event, Enqueue(e)
        PROVE  HitInv'
    BY <2>1 DEF Enqueue, HitInv
  <2>2. CASE TakeEvent
    <3>1. /\ UNCHANGED <<snapshot, ring, start, search, key, cnt, first, idx, had>>
          /\ ~dequeuing /\ count' = count - 1 /\ count \in Nat \ {0}
      BY <2>2 DEF TakeEvent, TypeOK
    <3>2. (search = "start" /\ Queued(key) => had)'
      <4>1. \A e : Queued(e)' => Queued(e)
        BY <2>2, DequeueAddsNothing
      <4>2. Queued(key)' <=> \E k \in 0 .. count' - 1 : ring'[(Oldest' + k) % QueueMax] = key
        BY <3>1 DEF Queued
      <4>3. Queued(key)' => Queued(key)
        BY <4>1, <4>2 DEF Queued
      <4>4. QED
        BY <3>1, <4>3 DEF HitInv
    <3>3. (search = "start" /\ dequeuing /\ ring[start] = key => had)'
      <4>1. ring[start] = key => Queued(key)
        <5>1. start % QueueMax = start /\ start + 0 = start /\ Oldest = start
          BY <3>1, WrapBelow DEF TypeOK, Index, Oldest
        <5>2. 0 \in 0 .. count - 1
          BY <3>1
        <5>3. QED
          BY <5>1, <5>2 DEF Queued
      <4>2. QED
        BY <3>1, <4>1 DEF HitInv
    <3>4. (search = "loop" =>
             \A k \in idx .. count - 1 : ring[(first + k) % QueueMax] = key => had)'
      BY <3>1 DEF HitInv
    <3>5. QED
      BY <3>1, <3>2, <3>3, <3>4 DEF HitInv
  <2>8. CASE AdvanceStart
    <3>1. UNCHANGED <<snapshot, ring, count, search, key, cnt, first, idx, had>> /\ ~dequeuing'
      BY <2>8 DEF AdvanceStart
    <3>2. Queued(key)' <=> Queued(key)
      <4>1. \A e : Queued(e)' <=> Queued(e)
        BY <2>8, AdvanceKeepsQueued
      <4>2. Queued(key)' <=> \E k \in 0 .. count' - 1 : ring'[(Oldest' + k) % QueueMax] = key
        BY <3>1 DEF Queued
      <4>3. QED
        BY <4>1, <4>2 DEF Queued
    <3>3. QED
      BY <3>1, <3>2 DEF HitInv
  <2>3. ASSUME NEW e \in Event, SearchCount(e)
        PROVE  HitInv'
    <3>1. Queued(key)' => had'
      BY <2>3 DEF SearchCount, Queued, Oldest
    <3>2. dequeuing' /\ ring'[start'] = key' => had'
      BY <2>3 DEF SearchCount
    <3>3. search' = "start"
      BY <2>3 DEF SearchCount
    <3>4. QED
      BY <3>1, <3>2, <3>3 DEF HitInv
  <2>4. CASE SearchStart
    <3>1. /\ search = "start" /\ search' = "loop" /\ first' = start /\ idx' = 0
          /\ UNCHANGED <<ring, count, key, had>>
      BY <2>4 DEF SearchStart
    <3>2. ASSUME NEW k \in 0 .. count - 1, ring[(start + k) % QueueMax] = key
          PROVE  had
      <4>1. CASE ~dequeuing
        BY <3>1, <3>2, <4>1 DEF HitInv, Queued, Oldest
      <4>2. CASE dequeuing /\ k = 0
        <5>0. start \in 0 .. QueueMax - 1
          BY DEF TypeOK, Index
        <5>1. start % QueueMax = start /\ start + 0 = start
          BY <5>0, WrapBelow
        <5>2. QED
          BY <3>1, <3>2, <4>2, <5>1 DEF HitInv
      <4>3. CASE dequeuing /\ k # 0
        <5>1. k - 1 \in 0 .. count - 1 /\ (k - 1) + 1 = k
          BY <3>2, <4>3 DEF TypeOK
        <5>2. (Oldest + (k - 1)) % QueueMax = (start + k) % QueueMax
          BY <4>3, <5>1, PlaceFromStart
        <5>3. QED
          BY <3>1, <3>2, <5>1, <5>2 DEF HitInv, Queued
      <4>4. QED
        BY <4>1, <4>2, <4>3
    <3>3. QED
      BY <3>1, <3>2 DEF HitInv
  <2>5. CASE SearchLoop
    <3>0. /\ search = "loop" /\ UNCHANGED <<snapshot, ring, start, count, dequeuing, key, cnt, first, had>>
          /\ idx \in Nat /\ count \in Nat
      BY <2>5 DEF SearchLoop, TypeOK
    <3>1. CASE idx >= Bound
      <4>1. search' = "miss"
        BY <2>5, <3>1, <3>0 DEF SearchLoop, Bound, TypeOK
      <4>2. QED
        BY <4>1 DEF HitInv
    <3>2. CASE idx < Bound /\ ring[(first + idx) % QueueMax] = key
      <4>1. ~snapshot => idx \in idx .. count - 1
        BY <3>0, <3>2 DEF Bound
      <4>2. ~snapshot => had
        BY <3>0, <3>2, <4>1 DEF HitInv
      <4>3. search' = "hit"
        BY <2>5, <3>2, <3>0 DEF SearchLoop, Bound, TypeOK
      <4>4. QED
        BY <3>0, <4>2, <4>3 DEF HitInv
    <3>3. CASE idx < Bound /\ ring[(first + idx) % QueueMax] # key
      <4>1. idx' = idx + 1 /\ search' = "loop"
        BY <2>5, <3>3, <3>0 DEF SearchLoop, Bound, TypeOK
      <4>2. QED
        BY <3>0, <4>1 DEF HitInv
    <3>4. QED
      BY <2>5, <3>1, <3>2, <3>3 DEF SearchLoop
  <2>6. CASE SearchReturn
    BY <2>6 DEF SearchReturn, HitInv
  <2>7. CASE UNCHANGED vars
    BY <2>7 DEF vars, HitInv, Queued, Oldest
  <2>9. QED
    BY <2>1, <2>2, <2>3, <2>4, <2>5, <2>6, <2>7, <2>8 DEF Next
<1>3. HitInv => NoStaleHit
  BY DEF HitInv
<1>4. QED
  BY <1>1, <1>2, <1>3, TypeCorrect, PTL DEF Spec
=================================================================================
