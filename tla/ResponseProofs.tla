----------------------------- MODULE ResponseProofs -----------------------------
(*******************************************************************************)
(* Theorems of Response, for all sessions, every size of the buffer, every cut  *)
(* of the stream into reads and every way a server breaks off:                  *)
(*   Invariance    Spec => []FullInv                                            *)
(*   TypeCorrect   Spec => []TypeOK                                             *)
(*   Transfers     Spec => ImplementsTransfer                                   *)
(* They rest on IInv, which says for every place in the code what has been      *)
(* delivered of the body and where in the stream the next byte of the buffer    *)
(* is.  It holds of an exchange until the code misreads something, and again    *)
(* from the next one on, whatever that left in the slot.                        *)
(*******************************************************************************)
EXTENDS Response, InductionProofs

--------------------------------------------------------------------------------
(* Sequences of sequences.                                                      *)

(* What is in two sequences put together. *)
LEMMA Concat ==
  ASSUME NEW V, NEW a \in Seq(V), NEW b \in Seq(V)
  PROVE  /\ a \o b \in Seq(V)
         /\ Len(a) \in Nat /\ Len(b) \in Nat /\ Len(a \o b) = Len(a) + Len(b)
         /\ \A i \in 1 .. Len(a) : (a \o b)[i] = a[i]
         /\ \A i \in 1 .. Len(b) : (a \o b)[Len(a) + i] = b[i]
OBVIOUS

Leading(s, n) == [k \in 1 .. n |-> s[k]]

(* The values of FlattenSeq's recursion, with one for the empty sequence. *)
Flattens(f, s, V) ==
  /\ f \in [0 .. Len(s) -> Seq(V)]
  /\ f[0] = <<>>
  /\ \A n \in 1 .. Len(s) : f[n] = f[n - 1] \o s[n]

(* FlattenSeq is defined by a recursive function; it has a solution, which is  *)
(* the one that puts one element after the other.                              *)
LEMMA FlattenIs ==
  ASSUME NEW V, NEW s \in Seq(Seq(V))
  PROVE  \E f : Flattens(f, s, V) /\ FlattenSeq(s) = f[Len(s)]
<1> DEFINE N == Len(s)
           step == [n \in 1 .. N |-> [v \in Seq(V) |-> v \o s[n]]]
           Unfolded(f) == [i \in 1 .. N |-> IF i = 1 THEN s[i] ELSE f[i - 1] \o s[i]]
           F == CHOOSE f : f = Unfolded(f)
<1>1. N \in Nat /\ <<>> \in Seq(V) /\ \A n \in 1 .. N : s[n] \in Seq(V)
  OBVIOUS
<1>2. PICK g : Follows(g, N, Seq(V), <<>>, step)
  <2>1. ASSUME NEW n \in 1 .. N, NEW v \in Seq(V) PROVE step[n][v] \in Seq(V)
    <3>1. step[n][v] = v \o s[n]
      OBVIOUS
    <3>2. s[n] \in Seq(V)
      BY <1>1
    <3>3. QED
      BY <3>1, <3>2
  <2> HIDE DEF step, N
  <2>2. QED
    BY <1>1, <2>1, RecursionExists
<1>3. Flattens(g, s, V)
  <2>1. ASSUME NEW n \in 1 .. N PROVE g[n] = g[n - 1] \o s[n]
    <3>1. g[n - 1] \in Seq(V) /\ g[n] = step[n][g[n - 1]]
      <4>1. n - 1 \in 0 .. N
        BY <1>1
      <4> HIDE DEF N, step
      <4>2. QED
        BY <1>2, <4>1 DEF Follows
    <3>2. QED
      BY <3>1
  <2> HIDE DEF step
  <2>2. g \in [0 .. N -> Seq(V)] /\ g[0] = <<>>
    BY <1>2 DEF Follows
  <2>3. QED
    BY <2>1, <2>2 DEF Flattens
<1>4. CASE N = 0
  <2>1. s = <<>> /\ FlattenSeq(s) = s
    BY <1>4 DEF FlattenSeq
  <2>2. g[0] = <<>>
    BY <1>3 DEF Flattens
  <2>3. QED
    BY <1>3, <1>4, <2>1, <2>2
<1>5. CASE N # 0
  <2>1. FlattenSeq(s) = F[N]
    BY <1>5 DEF FlattenSeq
  <2>2. \A f : f = Unfolded(f) <=>
          /\ f = [i \in 1 .. N |-> f[i]]
          /\ \A i \in 1 .. N : f[i] = IF i = 1 THEN s[i] ELSE f[i - 1] \o s[i]
    OBVIOUS
  <2>3. F = CHOOSE f : f = Unfolded(f)
    OBVIOUS
  <2> HIDE DEF Unfolded, F
  <2> DEFINE h == [i \in 1 .. N |-> g[i]]
  <2>4. h = Unfolded(h)
    <3>1. ASSUME NEW i \in 1 .. N PROVE h[i] = IF i = 1 THEN s[i] ELSE h[i - 1] \o s[i]
      <4>1. g[i] = g[i - 1] \o s[i]
        BY <1>3 DEF Flattens
      <4>2. CASE i = 1
        <5>1. g[0] = <<>> /\ s[i] \in Seq(V)
          BY <1>1, <1>3 DEF Flattens
        <5>2. <<>> \o s[i] = s[i]
          BY <5>1
        <5>3. i - 1 = 0 /\ h[i] = g[i]
          BY <4>2
        <5>4. h[i] = s[i]
          BY <4>1, <5>1, <5>2, <5>3
        <5> HIDE DEF h
        <5>5. QED
          BY <4>2, <5>4
      <4>3. CASE i # 1
        <5>1. i - 1 \in 1 .. N
          BY <1>1, <4>3
        <5>2. QED
          BY <4>1, <4>3, <5>1
      <4>4. QED
        BY <4>2, <4>3
    <3>2. h = [i \in 1 .. N |-> h[i]]
      OBVIOUS
    <3> HIDE DEF h
    <3>3. QED
      BY <2>2, <3>1, <3>2
  <2> HIDE DEF h
  <2>5. F = Unfolded(F)
    BY <2>3, <2>4, Zenon
  <2>6. \A i \in 1 .. N : F[i] = IF i = 1 THEN s[i] ELSE F[i - 1] \o s[i]
    BY <2>2, <2>5
  <2> DEFINE S == {n \in 0 .. N : n = 0 \/ F[n] = g[n]}
  <2>7. 0 \in S
    BY <1>1
  <2>8. ASSUME NEW n \in 0 .. N - 1, n \in S PROVE n + 1 \in S
    <3>1. n + 1 \in 1 .. N /\ (n + 1) - 1 = n
      BY <1>1
    <3>2. g[n + 1] = g[n] \o s[n + 1]
      BY <1>3, <3>1 DEF Flattens
    <3>3. CASE n = 0
      <4>1. g[0] = <<>> /\ s[1] \in Seq(V)
        BY <1>1, <1>3, <3>1, <3>3 DEF Flattens
      <4>2. F[1] = s[1] /\ g[1] = <<>> \o s[1]
        BY <2>6, <3>1, <3>2, <3>3, <4>1
      <4>3. QED
        BY <3>1, <3>3, <4>1, <4>2
    <3>4. CASE n # 0
      <4>1. n + 1 # 1 /\ F[n] = g[n]
        BY <1>1, <2>8, <3>4
      <4>2. F[n + 1] = F[n] \o s[n + 1]
        BY <2>6, <3>1, <4>1
      <4>3. n + 1 \in 0 .. N /\ F[n + 1] = g[n + 1]
        BY <1>1, <3>1, <3>2, <4>1, <4>2
      <4>4. QED
        BY <4>3
    <3>5. QED
      BY <3>3, <3>4
  <2> HIDE DEF S
  <2>9. 0 .. N \subseteq S
    BY <1>1, <2>7, <2>8, IntervalInduction
  <2>10. F[N] = g[N]
    <3>1. N \in S
      BY <1>1, <2>9
    <3>2. QED
      BY <1>5, <3>1 DEF S
  <2>11. QED
    BY <1>3, <2>1, <2>10
<1>6. QED
  BY <1>4, <1>5

(* The first n elements flattened are the first n - 1 and the n-th. *)
LEMMA FlattenStep ==
  ASSUME NEW V, NEW s \in Seq(Seq(V)), NEW n \in 1 .. Len(s)
  PROVE  FlattenSeq(Leading(s, n)) = FlattenSeq(Leading(s, n - 1)) \o s[n]
<1>1. Leading(s, n) \in Seq(Seq(V)) /\ Len(Leading(s, n)) = n
  BY DEF Leading
<1>2. Leading(s, n - 1) \in Seq(Seq(V)) /\ Len(Leading(s, n - 1)) = n - 1
  BY DEF Leading
<1>3. /\ \A k \in 1 .. n : Leading(s, n)[k] = s[k]
      /\ \A k \in 1 .. n - 1 : Leading(s, n - 1)[k] = s[k]
  BY DEF Leading
<1>4. n \in Nat /\ n - 1 \in Nat
  OBVIOUS
<1>5. PICK f : Flattens(f, Leading(s, n), V) /\ FlattenSeq(Leading(s, n)) = f[n]
  BY <1>1, FlattenIs
<1>6. PICK g : Flattens(g, Leading(s, n - 1), V) /\ FlattenSeq(Leading(s, n - 1)) = g[n - 1]
  BY <1>2, FlattenIs
<1> DEFINE S == {k \in 0 .. n - 1 : f[k] = g[k]}
<1>7. 0 \in S
  BY <1>4, <1>5, <1>6 DEF Flattens
<1>8. ASSUME NEW k \in 0 .. (n - 1) - 1, k \in S PROVE k + 1 \in S
  <2>1. k + 1 \in 1 .. n /\ k + 1 \in 1 .. n - 1 /\ (k + 1) - 1 = k /\ k + 1 \in 0 .. n - 1
    BY <1>4
  <2>2. f[k + 1] = f[k] \o s[k + 1]
    BY <1>1, <1>3, <1>5, <2>1 DEF Flattens
  <2>3. g[k + 1] = g[k] \o s[k + 1]
    BY <1>2, <1>3, <1>6, <2>1 DEF Flattens
  <2>4. QED
    BY <1>8, <2>1, <2>2, <2>3
<1> HIDE DEF S
<1>9. 0 .. n - 1 \subseteq S
  BY <1>4, <1>7, <1>8, IntervalInduction
<1>10. f[n - 1] = g[n - 1]
  BY <1>4, <1>9 DEF S
<1>11. f[n] = f[n - 1] \o s[n]
  <2>1. n \in 1 .. n
    BY <1>4
  <2>2. QED
    BY <1>1, <1>3, <1>5, <2>1 DEF Flattens
<1>12. QED
  BY <1>5, <1>6, <1>10, <1>11

(* What the first n elements are flattened to. *)
LEMMA FlattenType ==
  ASSUME NEW V, NEW s \in Seq(Seq(V)), NEW n \in 0 .. Len(s)
  PROVE  FlattenSeq(Leading(s, n)) \in Seq(V)
<1>1. Leading(s, n) \in Seq(Seq(V)) /\ Len(Leading(s, n)) = n
  BY DEF Leading
<1>2. PICK f : Flattens(f, Leading(s, n), V) /\ FlattenSeq(Leading(s, n)) = f[n]
  BY <1>1, FlattenIs
<1>3. QED
  BY <1>1, <1>2 DEF Flattens

(* Where the elements of a sequence are in what FlattenSeq makes of it. *)
LEMMA FlattenPlaces ==
  ASSUME NEW V, NEW s \in Seq(Seq(V))
  PROVE  /\ FlattenSeq(Leading(s, 0)) = <<>>
         /\ FlattenSeq(Leading(s, Len(s))) = FlattenSeq(s)
         /\ \A n \in 1 .. Len(s) :
              /\ Len(FlattenSeq(Leading(s, n))) = Len(FlattenSeq(Leading(s, n - 1))) + Len(s[n])
              /\ Len(FlattenSeq(Leading(s, n))) <= Len(FlattenSeq(s))
              /\ \A j \in 1 .. Len(s[n]) :
                   FlattenSeq(s)[Len(FlattenSeq(Leading(s, n - 1))) + j] = s[n][j]
<1> DEFINE N == Len(s)
           G(n) == FlattenSeq(Leading(s, n))
           P(n) == Len(G(n))
<1>1. G(0) = <<>>
  <2>1. Leading(s, 0) = <<>>
    BY DEF Leading
  <2>2. QED
    BY <2>1 DEF FlattenSeq
<1>2. Leading(s, N) = s
  BY DEF Leading
<1>3. \A n \in 0 .. N : G(n) \in Seq(V)
  BY FlattenType
<1>4. \A n \in 1 .. N : G(n) = G(n - 1) \o s[n]
  BY FlattenStep
<1>5. N \in Nat /\ \A n \in 1 .. N : s[n] \in Seq(V)
  OBVIOUS
<1> HIDE DEF G, N
<1>6. ASSUME NEW n \in 1 .. N
      PROVE  P(n) = P(n - 1) + Len(s[n]) /\ P(n - 1) \in Nat /\ P(n) \in Nat
  <2>1. n - 1 \in 0 .. N /\ n \in 0 .. N
    BY <1>5
  <2>2. G(n - 1) \in Seq(V) /\ s[n] \in Seq(V) /\ G(n) \in Seq(V)
    BY <1>3, <1>5, <2>1
  <2>3. G(n) = G(n - 1) \o s[n]
    BY <1>4
  <2>4. Len(G(n - 1) \o s[n]) = Len(G(n - 1)) + Len(s[n]) /\ Len(G(n - 1)) \in Nat
    BY <2>2, Concat
  <2>5. Len(G(n)) \in Nat
    BY <2>2
  <2>6. QED
    BY <2>3, <2>4, <2>5
<1>7. ASSUME NEW n \in 1 .. N
      PROVE  /\ P(n) <= P(N)
             /\ \A j \in 1 .. Len(s[n]) : G(N)[P(n - 1) + j] = s[n][j]
  <2> DEFINE Holds(m) == /\ P(n) <= P(m)
                         /\ \A j \in 1 .. Len(s[n]) : G(m)[P(n - 1) + j] = s[n][j]
             S == {m \in 0 .. N : m >= n => Holds(m)}
  <2>1. n \in Nat /\ n # 0 /\ n - 1 \in 0 .. N /\ n \in 0 .. N
    BY <1>5
  <2>2. G(n - 1) \in Seq(V) /\ s[n] \in Seq(V) /\ G(n) = G(n - 1) \o s[n]
    BY <1>3, <1>4, <1>5, <2>1
  <2>3. Holds(n)
    <3>1. ASSUME NEW j \in 1 .. Len(s[n]) PROVE G(n)[P(n - 1) + j] = s[n][j]
      BY <2>2
    <3>2. P(n) \in Nat
      BY <1>6
    <3>3. QED
      BY <3>1, <3>2
  <2>4. 0 \in S
    BY <1>5, <2>1
  <2>5. ASSUME NEW m \in 0 .. N - 1, m \in S PROVE m + 1 \in S
    <3>1. m + 1 \in 1 .. N /\ (m + 1) - 1 = m /\ m \in 0 .. N /\ m + 1 \in 0 .. N /\ m \in Nat
      BY <1>5
    <3>2. CASE m + 1 < n
      BY <2>1, <3>1, <3>2
    <3>3. CASE m + 1 = n
      BY <2>3, <3>1, <3>3
    <3>4. CASE m >= n
      <4>1. Holds(m)
        BY <2>5, <3>4
      <4>2. G(m) \in Seq(V) /\ s[m + 1] \in Seq(V) /\ G(m + 1) = G(m) \o s[m + 1]
        BY <1>3, <1>4, <1>5, <3>1
      <4>3. P(m) \in Nat /\ P(m + 1) \in Nat /\ P(m) <= P(m + 1) /\ P(n) \in Nat /\ P(n - 1) \in Nat
            /\ P(n) = P(n - 1) + Len(s[n])
        <5>1. P(m + 1) = P(m) + Len(s[m + 1]) /\ P(m) \in Nat /\ P(m + 1) \in Nat
          BY <1>6, <3>1
        <5>2. Len(s[m + 1]) \in Nat
          BY <4>2
        <5>3. P(n) = P(n - 1) + Len(s[n]) /\ P(n - 1) \in Nat /\ P(n) \in Nat
          BY <1>6
        <5>4. P(m) <= P(m + 1)
          <6> DEFINE a == P(m)
                     b == P(m + 1)
                     k == Len(s[m + 1])
          <6>1. b = a + k /\ a \in Nat /\ k \in Nat
            BY <5>1, <5>2
          <6> HIDE DEF a, b, k
          <6>2. a <= b
            BY <6>1
          <6>3. QED
            BY <6>2 DEF a, b
        <5> HIDE DEF P
        <5>5. QED
          BY <5>1, <5>3, <5>4
      <4>4. ASSUME NEW j \in 1 .. Len(s[n]) PROVE G(m + 1)[P(n - 1) + j] = s[n][j]
        <5>1. P(n - 1) + j \in 1 .. P(m)
          <6>1. P(n) <= P(m)
            BY <4>1
          <6>2. Len(s[n]) \in Nat
            BY <2>2
          <6> HIDE DEF P
          <6>3. QED
            BY <4>3, <6>1, <6>2, SMTT(20)
        <5>2. G(m + 1)[P(n - 1) + j] = G(m)[P(n - 1) + j]
          BY <4>2, <5>1, Concat
        <5>3. QED
          BY <4>1, <5>2
      <4>5. Holds(m + 1)
        <5>1. P(n) <= P(m)
          BY <4>1
        <5>2. P(n) <= P(m + 1)
          <6> HIDE DEF P
          <6>1. QED
            BY <4>3, <5>1
        <5>3. QED
          BY <4>4, <5>2
      <4> HIDE DEF Holds
      <4>6. QED
        BY <3>1, <4>5
    <3>5. QED
      BY <2>1, <3>1, <3>2, <3>3, <3>4
  <2> HIDE DEF S, Holds
  <2>6. 0 .. N \subseteq S
    BY <1>5, <2>4, <2>5, IntervalInduction
  <2>7. N \in S /\ N >= n
    BY <1>5, <2>6
  <2>8. Holds(N)
    BY <2>7 DEF S
  <2>9. QED
    BY <2>8 DEF Holds
<1>8. QED
  BY <1>1, <1>2, <1>6, <1>7 DEF G, N

(* The first a bytes of a text and the b bytes behind them. *)
LEMMA PrefixGrows ==
  ASSUME NEW V, NEW p \in Seq(V), NEW a \in Nat, NEW b \in Nat, a + b <= Len(p),
         NEW t, t = [j \in 1 .. b |-> p[a + j]]
  PROVE  SubSeq(p, 1, a) \o t = SubSeq(p, 1, a + b)
<1>1. SubSeq(p, 1, a) = [j \in 1 .. a |-> p[j]] /\ SubSeq(p, 1, a) \in Seq(V) /\ Len(SubSeq(p, 1, a)) = a
  OBVIOUS
<1>2. SubSeq(p, 1, a + b) = [j \in 1 .. a + b |-> p[j]]
  OBVIOUS
<1>3. t \in Seq(V) /\ Len(t) = b
  OBVIOUS
<1>4. SubSeq(p, 1, a) \o t = [j \in 1 .. a + b |-> IF j <= a THEN SubSeq(p, 1, a)[j] ELSE t[j - a]]
  BY <1>1, <1>3
<1>5. ASSUME NEW j \in 1 .. a + b
      PROVE  (IF j <= a THEN SubSeq(p, 1, a)[j] ELSE t[j - a]) = p[j]
  <2>1. CASE j <= a
    BY <1>1, <2>1
  <2>2. CASE j > a
    <3>1. j - a \in 1 .. b /\ a + (j - a) = j
      BY <2>2
    <3>2. QED
      BY <2>2, <3>1
  <2>3. QED
    BY <2>1, <2>2
<1>6. QED
  BY <1>2, <1>4, <1>5

--------------------------------------------------------------------------------
(* The stream of a response.                                                    *)

IsResponse(r) ==
  /\ r.framing \in Framings
  /\ r.chunks \in Seq(Seq(Letters))
  /\ \A c \in 1 .. Len(r.chunks) : Len(r.chunks[c]) \in 1 .. 9
  /\ r.framing = "length" => Len(Payload(r)) <= 9
  /\ r.digits \in 1 .. 4

Stream(r) == Header(r) \o Body(r)
Sent == Digits \cup Letters \cup {"CR", "LF", "HTTP", "200", "te", "len", "date", ":", "chunked"}
Encoded(r) == [c \in 1 .. Len(r.chunks) |-> Chunk(r.chunks[c], r.digits)]

\* Where chunk c begins, in the stream and in the payload.
Start(r, c) == Len(Header(r)) + Len(FlattenSeq(Leading(Encoded(r), c - 1)))
Before(r, c) == Len(FlattenSeq(Leading(r.chunks, c - 1)))

(* The digits, one by one. *)
LEMMA HexDigits ==
  /\ Hex \in Seq(Digits) /\ Len(Hex) = 10
  /\ \A v \in 1 .. 10 : Hex[v] \in Digits
  /\ Digits = {"0", "1", "2", "3", "4", "5", "6", "7", "8", "9"}
  /\ Hex[1] = "0"
<1>1. Len(Hex) = 10 /\ Hex[1] = "0"
  BY DEF Hex
<1>2. Digits = {"0", "1", "2", "3", "4", "5", "6", "7", "8", "9"}
  <2>1. Digits = {Hex[v] : v \in 1 .. 10}
    BY <1>1 DEF Digits
  <2>2. Hex[1] = "0" /\ Hex[2] = "1" /\ Hex[3] = "2" /\ Hex[4] = "3" /\ Hex[5] = "4"
        /\ Hex[6] = "5" /\ Hex[7] = "6" /\ Hex[8] = "7" /\ Hex[9] = "8" /\ Hex[10] = "9"
    BY DEF Hex
  <2>3. \A v \in 1 .. 10 : v = 1 \/ v = 2 \/ v = 3 \/ v = 4 \/ v = 5 \/ v = 6 \/ v = 7 \/ v = 8
                             \/ v = 9 \/ v = 10
    OBVIOUS
  <2>4. QED
    BY <2>1, <2>2, <2>3
<1>3. \A v \in 1 .. 10 : Hex[v] \in Digits
  BY <1>1 DEF Digits
<1>4. Hex \in Seq(Digits)
  <2>1. Hex = [v \in 1 .. 10 |-> Hex[v]]
    BY DEF Hex
  <2>2. QED
    BY <1>3, <2>1
<1>5. QED
  BY <1>1, <1>2, <1>3, <1>4

(* The payload is a sequence of the bytes of a body. *)
LEMMA PayloadType == \A r : IsResponse(r) => Payload(r) \in Seq(Letters)
<1> SUFFICES ASSUME NEW r, IsResponse(r) PROVE Payload(r) \in Seq(Letters)
  OBVIOUS
<1>1. r.chunks \in Seq(Seq(Letters))
  BY DEF IsResponse
<1>2. FlattenSeq(Leading(r.chunks, Len(r.chunks))) \in Seq(Letters)
  BY <1>1, FlattenType
<1>3. QED
  BY <1>1, <1>2, FlattenPlaces DEF Payload

(* The fields that frame a body. *)
LEMMA FieldIs ==
  ASSUME NEW r, IsResponse(r)
  PROVE  /\ Field(r) \in Seq(Sent)
         /\ Len(Field(r)) = IF r.framing = "no_space" THEN 2 ELSE 3
         /\ \A j \in 1 .. Len(Field(r)) : Field(r)[j] # "CR"
         /\ r.framing = "chunked" => Field(r) = <<"te", ":", "chunked">>
         /\ r.framing = "length" => Field(r) = <<"len", ":", Hex[Len(Payload(r)) + 1]>>
         /\ r.framing = "close" => Field(r) = <<"date", ":", "1">>
         /\ r.framing = "no_space" => Field(r) = <<"date", "1">>
<1>1. r.framing \in {"chunked", "length", "close", "no_space"}
  BY DEF IsResponse, Framings
<1>2. /\ r.framing = "chunked" => Field(r) = <<"te", ":", "chunked">>
      /\ r.framing = "length" => Field(r) = <<"len", ":", Hex[Len(Payload(r)) + 1]>>
      /\ r.framing = "close" => Field(r) = <<"date", ":", "1">>
      /\ r.framing = "no_space" => Field(r) = <<"date", "1">>
  BY DEF Field
<1>3. ASSUME r.framing = "length" PROVE Hex[Len(Payload(r)) + 1] \in Digits
  <2> DEFINE n == Len(Payload(r))
  <2>1. Payload(r) \in Seq(Letters)
    BY PayloadType
  <2>2. n \in Nat
    BY <2>1
  <2>3. n <= 9
    BY <1>3 DEF IsResponse
  <2> HIDE DEF n
  <2>4. n + 1 \in 1 .. 10
    BY <2>2, <2>3
  <2>5. Hex[n + 1] \in Digits
    BY <2>4, HexDigits
  <2>6. QED
    BY <2>5 DEF n
<1>4. "1" \in Digits /\ "CR" \notin Digits
  BY HexDigits
<1>5. {"te", ":", "chunked", "len", "date"} \cup Digits \subseteq Sent
  BY DEF Sent
<1>6. CASE r.framing = "chunked"
  <2>1. Field(r) = <<"te", ":", "chunked">>
    BY <1>2, <1>6
  <2>2. QED
    BY <1>2, <1>5, <1>6, <2>1
<1>7. CASE r.framing = "length"
  <2> DEFINE d == Hex[Len(Payload(r)) + 1]
  <2>1. Field(r) = <<"len", ":", d>> /\ d \in Digits
    BY <1>2, <1>3, <1>7
  <2> HIDE DEF d
  <2>2. /\ Field(r) \in Seq(Sent) /\ Len(Field(r)) = 3
        /\ Field(r)[1] = "len" /\ Field(r)[2] = ":" /\ Field(r)[3] = d
    BY <1>5, <2>1
  <2>3. \A j \in 1 .. 3 : Field(r)[j] # "CR"
    BY <1>4, <2>1, <2>2
  <2>4. QED
    BY <1>2, <1>7, <2>2, <2>3
<1>8. CASE r.framing = "close"
  <2>1. Field(r) = <<"date", ":", "1">>
    BY <1>2, <1>8
  <2>2. QED
    BY <1>2, <1>4, <1>5, <1>8, <2>1
<1>9. CASE r.framing = "no_space"
  <2>1. Field(r) = <<"date", "1">>
    BY <1>2, <1>9
  <2>2. QED
    BY <1>2, <1>4, <1>5, <1>9, <2>1
<1>10. QED
  BY <1>1, <1>6, <1>7, <1>8, <1>9

(* Concat, for the bytes of a stream. *)
LEMMA ConcatSent ==
  ASSUME NEW a \in Seq(Sent), NEW b \in Seq(Sent)
  PROVE  /\ a \o b \in Seq(Sent)
         /\ Len(a) \in Nat /\ Len(b) \in Nat /\ Len(a \o b) = Len(a) + Len(b)
         /\ \A i \in 1 .. Len(a) : (a \o b)[i] = a[i]
         /\ \A i \in 1 .. Len(b) : (a \o b)[Len(a) + i] = b[i]
BY Concat

(* The header: a status line, a field, an empty line. *)
LEMMA HeaderIs ==
  ASSUME NEW r, IsResponse(r)
  PROVE  /\ Header(r) \in Seq(Sent)
         /\ Len(Header(r)) = Len(Field(r)) + 8
         /\ Header(r)[1] = "HTTP" /\ Header(r)[2] = "200"
         /\ Header(r)[3] = "CR" /\ Header(r)[4] = "LF"
         /\ \A j \in 1 .. Len(Field(r)) : Header(r)[4 + j] = Field(r)[j]
         /\ Header(r)[Len(Field(r)) + 5] = "CR" /\ Header(r)[Len(Field(r)) + 6] = "LF"
         /\ Header(r)[Len(Field(r)) + 7] = "CR" /\ Header(r)[Len(Field(r)) + 8] = "LF"
<1> DEFINE F == Field(r)
           A == StatusLine \o F
           B == A \o CRLF
<1>1. F \in Seq(Sent) /\ Len(F) \in Nat
  BY FieldIs
<1>2. /\ StatusLine \in Seq(Sent) /\ Len(StatusLine) = 4
      /\ StatusLine[1] = "HTTP" /\ StatusLine[2] = "200"
      /\ StatusLine[3] = "CR" /\ StatusLine[4] = "LF"
  BY DEF StatusLine, CRLF, Sent
<1>3. CRLF \in Seq(Sent) /\ Len(CRLF) = 2 /\ CRLF[1] = "CR" /\ CRLF[2] = "LF"
  BY DEF CRLF, Sent
<1> HIDE DEF F
<1>4. /\ A \in Seq(Sent) /\ Len(A) = 4 + Len(F)
      /\ A[1] = "HTTP" /\ A[2] = "200" /\ A[3] = "CR" /\ A[4] = "LF"
      /\ \A j \in 1 .. Len(F) : A[4 + j] = F[j]
  <2>1. /\ A \in Seq(Sent) /\ Len(A) = Len(StatusLine) + Len(F)
        /\ \A i \in 1 .. Len(StatusLine) : A[i] = StatusLine[i]
        /\ \A i \in 1 .. Len(F) : A[Len(StatusLine) + i] = F[i]
    BY <1>1, <1>2, ConcatSent, Zenon
  <2> HIDE DEF A
  <2>2. QED
    BY <1>1, <1>2, <2>1
<1> HIDE DEF A
<1>5. /\ B \in Seq(Sent) /\ Len(B) = 6 + Len(F)
      /\ \A j \in 1 .. Len(F) + 4 : B[j] = A[j]
      /\ B[Len(F) + 5] = "CR" /\ B[Len(F) + 6] = "LF"
  <2>5. /\ B \in Seq(Sent) /\ Len(B) = Len(A) + Len(CRLF)
        /\ \A i \in 1 .. Len(A) : B[i] = A[i]
        /\ \A i \in 1 .. Len(CRLF) : B[Len(A) + i] = CRLF[i]
    BY <1>3, <1>4, ConcatSent, Zenon
  <2> HIDE DEF B
  <2>1. /\ B \in Seq(Sent) /\ Len(B) = Len(A) + 2
        /\ \A i \in 1 .. Len(A) : B[i] = A[i]
        /\ \A i \in 1 .. 2 : B[Len(A) + i] = CRLF[i]
    BY <1>3, <2>5
  <2>2. B[Len(A) + 1] = "CR" /\ B[Len(A) + 2] = "LF"
    BY <1>3, <2>1
  <2>3. Len(A) + 1 = Len(F) + 5 /\ Len(A) + 2 = Len(F) + 6
    BY <1>1, <1>4
  <2>4. QED
    BY <1>1, <1>4, <2>1, <2>2, <2>3
<1> HIDE DEF B
<1>6. Header(r) = B \o CRLF
  BY DEF Header, B, A, F
<1>7. /\ Header(r) \in Seq(Sent) /\ Len(Header(r)) = Len(B) + 2
      /\ \A i \in 1 .. Len(B) : Header(r)[i] = B[i]
      /\ \A i \in 1 .. 2 : Header(r)[Len(B) + i] = CRLF[i]
  <2> DEFINE C == B \o CRLF
  <2>1. /\ C \in Seq(Sent) /\ Len(C) = Len(B) + Len(CRLF)
        /\ \A i \in 1 .. Len(B) : C[i] = B[i]
        /\ \A i \in 1 .. Len(CRLF) : C[Len(B) + i] = CRLF[i]
    BY <1>3, <1>5, ConcatSent, Zenon
  <2>2. Header(r) = C
    BY <1>6
  <2> HIDE DEF C
  <2>3. QED
    BY <1>3, <2>1, <2>2
<1>8. Header(r)[Len(B) + 1] = "CR" /\ Header(r)[Len(B) + 2] = "LF"
  BY <1>3, <1>7
<1>9. Len(B) + 1 = Len(F) + 7 /\ Len(B) + 2 = Len(F) + 8
  BY <1>1, <1>5
<1>10. \A i \in 1 .. 4 : Header(r)[i] = A[i]
  BY <1>1, <1>5, <1>7, SMTT(20)
<1>11. \A j \in 1 .. Len(F) : Header(r)[4 + j] = F[j]
  <2> SUFFICES ASSUME NEW j \in 1 .. Len(F) PROVE Header(r)[4 + j] = F[j]
    OBVIOUS
  <2>1. 4 + j \in 1 .. Len(F) + 4 /\ 4 + j \in 1 .. Len(B)
    BY <1>1, <1>5
  <2>2. QED
    BY <1>4, <1>5, <1>7, <2>1
<1>12. Header(r)[Len(F) + 5] = "CR" /\ Header(r)[Len(F) + 6] = "LF"
  <2>1. Len(F) + 5 \in 1 .. Len(B) /\ Len(F) + 6 \in 1 .. Len(B)
    BY <1>1, <1>5
  <2>2. QED
    BY <1>5, <1>7, <2>1
<1>13. QED
  BY <1>1, <1>4, <1>5, <1>7, <1>8, <1>9, <1>10, <1>11, <1>12 DEF F

(* Bytes of a body are bytes of a stream. *)
LEMMA LettersSent == Seq(Letters) \subseteq Seq(Sent)
<1>1. Letters \subseteq Sent
  BY DEF Sent
<1>2. QED
  BY <1>1

(* The size of a chunk: zeros, and a last digit that is not one. *)
LEMMA ChunkSizeIs ==
  ASSUME NEW d \in Seq(Letters), Len(d) \in 1 .. 9, NEW w \in 1 .. 4
  PROVE  /\ ChunkSize(d, w) \in Seq(Sent) /\ Len(ChunkSize(d, w)) = w
         /\ \A j \in 1 .. w - 1 : ChunkSize(d, w)[j] = "0"
         /\ ChunkSize(d, w)[w] = Hex[Len(d) + 1]
<1> DEFINE x == Hex[Len(d) + 1]
           S == <<"0", "0", "0", x>>
<1>1. x \in Sent /\ "0" \in Sent
  <2>1. \A n \in 1 .. 9 : n \in Nat /\ n + 1 \in 1 .. 10
    OBVIOUS
  <2>2. x \in Digits /\ "0" \in Digits
    BY <2>1, HexDigits
  <2>3. QED
    BY <2>2 DEF Sent
<1>2. ChunkSize(d, w) = SubSeq(S, 5 - w, 4)
  BY DEF ChunkSize
<1> HIDE DEF x
<1>3. S \in Seq(Sent) /\ Len(S) = 4 /\ S[1] = "0" /\ S[2] = "0" /\ S[3] = "0" /\ S[4] = x
  BY <1>1
<1> HIDE DEF S
<1>4. /\ SubSeq(S, 5 - w, 4) \in Seq(Sent) /\ Len(SubSeq(S, 5 - w, 4)) = w
      /\ \A j \in 1 .. w : SubSeq(S, 5 - w, 4)[j] = S[4 - w + j]
  <2>1. SubSeq(S, 5 - w, 4) = [j \in 1 .. 4 - (5 - w) + 1 |-> S[5 - w + j - 1]]
    OBVIOUS
  <2>2. 4 - (5 - w) + 1 = w /\ \A j \in 1 .. w : 5 - w + j - 1 = 4 - w + j /\ 4 - w + j \in 1 .. 4
    OBVIOUS
  <2>3. \A j \in 1 .. w : SubSeq(S, 5 - w, 4)[j] = S[4 - w + j]
    BY <2>1, <2>2
  <2>4. \A j \in 1 .. w : S[4 - w + j] \in Sent
    <3>1. \A k \in 1 .. 4 : S[k] \in Sent
      <4>1. \A k \in 1 .. 4 : k = 1 \/ k = 2 \/ k = 3 \/ k = 4
        OBVIOUS
      <4>2. S[1] \in Sent /\ S[2] \in Sent /\ S[3] \in Sent /\ S[4] \in Sent
        BY <1>1, <1>3
      <4>3. QED
        BY <4>1, <4>2
    <3>2. QED
      BY <2>2, <3>1
  <2>5. SubSeq(S, 5 - w, 4) = [j \in 1 .. w |-> SubSeq(S, 5 - w, 4)[j]]
    BY <2>1, <2>2
  <2>6. w \in Nat
    OBVIOUS
  <2> DEFINE T == SubSeq(S, 5 - w, 4)
  <2> HIDE DEF T
  <2>7. T = [j \in 1 .. w |-> T[j]] /\ \A j \in 1 .. w : T[j] \in Sent
    BY <2>3, <2>4, <2>5 DEF T
  <2>8. T \in Seq(Sent) /\ Len(T) = w
    BY <2>6, <2>7
  <2>9. QED
    BY <2>3, <2>8 DEF T
<1>5. \A j \in 1 .. w - 1 : 4 - w + j = 1 \/ 4 - w + j = 2 \/ 4 - w + j = 3
  OBVIOUS
<1>6. \A j \in 1 .. w - 1 : j \in 1 .. w
  OBVIOUS
<1>7. w \in 1 .. w /\ 4 - w + w = 4
  OBVIOUS
<1>8. QED
  BY <1>2, <1>3, <1>4, <1>5, <1>6, <1>7 DEF x

(* A chunk: the digits of its size, a line end, the bytes, a line end. *)
LEMMA ChunkIs ==
  ASSUME NEW d \in Seq(Letters), Len(d) \in 1 .. 9, NEW w \in 1 .. 4
  PROVE  /\ Chunk(d, w) \in Seq(Sent)
         /\ Len(Chunk(d, w)) = Len(d) + w + 4
         /\ \A j \in 1 .. w - 1 : Chunk(d, w)[j] = "0"
         /\ Chunk(d, w)[w] = Hex[Len(d) + 1]
         /\ Chunk(d, w)[w + 1] = "CR"
         /\ \A j \in 1 .. Len(d) : Chunk(d, w)[w + 2 + j] = d[j]
<1> DEFINE S == ChunkSize(d, w)
           A == S \o CRLF
           B == A \o d
           C == B \o CRLF
<1>1. Len(d) \in Nat /\ d \in Seq(Sent) /\ w \in Nat
  BY LettersSent
<1>2. S \in Seq(Sent) /\ Len(S) = w /\ S[w] = Hex[Len(d) + 1] /\ \A j \in 1 .. w - 1 : S[j] = "0"
  BY ChunkSizeIs
<1>3. CRLF \in Seq(Sent) /\ Len(CRLF) = 2 /\ CRLF[1] = "CR"
  BY DEF CRLF, Sent
<1>4. Chunk(d, w) = C
  BY DEF Chunk
<1> HIDE DEF S
<1>5. /\ A \in Seq(Sent) /\ Len(A) = Len(S) + Len(CRLF)
      /\ \A i \in 1 .. Len(S) : A[i] = S[i]
      /\ \A i \in 1 .. Len(CRLF) : A[Len(S) + i] = CRLF[i]
  BY <1>2, <1>3, ConcatSent, Zenon
<1> HIDE DEF A
<1>6. /\ B \in Seq(Sent) /\ Len(B) = Len(A) + Len(d)
      /\ \A i \in 1 .. Len(A) : B[i] = A[i]
      /\ \A i \in 1 .. Len(d) : B[Len(A) + i] = d[i]
  BY <1>1, <1>5, ConcatSent, Zenon
<1> HIDE DEF B
<1>7. /\ C \in Seq(Sent) /\ Len(C) = Len(B) + Len(CRLF)
      /\ \A i \in 1 .. Len(B) : C[i] = B[i]
  BY <1>3, <1>6, ConcatSent, Zenon
<1> HIDE DEF C
<1>8. Len(A) = w + 2 /\ Len(B) = Len(d) + w + 2 /\ Len(C) = Len(d) + w + 4
  BY <1>1, <1>2, <1>3, <1>5, <1>6, <1>7
<1>9. \A i \in 1 .. w + 2 : C[i] = A[i]
  <2> SUFFICES ASSUME NEW i \in 1 .. w + 2 PROVE C[i] = A[i]
    OBVIOUS
  <2>1. i \in 1 .. Len(A) /\ i \in 1 .. Len(B)
    BY <1>1, <1>8
  <2>2. QED
    BY <1>6, <1>7, <2>1
<1>10. /\ \A j \in 1 .. w - 1 : C[j] = "0"
       /\ C[w] = Hex[Len(d) + 1] /\ C[w + 1] = "CR"
  <2>1. \A j \in 1 .. w : C[j] = S[j]
    BY <1>1, <1>2, <1>5, <1>9
  <2>2. C[w + 1] = CRLF[1]
    BY <1>1, <1>2, <1>3, <1>5, <1>9
  <2>3. w \in 1 .. w /\ \A j \in 1 .. w - 1 : j \in 1 .. w
    OBVIOUS
  <2>4. QED
    BY <1>2, <1>3, <2>1, <2>2, <2>3
<1>11. \A j \in 1 .. Len(d) : C[w + 2 + j] = d[j]
  <2> SUFFICES ASSUME NEW j \in 1 .. Len(d) PROVE C[w + 2 + j] = d[j]
    OBVIOUS
  <2>1. w + 2 + j \in 1 .. Len(B)
    BY <1>1, <1>8
  <2>2. QED
    BY <1>6, <1>7, <1>8, <2>1
<1>12. QED
  BY <1>4, <1>7, <1>8, <1>10, <1>11

(* The chunks of a body as they are sent. *)
LEMMA EncodedIs ==
  ASSUME NEW r, IsResponse(r)
  PROVE  /\ Encoded(r) \in Seq(Seq(Sent)) /\ Len(Encoded(r)) = Len(r.chunks)
         /\ \A c \in 1 .. Len(r.chunks) :
              /\ Encoded(r)[c] = Chunk(r.chunks[c], r.digits)
              /\ r.chunks[c] \in Seq(Letters) /\ Len(r.chunks[c]) \in 1 .. 9
<1>1. \A c \in 1 .. Len(r.chunks) :
        r.chunks[c] \in Seq(Letters) /\ Len(r.chunks[c]) \in 1 .. 9
  BY DEF IsResponse
<1>2. \A c \in 1 .. Len(r.chunks) : Chunk(r.chunks[c], r.digits) \in Seq(Sent)
  BY <1>1, ChunkIs DEF IsResponse
<1>3. Len(r.chunks) \in Nat
  BY DEF IsResponse
<1>4. QED
  BY <1>1, <1>2, <1>3 DEF Encoded

(* The body is the chunks, and the last of them behind, or the payload. *)
LEMMA BodyType ==
  ASSUME NEW r, IsResponse(r)
  PROVE  /\ Body(r) \in Seq(Sent)
         /\ r.framing = "chunked" =>
              Body(r) = FlattenSeq(Encoded(r)) \o <<"0">> \o CRLF \o CRLF
         /\ r.framing # "chunked" => Body(r) = Payload(r)
<1>1. r.framing = "chunked" =>
        Body(r) = FlattenSeq(Encoded(r)) \o <<"0">> \o CRLF \o CRLF
  BY DEF Body, Encoded
<1>2. r.framing # "chunked" => Body(r) = Payload(r)
  BY DEF Body
<1>3. CASE r.framing = "chunked"
  <2>1. Encoded(r) \in Seq(Seq(Sent))
    BY EncodedIs
  <2>2. FlattenSeq(Encoded(r)) \in Seq(Sent)
    <3>1. Len(Encoded(r)) \in 0 .. Len(Encoded(r))
      BY <2>1
    <3>2. FlattenSeq(Leading(Encoded(r), Len(Encoded(r)))) \in Seq(Sent)
      BY <2>1, <3>1, FlattenType
    <3>3. QED
      BY <2>1, <3>2, FlattenPlaces
  <2>3. <<"0">> \in Seq(Sent) /\ CRLF \in Seq(Sent)
    BY HexDigits DEF Sent, CRLF
  <2> DEFINE G == FlattenSeq(Encoded(r))
             Z == <<"0">>
             B == Body(r)
  <2>4. B = G \o Z \o CRLF \o CRLF
    BY <1>1, <1>3
  <2> HIDE DEF G, Z, B
  <2>5. G \in Seq(Sent) /\ Z \in Seq(Sent) /\ CRLF \in Seq(Sent)
    BY <2>2, <2>3 DEF G, Z
  <2>6. B \in Seq(Sent)
    BY <2>4, <2>5
  <2>7. QED
    BY <1>1, <1>3, <2>6 DEF B
<1>4. CASE r.framing # "chunked"
  BY <1>2, <1>4, PayloadType, LettersSent
<1>5. QED
  BY <1>1, <1>2, <1>3, <1>4

(* The stream: a header of ten or eleven bytes, and the body. *)
LEMMA StreamIs ==
  ASSUME NEW r, IsResponse(r)
  PROVE  /\ Stream(r) \in Seq(Sent)
         /\ Len(Stream(r)) = Len(Header(r)) + Len(Body(r))
         /\ \A i \in 1 .. Len(Header(r)) : Stream(r)[i] = Header(r)[i]
         /\ \A j \in 1 .. Len(Body(r)) : Stream(r)[Len(Header(r)) + j] = Body(r)[j]
         /\ Len(Header(r)) \in 10 .. 11
         /\ r.framing # "no_space" => Len(Header(r)) = 11
         /\ Len(Body(r)) \in Nat
<1>1. Header(r) \in Seq(Sent) /\ Body(r) \in Seq(Sent)
  BY HeaderIs, BodyType
<1> DEFINE A == Header(r)
           B == Body(r)
           C == A \o B
<1>2. Stream(r) = C
  BY DEF Stream
<1>3. Len(Header(r)) \in 10 .. 11 /\ (r.framing # "no_space" => Len(Header(r)) = 11)
  <2>1. Len(Header(r)) = Len(Field(r)) + 8
    BY HeaderIs
  <2>2. Len(Field(r)) = IF r.framing = "no_space" THEN 2 ELSE 3
    BY FieldIs
  <2>3. QED
    BY <2>1, <2>2
<1> HIDE DEF A, B
<1>4. /\ C \in Seq(Sent) /\ Len(C) = Len(A) + Len(B)
      /\ Len(B) \in Nat
      /\ \A i \in 1 .. Len(A) : C[i] = A[i]
      /\ \A i \in 1 .. Len(B) : C[Len(A) + i] = B[i]
  <2>1. A \in Seq(Sent) /\ B \in Seq(Sent)
    BY <1>1 DEF A, B
  <2>2. QED
    BY <2>1, ConcatSent, Zenon
<1> HIDE DEF C
<1>5. QED
  BY <1>2, <1>3, <1>4 DEF A, B

SizeOf(r, c) == Len(r.chunks[c])

(* Where the chunks of a body are in its stream, and in its payload. *)
LEMMA ChunkStarts ==
  ASSUME NEW r, IsResponse(r), r.framing = "chunked", NEW N, N = Len(r.chunks)
  PROVE  /\ N \in Nat
         /\ Start(r, 1) = Len(Header(r)) /\ Before(r, 1) = 0
         /\ Before(r, N + 1) = Len(Payload(r))
         /\ Start(r, N + 1) = Len(Header(r)) + Len(FlattenSeq(Encoded(r)))
         /\ \A c \in 1 .. N + 1 : Start(r, c) \in Nat /\ Before(r, c) \in Nat
         /\ \A c \in 1 .. N :
              /\ SizeOf(r, c) \in 1 .. 9
              /\ Start(r, c + 1) = Start(r, c) + SizeOf(r, c) + r.digits + 4
              /\ Before(r, c + 1) = Before(r, c) + SizeOf(r, c)
              /\ Start(r, c + 1) <= Start(r, N + 1)
              /\ Before(r, c + 1) <= Len(Payload(r))
<1> DEFINE E == Encoded(r)
           G(n) == FlattenSeq(Leading(E, n))
           Q(n) == FlattenSeq(Leading(r.chunks, n))
           H == Len(Header(r))
           g(n) == Len(G(n))
           q(n) == Len(Q(n))
<1>1. /\ E \in Seq(Seq(Sent)) /\ Len(E) = N
      /\ \A c \in 1 .. N : E[c] = Chunk(r.chunks[c], r.digits) /\ r.chunks[c] \in Seq(Letters)
                           /\ Len(r.chunks[c]) \in 1 .. 9
  BY EncodedIs
<1>2. r.chunks \in Seq(Seq(Letters)) /\ N \in Nat /\ r.digits \in 1 .. 4
  BY DEF IsResponse
<1>3. H \in Nat
  BY StreamIs
<1>4. \A c \in 1 .. N : Len(E[c]) = SizeOf(r, c) + r.digits + 4 /\ SizeOf(r, c) \in 1 .. 9
  <2> SUFFICES ASSUME NEW c \in 1 .. N
               PROVE  Len(E[c]) = SizeOf(r, c) + r.digits + 4 /\ SizeOf(r, c) \in 1 .. 9
    OBVIOUS
  <2> HIDE DEF E
  <2>1. E[c] = Chunk(r.chunks[c], r.digits) /\ r.chunks[c] \in Seq(Letters)
        /\ Len(r.chunks[c]) \in 1 .. 9
    BY <1>1
  <2>2. Len(Chunk(r.chunks[c], r.digits)) = Len(r.chunks[c]) + r.digits + 4
    BY <1>2, <2>1, ChunkIs
  <2>3. QED
    BY <2>1, <2>2 DEF SizeOf
<1>5. \A c : Start(r, c) = H + g(c - 1) /\ Before(r, c) = q(c - 1)
  BY DEF Start, Before
<1>6. /\ G(0) = <<>> /\ G(N) = FlattenSeq(E)
      /\ \A n \in 1 .. N : /\ g(n) = g(n - 1) + Len(E[n])
                           /\ g(n) <= g(N)
  <2> HIDE DEF E
  <2>1. QED
    BY <1>1, FlattenPlaces
<1>7. /\ Q(0) = <<>> /\ Q(N) = Payload(r)
      /\ \A n \in 1 .. N : /\ q(n) = q(n - 1) + SizeOf(r, n)
                           /\ q(n) <= Len(Payload(r))
  BY <1>2, FlattenPlaces DEF Payload, SizeOf
<1>8. \A n \in 0 .. N : g(n) \in Nat /\ q(n) \in Nat
  <2>1. \A n \in 0 .. N : G(n) \in Seq(Sent)
    <3> HIDE DEF E
    <3>1. QED
      BY <1>1, FlattenType
  <2>2. \A n \in 0 .. N : Q(n) \in Seq(Letters)
    BY <1>2, FlattenType
  <2> HIDE DEF G, Q
  <2>3. QED
    BY <2>1, <2>2
<1>9. g(0) = 0 /\ q(0) = 0 /\ q(N) = Len(Payload(r)) /\ g(N) = Len(FlattenSeq(E))
  <2>1. g(0) = Len(<<>>) /\ q(0) = Len(<<>>)
    BY <1>6, <1>7
  <2>2. QED
    BY <1>6, <1>7, <2>1
<1> HIDE DEF G, Q, H, E, g, q
<1>10. Start(r, 1) = H /\ Before(r, 1) = 0
  <2>1. Start(r, 1) = H + g(0) /\ Before(r, 1) = q(0)
    BY <1>5
  <2>2. QED
    BY <1>3, <1>9, <2>1
<1>11. Before(r, N + 1) = Len(Payload(r)) /\ Start(r, N + 1) = H + Len(FlattenSeq(E))
  <2>1. (N + 1) - 1 = N
    BY <1>2
  <2>2. Start(r, N + 1) = H + g(N) /\ Before(r, N + 1) = q(N)
    BY <1>5, <2>1
  <2>3. QED
    BY <1>9, <2>2
<1>12. \A c \in 1 .. N + 1 : Start(r, c) \in Nat /\ Before(r, c) \in Nat
  <2> SUFFICES ASSUME NEW c \in 1 .. N + 1 PROVE Start(r, c) \in Nat /\ Before(r, c) \in Nat
    OBVIOUS
  <2>1. c - 1 \in 0 .. N
    BY <1>2
  <2>2. QED
    BY <1>3, <1>5, <1>8, <2>1
<1>13. ASSUME NEW c \in 1 .. N
       PROVE  /\ Start(r, c + 1) = Start(r, c) + SizeOf(r, c) + r.digits + 4
              /\ Before(r, c + 1) = Before(r, c) + SizeOf(r, c)
              /\ Start(r, c + 1) <= Start(r, N + 1)
              /\ Before(r, c + 1) <= Len(Payload(r))
  <2>1. (c + 1) - 1 = c /\ (N + 1) - 1 = N /\ c - 1 \in 0 .. N /\ c \in 0 .. N /\ N \in 0 .. N
    BY <1>2
  <2>2. /\ Start(r, c + 1) = H + g(c) /\ Start(r, c) = H + g(c - 1)
        /\ Start(r, N + 1) = H + g(N)
        /\ Before(r, c + 1) = q(c) /\ Before(r, c) = q(c - 1)
    BY <1>5, <2>1
  <2>3. /\ g(c) = g(c - 1) + Len(E[c]) /\ g(c) <= g(N)
        /\ q(c) = q(c - 1) + SizeOf(r, c) /\ q(c) <= Len(Payload(r))
    BY <1>6, <1>7
  <2>4. /\ g(c) \in Nat /\ g(c - 1) \in Nat /\ g(N) \in Nat
        /\ q(c) \in Nat /\ q(c - 1) \in Nat
    BY <1>8, <2>1
  <2>5. Len(E[c]) = SizeOf(r, c) + r.digits + 4 /\ SizeOf(r, c) \in 1 .. 9
    BY <1>4
  <2>6. Start(r, c + 1) = Start(r, c) + SizeOf(r, c) + r.digits + 4
    <3> DEFINE s == SizeOf(r, c)
               w == r.digits
               y == g(c)
               x == g(c - 1)
               e == Len(E[c])
    <3>1. y = x + (s + w + 4) /\ s \in Nat /\ w \in Nat /\ x \in Nat /\ y \in Nat
      <4>1. e = s + w + 4 /\ s \in 1 .. 9
        BY <2>5
      <4>2. y = x + e /\ x \in Nat /\ y \in Nat
        BY <2>3, <2>4
      <4>3. w \in 1 .. 4
        BY <1>2
      <4> HIDE DEF s, w, x, y, e
      <4>4. QED
        BY <4>1, <4>2, <4>3
    <3>2. Start(r, c + 1) = H + y /\ Start(r, c) = H + x
      BY <2>2
    <3> HIDE DEF s, w, x, y
    <3>3. H + y = (H + x) + s + w + 4
      BY <1>3, <3>1
    <3>4. QED
      BY <3>2, <3>3 DEF s, w
  <2>7. Before(r, c + 1) = Before(r, c) + SizeOf(r, c) /\ Before(r, c + 1) <= Len(Payload(r))
    BY <2>2, <2>3
  <2>8. Start(r, c + 1) <= Start(r, N + 1)
    BY <1>3, <2>2, <2>3, <2>4
  <2>9. QED
    BY <2>6, <2>7, <2>8
<1>14. QED
  BY <1>2, <1>4, <1>10, <1>11, <1>12, <1>13 DEF H, E

(* Where the bytes of a chunk are in the payload. *)
LEMMA PayloadPlaces ==
  ASSUME NEW r, IsResponse(r), NEW c \in 1 .. Len(r.chunks), NEW j \in 1 .. SizeOf(r, c)
  PROVE  Payload(r)[Before(r, c) + j] = r.chunks[c][j]
<1>1. r.chunks \in Seq(Seq(Letters))
  BY DEF IsResponse
<1>2. QED
  BY <1>1, FlattenPlaces DEF Payload, Before, SizeOf

(* What is at the places of a chunk, and behind the last one. *)
LEMMA ChunkBytes ==
  ASSUME NEW r, IsResponse(r), r.framing = "chunked", NEW c \in 1 .. Len(r.chunks),
         NEW j \in 1 .. SizeOf(r, c) + r.digits + 4
  PROVE  Stream(r)[Start(r, c) + j] = Chunk(r.chunks[c], r.digits)[j]
<1> DEFINE E == Encoded(r)
           N == Len(r.chunks)
           G == FlattenSeq(E)
           P == Len(FlattenSeq(Leading(E, c - 1)))
           H == Len(Header(r))
<1>1. /\ E \in Seq(Seq(Sent)) /\ Len(E) = N
      /\ E[c] = Chunk(r.chunks[c], r.digits) /\ r.chunks[c] \in Seq(Letters)
      /\ Len(r.chunks[c]) \in 1 .. 9
  BY EncodedIs
<1> DEFINE D == r.digits + 4
<1>2. Len(E[c]) = SizeOf(r, c) + D /\ D \in Nat /\ j \in 1 .. SizeOf(r, c) + D
  <2> HIDE DEF E
  <2>1. r.digits \in 1 .. 4
    BY DEF IsResponse
  <2>2. Len(Chunk(r.chunks[c], r.digits)) = Len(r.chunks[c]) + r.digits + 4
    BY <1>1, <2>1, ChunkIs
  <2> DEFINE w == r.digits
             z == SizeOf(r, c)
  <2>3. z \in 1 .. 9 /\ w \in 1 .. 4 /\ Len(E[c]) = z + w + 4 /\ j \in 1 .. z + w + 4
    BY <1>1, <2>1, <2>2 DEF SizeOf
  <2> HIDE DEF w, z
  <2>4. Len(E[c]) = z + (w + 4) /\ w + 4 \in Nat /\ j \in 1 .. z + (w + 4)
    BY <2>3
  <2>5. QED
    BY <2>4 DEF w, z
<1>3. G[P + j] = Chunk(r.chunks[c], r.digits)[j]
  <2> HIDE DEF E
  <2>1. j \in 1 .. Len(E[c]) /\ c \in 1 .. Len(E)
    BY <1>1, <1>2
  <2>2. QED
    BY <1>1, <2>1, FlattenPlaces
<1>4. /\ Start(r, c) = H + P
      /\ P \in Nat /\ Len(G) \in Nat /\ P + SizeOf(r, c) + D <= Len(G) /\ G \in Seq(Sent)
      /\ SizeOf(r, c) \in Nat /\ H \in Nat
  <2>1. /\ N \in Nat /\ Start(r, N + 1) = H + Len(G)
        /\ Start(r, c) \in Nat /\ Start(r, c + 1) = Start(r, c) + SizeOf(r, c) + r.digits + 4
        /\ Start(r, c + 1) <= Start(r, N + 1) /\ SizeOf(r, c) \in 1 .. 9
    <3>1. N \in Nat
      BY DEF IsResponse
    <3>2. c \in 1 .. N + 1
      BY <3>1
    <3>3. QED
      BY <3>2, ChunkStarts
  <2>2. Start(r, c) = H + P
    BY DEF Start
  <2>3. H \in Nat
    BY StreamIs
  <2>4. P \in Nat
    <3>1. c - 1 \in 0 .. N
      BY <2>1
    <3>2. FlattenSeq(Leading(E, c - 1)) \in Seq(Sent)
      <4> HIDE DEF E
      <4>1. QED
        BY <1>1, <3>1, FlattenType
    <3>3. QED
      BY <3>2
  <2>5. G \in Seq(Sent)
    <3>1. N \in 0 .. N
      BY <2>1
    <3>2. FlattenSeq(Leading(E, N)) \in Seq(Sent) /\ FlattenSeq(Leading(E, N)) = G
      <4> HIDE DEF E
      <4>1. QED
        BY <1>1, <3>1, FlattenType, FlattenPlaces
    <3>3. QED
      BY <3>2
  <2>6. Len(G) \in Nat
    BY <2>5
  <2> DEFINE g == Len(G)
  <2> HIDE DEF P, H, G, g
  <2>9. Start(r, N + 1) = H + g /\ g \in Nat
    BY <2>1, <2>6 DEF g
  <2>7. P + SizeOf(r, c) + D <= g
    <3> DEFINE s == SizeOf(r, c)
               x == Start(r, c)
               y == Start(r, c + 1)
               z == Start(r, N + 1)
    <3>1. y = x + s + D /\ y <= z /\ s \in Nat /\ x \in Nat /\ D \in Nat
      <4> DEFINE w == r.digits
      <4>1. w \in 1 .. 4
        BY DEF IsResponse
      <4>2. y = x + s + w + 4 /\ y <= z /\ s \in Nat /\ x \in Nat
        BY <2>1
      <4> HIDE DEF w, s, x, y, z
      <4>3. y = x + s + (w + 4) /\ w + 4 \in Nat
        BY <4>1, <4>2
      <4>4. QED
        BY <4>2, <4>3 DEF w
    <3>2. x = H + P /\ z = H + g
      BY <2>2, <2>9
    <3> HIDE DEF s, x, y, z, D
    <3>3. P + s + D <= g
      BY <2>3, <2>4, <2>9, <3>1, <3>2
    <3>4. QED
      BY <3>3 DEF s
  <2>8. QED
    BY <2>1, <2>2, <2>3, <2>4, <2>5, <2>6, <2>7, SMTT(20) DEF g
<1> HIDE DEF E, P, G, H
<1> DEFINE Z == <<"0">>
<1>5. Body(r) = G \o Z \o CRLF \o CRLF
  BY BodyType DEF G, E
<1>6. Z \in Seq(Sent) /\ CRLF \in Seq(Sent)
  BY HexDigits DEF Sent, CRLF
<1> HIDE DEF Z
<1>7. P + j \in 1 .. Len(G) /\ H + (P + j) = Start(r, c) + j
  <2> HIDE DEF D
  <2>1. QED
    BY <1>2, <1>4
<1>8. Body(r)[P + j] = G[P + j] /\ P + j \in 1 .. Len(Body(r))
  <2> DEFINE A == G \o Z
             B == A \o CRLF
             C == B \o CRLF
  <2>1. /\ A \in Seq(Sent) /\ Len(A) = Len(G) + Len(Z) /\ Len(Z) \in Nat
        /\ \A i \in 1 .. Len(G) : A[i] = G[i]
    BY <1>4, <1>6, ConcatSent, Zenon
  <2> HIDE DEF A
  <2>2. /\ B \in Seq(Sent) /\ Len(B) = Len(A) + Len(CRLF) /\ Len(CRLF) \in Nat
        /\ \A i \in 1 .. Len(A) : B[i] = A[i]
    BY <1>6, <2>1, ConcatSent, Zenon
  <2> HIDE DEF B
  <2>3. /\ C \in Seq(Sent) /\ Len(C) = Len(B) + Len(CRLF)
        /\ \A i \in 1 .. Len(B) : C[i] = B[i]
    BY <1>6, <2>2, ConcatSent, Zenon
  <2>4. Body(r) = C
    BY <1>5 DEF B, A
  <2> HIDE DEF C
  <2>5. P + j \in 1 .. Len(A) /\ P + j \in 1 .. Len(B) /\ P + j \in 1 .. Len(C)
    BY <1>4, <1>7, <2>1, <2>2, <2>3
  <2>6. QED
    BY <1>7, <2>1, <2>2, <2>3, <2>4, <2>5
<1>9. Stream(r)[H + (P + j)] = Body(r)[P + j]
  BY <1>8, StreamIs DEF H
<1>10. QED
  BY <1>3, <1>7, <1>8, <1>9

(* What is behind the chunks: a last one, of size 0. *)
LEMMA TailBytes ==
  ASSUME NEW r, IsResponse(r), r.framing = "chunked", NEW e, e = Start(r, Len(r.chunks) + 1)
  PROVE  /\ Len(Stream(r)) = e + 5
         /\ Stream(r)[e + 1] = "0" /\ Stream(r)[e + 2] = "CR" /\ Stream(r)[e + 3] = "LF"
         /\ Stream(r)[e + 4] = "CR" /\ Stream(r)[e + 5] = "LF"
<1> DEFINE G == FlattenSeq(Encoded(r))
           Z == <<"0">>
           H == Len(Header(r))
           A == G \o Z
           B == A \o CRLF
           C == B \o CRLF
<1>1. Z \in Seq(Sent) /\ Len(Z) = 1 /\ Z[1] = "0"
  BY HexDigits DEF Sent
<1>2. CRLF \in Seq(Sent) /\ Len(CRLF) = 2 /\ CRLF[1] = "CR" /\ CRLF[2] = "LF"
  BY DEF Sent, CRLF
<1>3. Body(r) = C
  BY BodyType
<1>4. e = H + Len(G) /\ H \in Nat
  <2>1. Start(r, Len(r.chunks) + 1) = Len(Header(r)) + Len(FlattenSeq(Encoded(r)))
    BY ChunkStarts
  <2>2. QED
    BY <2>1, StreamIs
<1>5. G \in Seq(Sent) /\ Len(G) \in Nat
  <2>1. Encoded(r) \in Seq(Seq(Sent))
    BY EncodedIs
  <2>2. Len(Encoded(r)) \in 0 .. Len(Encoded(r))
    BY <2>1
  <2>3. FlattenSeq(Leading(Encoded(r), Len(Encoded(r)))) \in Seq(Sent)
    BY <2>1, <2>2, FlattenType
  <2>4. G \in Seq(Sent)
    BY <2>1, <2>3, FlattenPlaces
  <2> HIDE DEF G
  <2>5. QED
    BY <2>4
<1> HIDE DEF G, Z, H
<1>6. /\ A \in Seq(Sent) /\ Len(A) = Len(G) + Len(Z)
      /\ \A i \in 1 .. Len(Z) : A[Len(G) + i] = Z[i]
  BY <1>1, <1>5, ConcatSent, Zenon
<1> HIDE DEF A
<1>7. /\ B \in Seq(Sent) /\ Len(B) = Len(A) + Len(CRLF)
      /\ \A i \in 1 .. Len(A) : B[i] = A[i]
      /\ \A i \in 1 .. Len(CRLF) : B[Len(A) + i] = CRLF[i]
  BY <1>2, <1>6, ConcatSent, Zenon
<1> HIDE DEF B
<1>8. /\ C \in Seq(Sent) /\ Len(C) = Len(B) + Len(CRLF)
      /\ \A i \in 1 .. Len(B) : C[i] = B[i]
      /\ \A i \in 1 .. Len(CRLF) : C[Len(B) + i] = CRLF[i]
  BY <1>2, <1>7, ConcatSent, Zenon
<1> HIDE DEF C
<1>9. Len(A) = Len(G) + 1 /\ Len(B) = Len(G) + 3 /\ Len(C) = Len(G) + 5
  BY <1>1, <1>2, <1>5, <1>6, <1>7, <1>8
<1> DEFINE g == Len(G)
<1>10. /\ C[g + 1] = "0" /\ C[g + 2] = "CR" /\ C[g + 3] = "LF"
       /\ C[g + 4] = "CR" /\ C[g + 5] = "LF"
  <2>1. g + 1 \in 1 .. Len(A) /\ g + 1 \in 1 .. Len(B) /\ g + 2 \in 1 .. Len(B)
        /\ g + 3 \in 1 .. Len(B) /\ g + 2 = Len(A) + 1 /\ g + 3 = Len(A) + 2
        /\ g + 4 = Len(B) + 1 /\ g + 5 = Len(B) + 2
    BY <1>5, <1>9
  <2> HIDE DEF g
  <2>2. A[g + 1] = "0"
    BY <1>1, <1>6 DEF g
  <2>3. B[g + 1] = "0" /\ B[g + 2] = "CR" /\ B[g + 3] = "LF"
    BY <1>2, <1>7, <2>1, <2>2
  <2>4. C[g + 4] = "CR" /\ C[g + 5] = "LF"
    <3>1. 1 \in 1 .. Len(CRLF) /\ 2 \in 1 .. Len(CRLF)
      BY <1>2
    <3>2. C[Len(B) + 1] = CRLF[1] /\ C[Len(B) + 2] = CRLF[2]
      BY <1>8, <3>1, Zenon
    <3>3. QED
      BY <1>2, <2>1, <3>2
  <2>5. QED
    BY <1>8, <2>1, <2>3, <2>4
<1>11. ASSUME NEW j \in 1 .. 5 PROVE Stream(r)[e + j] = C[g + j]
  <2>1. g + j \in 1 .. Len(Body(r)) /\ e + j = H + (g + j)
    BY <1>3, <1>4, <1>5, <1>9
  <2>2. QED
    BY <1>3, <2>1, StreamIs DEF H
<1>12. Len(Stream(r)) = e + 5
  <2>1. Len(Stream(r)) = H + Len(C)
    BY <1>3, StreamIs DEF H
  <2>2. QED
    BY <1>4, <1>5, <1>9, <2>1
<1>13. /\ Stream(r)[e + 1] = C[g + 1] /\ Stream(r)[e + 2] = C[g + 2]
       /\ Stream(r)[e + 3] = C[g + 3] /\ Stream(r)[e + 4] = C[g + 4]
       /\ Stream(r)[e + 5] = C[g + 5]
  <2>1. 1 \in 1 .. 5 /\ 2 \in 1 .. 5 /\ 3 \in 1 .. 5 /\ 4 \in 1 .. 5 /\ 5 \in 1 .. 5
    OBVIOUS
  <2> HIDE DEF C, g
  <2>2. QED
    BY <1>11, <2>1
<1> HIDE DEF C, g
<1>14. QED
  BY <1>10, <1>12, <1>13

--------------------------------------------------------------------------------
(* What the decoder makes of the digits of a size.                              *)

(* Bytes of the stream have no terminating 0 among them. *)
LEMMA CStringIs == \A s \in Seq(Sent) : CString(s) = s
<1> SUFFICES ASSUME NEW s \in Seq(Sent) PROVE CString(s) = s
  OBVIOUS
<1>1. "nul" \notin Sent
  BY HexDigits DEF Sent, Letters
<1>2. {n \in 1 .. Len(s) : s[n] = "nul"} = {}
  BY <1>1
<1>3. Len(s) + 1 \in Nat
  OBVIOUS
<1>4. Min({Len(s) + 1}) = Len(s) + 1
  BY <1>3, MinIs
<1>5. CString(s) = SubSeq(s, 1, (Len(s) + 1) - 1)
  BY <1>2, <1>4 DEF CString
<1>6. QED
  BY <1>5

(* The value of a digit. *)
LEMMA HexValueIs == \A v \in 0 .. 9 : HexValue(Hex[v + 1]) = v
<1>1. /\ Hex[1] = "0" /\ Hex[2] = "1" /\ Hex[3] = "2" /\ Hex[4] = "3" /\ Hex[5] = "4"
      /\ Hex[6] = "5" /\ Hex[7] = "6" /\ Hex[8] = "7" /\ Hex[9] = "8" /\ Hex[10] = "9"
      /\ Len(Hex) = 10
  BY DEF Hex
<1>2. ASSUME NEW v \in 0 .. 9, NEW w \in 0 .. 9, Hex[v + 1] = Hex[w + 1] PROVE v = w
  <2>1. /\ v = 0 \/ v = 1 \/ v = 2 \/ v = 3 \/ v = 4 \/ v = 5 \/ v = 6 \/ v = 7 \/ v = 8 \/ v = 9
        /\ w = 0 \/ w = 1 \/ w = 2 \/ w = 3 \/ w = 4 \/ w = 5 \/ w = 6 \/ w = 7 \/ w = 8 \/ w = 9
    OBVIOUS
  <2>2. QED
    BY <1>1, <1>2, <2>1
<1>3. \A b : HexValue(b) = CHOOSE v \in 0 .. 9 : Hex[v + 1] = b
  <2>1. Len(Hex) - 1 = 9
    BY <1>1
  <2>2. QED
    BY <2>1 DEF HexValue
<1>4. QED
  BY <1>2, <1>3

(* The value of digits is what its recursive definition says. *)
LEMMA NumberUnfolds ==
  ASSUME NEW d, Len(d) \in Nat, \A n \in 1 .. Len(d) : HexValue(d[n]) \in Nat
  PROVE  \E f \in [0 .. Len(d) -> Nat] :
           /\ Number(d) = f[Len(d)] /\ f[0] = 0
           /\ \A n \in 1 .. Len(d) : f[n] = 16 * f[n - 1] + HexValue(d[n])
<1> DEFINE M == Len(d)
           Longer(n, v) == 16 * v + HexValue(d[n])
           Unfolded(f) == [n \in 0 .. M |-> IF n = 0 THEN 0 ELSE Longer(n, f[n - 1])]
           step == [n \in 1 .. M |-> [v \in Nat |-> Longer(n, v)]]
           F == CHOOSE f : f = Unfolded(f)
<1>1. Number(d) = F[M]
  BY DEF Number
<1>2. M \in Nat
  OBVIOUS
<1>3. \A n \in 1 .. M : \A v \in Nat : Longer(n, v) \in Nat
  <2> SUFFICES ASSUME NEW n \in 1 .. M, NEW v \in Nat PROVE Longer(n, v) \in Nat
    OBVIOUS
  <2>1. HexValue(d[n]) \in Nat
    OBVIOUS
  <2>2. QED
    BY <2>1
<1>4. ASSUME NEW f
      PROVE  f = Unfolded(f) <=>
               /\ f = [n \in 0 .. M |-> f[n]]
               /\ \A n \in 0 .. M : f[n] = IF n = 0 THEN 0 ELSE Longer(n, f[n - 1])
  <2> HIDE DEF Longer, M
  <2>1. QED
    OBVIOUS
<1>5. F = CHOOSE f : f = Unfolded(f)
  OBVIOUS
<1>6. \A n \in 1 .. M : \A v : Longer(n, v) = 16 * v + HexValue(d[n])
  OBVIOUS
<1> HIDE DEF Longer, Unfolded, F, M
<1>7. PICK g : Follows(g, M, Nat, 0, step)
  <2>1. \A n \in 1 .. M : \A v \in Nat : step[n][v] \in Nat
    BY <1>3
  <2>2. 0 \in Nat
    OBVIOUS
  <2> HIDE DEF step
  <2>3. QED
    BY <1>2, <2>1, <2>2, RecursionExists
<1>8. g = Unfolded(g)
  <2>1. \A n \in 1 .. M : g[n] = Longer(n, g[n - 1])
    <3> SUFFICES ASSUME NEW n \in 1 .. M PROVE g[n] = Longer(n, g[n - 1])
      OBVIOUS
    <3>1. n - 1 \in 0 .. M
      BY <1>2
    <3>2. g \in [0 .. M -> Nat]
      BY <1>7 DEF Follows
    <3>3. g[n - 1] \in Nat
      BY <3>1, <3>2
    <3>4. step[n][g[n - 1]] = Longer(n, g[n - 1])
      BY <3>3
    <3> HIDE DEF step
    <3>5. QED
      BY <1>7, <3>4 DEF Follows
  <2> HIDE DEF step
  <2>2. g[0] = 0 /\ g \in [0 .. M -> Nat]
    BY <1>7 DEF Follows
  <2>3. \A n \in 0 .. M : g[n] = IF n = 0 THEN 0 ELSE Longer(n, g[n - 1])
    BY <1>2, <2>1, <2>2
  <2>4. g = [n \in 0 .. M |-> g[n]]
    BY <2>2
  <2>5. QED
    BY <1>4, <2>3, <2>4
<1>9. F = Unfolded(F)
  BY <1>5, <1>8, Zenon
<1>10. /\ F = [n \in 0 .. M |-> F[n]]
       /\ F[0] = 0 /\ \A n \in 1 .. M : F[n] = Longer(n, F[n - 1])
  <2>1. /\ F = [n \in 0 .. M |-> F[n]]
        /\ \A n \in 0 .. M : F[n] = IF n = 0 THEN 0 ELSE Longer(n, F[n - 1])
    BY <1>4, <1>9
  <2>2. 0 \in 0 .. M /\ \A n \in 1 .. M : n \in 0 .. M /\ n # 0
    BY <1>2
  <2>3. QED
    BY <2>1, <2>2
<1>11. \A n \in 0 .. M : F[n] \in Nat
  <2> DEFINE S == {n \in 0 .. M : F[n] \in Nat}
  <2>1. 0 \in S
    BY <1>2, <1>10
  <2>2. ASSUME NEW n \in 0 .. M - 1, n \in S PROVE n + 1 \in S
    <3>1. n + 1 \in 1 .. M /\ (n + 1) - 1 = n /\ n + 1 \in 0 .. M
      BY <1>2
    <3>2. F[n + 1] = Longer(n + 1, F[n])
      BY <1>10, <3>1
    <3>3. Longer(n + 1, F[n]) \in Nat
      BY <1>3, <2>2, <3>1
    <3>4. QED
      BY <3>1, <3>2, <3>3
  <2> HIDE DEF S
  <2>3. 0 .. M \subseteq S
    BY <1>2, <2>1, <2>2, IntervalInduction
  <2>4. QED
    BY <2>3 DEF S
<1>12. F \in [0 .. M -> Nat]
  BY <1>10, <1>11
<1>13. \A n \in 1 .. M : F[n] = 16 * F[n - 1] + HexValue(d[n])
  BY <1>6, <1>10
<1>14. QED
  BY <1>1, <1>10, <1>12, <1>13 DEF M

(* The value of four digits of which only the last is not 0. *)
LEMMA NumberIs ==
  ASSUME NEW d, d \in Seq(Sent), Len(d) = 4, d[1] = "0", d[2] = "0", d[3] = "0",
         NEW k \in 0 .. 9, d[4] = Hex[k + 1]
  PROVE  Number(d) = k
<1>1. HexValue(d[1]) = 0 /\ HexValue(d[2]) = 0 /\ HexValue(d[3]) = 0 /\ HexValue(d[4]) = k
  <2>1. Hex[0 + 1] = "0"
    BY HexDigits
  <2>2. HexValue("0") = 0
    BY <2>1, HexValueIs
  <2>3. QED
    BY <2>2, HexValueIs
<1>2. \A n \in 1 .. Len(d) : HexValue(d[n]) \in Nat
  <2>1. \A n \in 1 .. 4 : n = 1 \/ n = 2 \/ n = 3 \/ n = 4
    OBVIOUS
  <2>2. QED
    BY <1>1, <2>1
<1>3. PICK f \in [0 .. Len(d) -> Nat] :
        /\ Number(d) = f[Len(d)] /\ f[0] = 0
        /\ \A n \in 1 .. Len(d) : f[n] = 16 * f[n - 1] + HexValue(d[n])
  <2>1. Len(d) \in Nat
    OBVIOUS
  <2>2. QED
    BY <1>2, <2>1, NumberUnfolds
<1> DEFINE g(n) == f[n]
<1>4. /\ g(0) = 0 /\ g(1) = 16 * g(0) + 0 /\ g(2) = 16 * g(1) + 0
      /\ g(3) = 16 * g(2) + 0 /\ g(4) = 16 * g(3) + k /\ Number(d) = g(4)
  <2>1. 1 \in 1 .. 4 /\ 2 \in 1 .. 4 /\ 3 \in 1 .. 4 /\ 4 \in 1 .. 4
        /\ 1 - 1 = 0 /\ 2 - 1 = 1 /\ 3 - 1 = 2 /\ 4 - 1 = 3
    OBVIOUS
  <2>2. QED
    BY <1>1, <1>3, <2>1
<1> HIDE DEF g
<1>5. QED
  BY <1>4

(* The same digits, as strtol sees them. *)
LEMMA StrtolIs ==
  ASSUME NEW d, d \in Seq(Sent), Len(d) = 4, d[1] = "0", d[2] = "0", d[3] = "0",
         NEW k \in 0 .. 9, d[4] = Hex[k + 1]
  PROVE  Strtol(d) = k
<1>1. "0" \in Digits /\ Hex[k + 1] \in Digits /\ "0" \notin {"CR", "LF"}
  <2>1. k + 1 \in 1 .. 10
    OBVIOUS
  <2>2. QED
    BY <2>1, HexDigits
<1>2. \A n \in 1 .. 4 : d[n] \in Digits
  <2>1. \A n \in 1 .. 4 : n = 1 \/ n = 2 \/ n = 3 \/ n = 4
    OBVIOUS
  <2>2. QED
    BY <1>1, <2>1
<1> DEFINE S == {n \in 1 .. Len(d) : d[n] \notin {"CR", "LF"}} \cup {Len(d) + 1}
           start == Min(S)
           E == {n \in start .. Len(d) : d[n] \notin Digits} \cup {Len(d) + 1}
           stop == Min(E)
<1>3. start = 1
  <2>1. S \in SUBSET Nat /\ 1 \in S /\ \A n \in S : 1 <= n
    BY <1>1
  <2> HIDE DEF S
  <2>2. QED
    BY <2>1, MinIs
<1>4. stop = 5
  <2> HIDE DEF start
  <2>1. E = {5}
    BY <1>2, <1>3
  <2>2. Min({5}) = 5
    BY MinIs
  <2>3. QED
    BY <2>1, <2>2
<1>5. Strtol(d) = Number(SubSeq(d, start, stop - 1))
  BY DEF Strtol
<1> HIDE DEF start, stop
<1>6. SubSeq(d, start, stop - 1) = d
  BY <1>3, <1>4
<1>7. QED
  BY <1>5, <1>6, NumberIs

--------------------------------------------------------------------------------
(* The inductive invariant.                                                     *)

HL == Len(Header(response))
N == Len(response.chunks)
payload == Payload(response)
First(k) == SubSeq(payload, 1, k)       \* k bytes of the body
InChunks == response.framing = "chunked"

(* n bytes from place i of the buffer are the last n that have been read. *)
Loaded(i, n) == \A j \in 0 .. n - 1 : buffer[i + j] = stream[pos - n + j + 1]

(* The decoder has consumed q bytes: it has have of the size of chunk c, or     *)
(* misses due bytes of the line end behind the size, of the data, or of the     *)
(* line end behind the data.  Once it is past a size, that had four digits.     *)
FourDigits == response.digits = 4
SizeAt(c, q, have) ==
  /\ c \in 1 .. N + 1
  /\ FourDigits \/ (c = 1 /\ have = <<>>)
  /\ have \in Seq(Sent)
  /\ Len(have) <= 3 /\ (c = N + 1 => Len(have) <= 2)
  /\ q = Start(response, c) + Len(have)
  /\ \A j \in 1 .. Len(have) : have[j] = stream[Start(response, c) + j]
  /\ delivered = First(Before(response, c))
MidAt(c, q, due) ==
  /\ FourDigits /\ c \in 1 .. N /\ chunk_size = SizeOf(response, c)
  /\ due \in 1 .. 2 /\ q + due = Start(response, c) + 6
  /\ delivered = First(Before(response, c))
DataAt(c, q, due) ==
  /\ FourDigits /\ c \in 1 .. N /\ chunk_size = SizeOf(response, c)
  /\ due \in 1 .. chunk_size /\ q + due = Start(response, c) + 6 + chunk_size
  /\ delivered = First(Before(response, c) + chunk_size - due)
EndAt(c, q, due) ==
  /\ FourDigits /\ c \in 1 .. N /\ chunk_size = SizeOf(response, c)
  /\ due \in 1 .. 2 /\ q + due = Start(response, c) + 8 + chunk_size
  /\ delivered = First(Before(response, c + 1))

(* Between two calls: where the decoder continues. *)
DecoderAt(q) ==
  \E c \in 1 .. N + 1 :
    \/ chunk_terminate_state = 0 /\ SizeAt(c, q, chunk_size_str)
    \/ chunk_terminate_state = 1 /\ MidAt(c, q, chunk_state_remain_byte)
    \/ chunk_terminate_state = 2 /\ DataAt(c, q, chunk_state_remain_byte)
    \/ chunk_terminate_state = 3 /\ EndAt(c, q, chunk_state_remain_byte)
PlainAt(q) == HL <= q /\ delivered = First(q - HL) /\ body_len = q - HL
BodyAt(q) == IF InChunks THEN DecoderAt(q) ELSE PlainAt(q)

Fresh == delivered = <<>> /\ body_len = 0
Due(k) == IF entering THEN chunk_state_remain_byte ELSE k
Base == pos - read_len

Cut == closed /\ pos < Len(stream)

Wire ==
  /\ state = "body" /\ pc \notin {"header_end", "body"} =>
       remain_len = 0 /\ (InChunks => remain_index = 0)
  /\ pc = "failed" => Cut
  /\ delivered = First(Len(delivered)) /\ Len(delivered) <= Len(payload)

\* The fields have been read; the header has been left, and how the body is framed is settled.
FieldDue == state = "body" \/ (pc = "parse" /\ prev > 0 /\ Base + prev = HL - 2)
Settled == state = "body" /\ pc # "header_end"
Fields ==
  /\ ~InChunks \/ state \in {"first_line", "header_line"} \/ pc = "header_end" => ~forced_continue
  /\ FieldDue => /\ response.framing # "no_space"
                 /\ InChunks => transfer_encoding = "chunked"
                 /\ response.framing = "length" => content_length = Len(payload)
  /\ Settled /\ ~InChunks => /\ transfer_encoding = "none"
                             /\ response.framing # "length" => content_length = 0

(* In the header, up to a read that begins with the rest of a line. *)
AtRead ==
  pc = "read" =>
    \/ /\ state \in {"first_line", "header_line"} /\ pos < HL /\ Fresh
       /\ remain_len = 0 => \/ state = "first_line" /\ pos = 0
                            \/ state = "header_line" /\ pos \in {4, HL - 2}
    \/ state = "body" /\ BodyAt(pos) /\ (InChunks => chunk_size > 0)

AtParse ==
  pc = "parse" =>
    /\ Fresh /\ read_len <= pos /\ Loaded(0, read_len)
    /\ \/ state = "first_line" /\ Base = 0 /\ prev = 0
       \/ state = "header_line" /\ Base \in {0, 4} /\ Base + prev = 4
       \/ state = "header_line" /\ Base \in {0, 4, HL - 2} /\ Base + prev = HL - 2

AtHeaderEnd ==
  pc = "header_end" =>
    /\ state = "body" /\ Fresh
    /\ pos >= HL /\ remain_len = pos - HL
    /\ remain_index > 0 /\ remain_index + remain_len = read_len
    /\ Loaded(remain_index, remain_len)

(* The decoder is called with a buffer of which nothing is left, or it is where *)
(* the bytes that are left begin.                                               *)
AtBody ==
  pc = "body" =>
    /\ state = "body"
    /\ ~InChunks => /\ remain_len = 0 /\ PlainAt(pos - read_len)
                    /\ Loaded(0, read_len) /\ read_len <= pos
    /\ InChunks =>
         \/ remain_len = 0 /\ remain_index > 0 /\ read_len > 0
         \/ /\ DecoderAt(pos - Unread) /\ Loaded(remain_index, Unread)
            /\ remain_index + Unread = read_len /\ Unread <= pos
            /\ read_len = 0 => chunk_size > 0

Inside(l) ==
  /\ state = "body" /\ InChunks
  /\ Loaded(idx, len) /\ len <= pos
  /\ entering => Labels[chunk_terminate_state + 1] = l
AtSize ==
  pc = "size" =>
    /\ Inside("size")
    /\ \E c \in 1 .. N + 1 : SizeAt(c, pos - len, Have)
    /\ ~entering => FourDigits /\ chunk_size > 0
AtMid == pc = "mid" => Inside("mid") /\ \E c \in 1 .. N : MidAt(c, pos - len, Due(2))
AtChunk == pc = "chunk" => Inside("chunk") /\ \E c \in 1 .. N : DataAt(c, pos - len, Due(chunk_size))
AtEnd == pc = "end" => Inside("end") /\ \E c \in 1 .. N : EndAt(c, pos - len, Due(2))

AtCheck ==
  pc = "check" =>
    /\ state = "body"
    /\ IF InChunks THEN IF chunk_size = 0 THEN delivered = payload ELSE DecoderAt(pos)
                   ELSE PlainAt(pos)

IInv == /\ TypeInv /\ Window /\ Wire /\ Fields
        /\ AtRead /\ AtParse /\ AtHeaderEnd /\ AtBody
        /\ AtSize /\ AtMid /\ AtChunk /\ AtEnd /\ AtCheck

--------------------------------------------------------------------------------
(* What the invariant's parts say of the response that is read.                 *)

(* Every member of a session is a response. *)
LEMMA SessionResponses == \A s \in Sessions : \A j \in 1 .. Len(s) : IsResponse(s[j])
<1> SUFFICES ASSUME NEW s \in Sessions, NEW j \in 1 .. Len(s)
             PROVE  IsResponse(s[j])
  OBVIOUS
<1>1. s[j] \in Responses
  BY ResponseAssumption
<1>2. s[j].framing \in Framings /\ s[j].chunks \in Seq(Seq(Letters)) /\ s[j].digits \in 1 .. 4
  BY <1>1 DEF Responses
<1>3. QED
  BY <1>2, ResponseAssumption DEF IsResponse, Payload

(* A session has a response. *)
LEMMA SessionLength == \A s \in Sessions : Len(s) \in Nat /\ Len(s) >= 1
BY ResponseAssumption

(* What the response that is read looks like. *)
LEMMA ResponseFacts ==
  ASSUME TypeInv
  PROVE  /\ IsResponse(response)
         /\ stream = Stream(response) /\ stream \in Seq(Sent)
         /\ HL \in 10 .. 11 /\ (response.framing # "no_space" => HL = 11)
         /\ Len(stream) \in Nat /\ Len(stream) >= HL
         /\ \A j \in 1 .. HL : stream[j] = Header(response)[j]
         /\ payload \in Seq(Letters) /\ Len(payload) \in Nat
         /\ N \in Nat
<1>1. IsResponse(response)
  BY SessionResponses DEF TypeInv, response
<1>2. stream = Stream(response)
  BY DEF stream, Stream
<1>3. /\ Stream(response) \in Seq(Sent)
      /\ Len(Stream(response)) = HL + Len(Body(response))
      /\ \A j \in 1 .. HL : Stream(response)[j] = Header(response)[j]
      /\ HL \in 10 .. 11 /\ (response.framing # "no_space" => HL = 11)
      /\ Len(Body(response)) \in Nat
  BY <1>1, StreamIs DEF HL
<1>4. payload \in Seq(Letters)
  BY <1>1, PayloadType DEF payload
<1>5. N \in Nat
  BY <1>1 DEF IsResponse, N
<1>6. Len(payload) \in Nat
  BY <1>4
<1>7. Len(stream) \in Nat /\ Len(stream) >= HL
  BY <1>2, <1>3
<1>8. QED
  BY <1>1, <1>2, <1>3, <1>4, <1>5, <1>6, <1>7

(* A body that is not in chunks follows the header as it is. *)
LEMMA PlainLayout ==
  ASSUME TypeInv, ~InChunks
  PROVE  /\ Len(stream) = HL + Len(payload)
         /\ \A j \in 1 .. Len(payload) : stream[HL + j] = payload[j]
<1>1. IsResponse(response) /\ stream = Stream(response)
  BY ResponseFacts
<1>2. Body(response) = payload
  BY DEF Body, payload, InChunks
<1>3. QED
  BY <1>1, <1>2, StreamIs DEF HL

(* Where the parts of a body in chunks are. *)
LEMMA Layout ==
  ASSUME TypeInv, InChunks
  PROVE  /\ Start(response, 1) = HL /\ Before(response, 1) = 0
         /\ Before(response, N + 1) = Len(payload)
         /\ Len(stream) = Start(response, N + 1) + 5
         /\ \A c \in 1 .. N + 1 : Start(response, c) \in Nat /\ Before(response, c) \in Nat
         /\ \A c \in 1 .. N :
              /\ SizeOf(response, c) \in 1 .. 9
              /\ FourDigits =>
                   Start(response, c + 1) = Start(response, c) + SizeOf(response, c) + 8
              /\ Start(response, c) + 6 <= Start(response, c + 1)
              /\ Before(response, c + 1) = Before(response, c) + SizeOf(response, c)
              /\ Start(response, c + 1) <= Start(response, N + 1)
              /\ Before(response, c + 1) <= Len(payload)
<1>1. IsResponse(response) /\ stream = Stream(response)
  BY ResponseFacts
<1>2. response.framing = "chunked"
  BY DEF InChunks
<1>3. Len(Stream(response)) = Start(response, N + 1) + 5
  BY <1>1, <1>2, TailBytes DEF N
<1>4. /\ Start(response, 1) = HL /\ Before(response, 1) = 0
      /\ Before(response, N + 1) = Len(payload)
      /\ \A c \in 1 .. N + 1 : Start(response, c) \in Nat /\ Before(response, c) \in Nat
      /\ \A c \in 1 .. N :
           /\ SizeOf(response, c) \in 1 .. 9
           /\ Start(response, c + 1) = Start(response, c) + SizeOf(response, c) + response.digits + 4
           /\ Before(response, c + 1) = Before(response, c) + SizeOf(response, c)
           /\ Start(response, c + 1) <= Start(response, N + 1)
           /\ Before(response, c + 1) <= Len(payload)
  BY <1>1, <1>2, ChunkStarts DEF N, HL, payload
<1>5. ASSUME NEW c \in 1 .. N
      PROVE  /\ FourDigits =>
                  Start(response, c + 1) = Start(response, c) + SizeOf(response, c) + 8
             /\ Start(response, c) + 6 <= Start(response, c + 1)
  <2> DEFINE s == Start(response, c)
             t == Start(response, c + 1)
             z == SizeOf(response, c)
             d == response.digits
  <2>1. s \in Nat /\ t = s + z + d + 4 /\ z \in 1 .. 9 /\ d \in 1 .. 4
    <3>1. c \in 1 .. N + 1
      BY ResponseFacts
    <3>2. QED
      BY <1>1, <1>4, <3>1 DEF IsResponse
  <2>2. FourDigits => d = 4
    BY DEF FourDigits
  <2> HIDE DEF s, t, z, d
  <2>3. (FourDigits => t = s + z + 8) /\ s + 6 <= t
    BY <2>1, <2>2
  <2>4. QED
    BY <2>3 DEF s, t, z
<1>6. QED
  BY <1>1, <1>3, <1>4, <1>5

(* The chunks before another are not more than the body. *)
LEMMA BeforeFits ==
  ASSUME TypeInv, InChunks, NEW c \in 1 .. N + 1
  PROVE  Before(response, c) \in 0 .. Len(payload)
<1> DEFINE b == Before(response, c)
           L == Len(payload)
<1>1. N \in Nat /\ L \in Nat /\ b \in Nat
  BY ResponseFacts, Layout
<1>2. c = N + 1 => b = L
  BY Layout
<1>3. c \in 1 .. N => b + SizeOf(response, c) <= L /\ SizeOf(response, c) \in 1 .. 9
  BY Layout
<1> HIDE DEF b, L
<1>4. b \in 0 .. L
  BY <1>1, <1>2, <1>3
<1>5. QED
  BY <1>4 DEF b, L

(* What is there: four digits, or the byte behind fewer of them. *)
LEMMA SizeBytes ==
  ASSUME TypeInv, InChunks, NEW c \in 1 .. N
  PROVE  /\ FourDigits =>
              /\ stream[Start(response, c) + 1] = "0" /\ stream[Start(response, c) + 2] = "0"
              /\ stream[Start(response, c) + 3] = "0"
              /\ stream[Start(response, c) + 4] = Hex[SizeOf(response, c) + 1]
         /\ ~FourDigits => \E j \in 2 .. 4 : stream[Start(response, c) + j] = "CR"
         /\ ~IsLast([j \in 1 .. 4 |-> stream[Start(response, c) + j]])
<1> DEFINE w == response.digits
           C == Chunk(response.chunks[c], w)
<1>1. IsResponse(response) /\ stream = Stream(response) /\ response.framing = "chunked"
  BY ResponseFacts DEF InChunks
<1>2. c \in 1 .. Len(response.chunks) /\ w \in 1 .. 4
  BY <1>1 DEF N, IsResponse
<1>3. /\ response.chunks[c] \in Seq(Letters) /\ Len(response.chunks[c]) \in 1 .. 9
  BY <1>1, <1>2, EncodedIs
<1>4. SizeOf(response, c) = Len(response.chunks[c]) /\ SizeOf(response, c) \in 1 .. 9
  BY <1>3 DEF SizeOf
<1>5. \A j \in 1 .. 4 : stream[Start(response, c) + j] = C[j]
  <2> SUFFICES ASSUME NEW j \in 1 .. 4
               PROVE  stream[Start(response, c) + j] = C[j]
    OBVIOUS
  <2> DEFINE z == SizeOf(response, c)
  <2>1. z \in 1 .. 9 /\ w \in 1 .. 4
    BY <1>2, <1>4
  <2> HIDE DEF z
  <2>2. j \in 1 .. z + w + 4
    <3> HIDE DEF w, C
    <3>1. QED
      BY <2>1
  <2>3. j \in 1 .. SizeOf(response, c) + response.digits + 4
    BY <2>2 DEF z
  <2>4. QED
    BY <1>1, <1>2, <2>3, ChunkBytes
<1>6. /\ \A j \in 1 .. w - 1 : C[j] = "0"
      /\ C[w] = Hex[SizeOf(response, c) + 1] /\ C[w + 1] = "CR"
  <2> DEFINE d == response.chunks[c]
  <2>1. d \in Seq(Letters) /\ Len(d) \in 1 .. 9 /\ w \in 1 .. 4
    BY <1>2, <1>3
  <2>2. SizeOf(response, c) = Len(d)
    BY <1>4
  <2> HIDE DEF d, w
  <2>3. /\ \A j \in 1 .. w - 1 : Chunk(d, w)[j] = "0"
        /\ Chunk(d, w)[w] = Hex[Len(d) + 1] /\ Chunk(d, w)[w + 1] = "CR"
    BY <2>1, ChunkIs
  <2>4. QED
    BY <2>2, <2>3 DEF d
<1>7. Hex[SizeOf(response, c) + 1] # "0" /\ Hex[SizeOf(response, c) + 1] # "CR"
  <2>1. \A v \in 1 .. 9 : v + 1 \in 1 .. 10 /\ v \in 0 .. 9 /\ v # 0
    OBVIOUS
  <2>2. Hex[SizeOf(response, c) + 1] \in Digits /\ "CR" \notin Digits
    BY <1>4, <2>1, HexDigits
  <2> DEFINE z == SizeOf(response, c)
  <2> HIDE DEF C, w
  <2>3. HexValue(Hex[z + 1]) = z /\ HexValue(Hex[0 + 1]) = 0
    <3>1. z \in 0 .. 9 /\ 0 \in 0 .. 9
      BY <1>4, <2>1
    <3> HIDE DEF z
    <3>2. QED
      BY <3>1, HexValueIs
  <2>4. 0 + 1 = 1 /\ Hex[1] = "0" /\ z # 0
    <3>1. z \in 1 .. 9
      BY <1>4 DEF z
    <3>2. QED
      BY <3>1 DEF Hex
  <2>5. Hex[z + 1] # "0"
    BY <2>3, <2>4
  <2>6. QED
    BY <2>2, <2>5
<1> HIDE DEF C, w
<1>8. w = 1 \/ w = 2 \/ w = 3 \/ w = 4
  BY <1>2
<1>9. FourDigits <=> w = 4
  BY DEF FourDigits, w
<1>10. FourDigits =>
         /\ stream[Start(response, c) + 1] = "0" /\ stream[Start(response, c) + 2] = "0"
         /\ stream[Start(response, c) + 3] = "0"
         /\ stream[Start(response, c) + 4] = Hex[SizeOf(response, c) + 1]
  BY <1>5, <1>6, <1>9
<1>11. ~FourDigits => \E j \in 2 .. 4 : stream[Start(response, c) + j] = "CR"
  <2> SUFFICES ASSUME w # 4 PROVE \E j \in 2 .. 4 : stream[Start(response, c) + j] = "CR"
    BY <1>9
  <2>1. w + 1 \in 2 .. 4 /\ w + 1 \in 1 .. 4
    BY <1>8
  <2>2. stream[Start(response, c) + (w + 1)] = "CR"
    BY <1>5, <1>6, <2>1
  <2>3. QED
    BY <2>1, <2>2
<1>12. ~IsLast([j \in 1 .. 4 |-> stream[Start(response, c) + j]])
  <2>1. w = 1 => C[1] # "0"
    BY <1>6, <1>7
  <2>2. w # 1 => C[2] # "CR"
    <3>1. w = 2 => C[2] # "CR"
      BY <1>6, <1>7
    <3>2. w = 3 \/ w = 4 => C[2] = "0"
      BY <1>6
    <3>3. QED
      BY <1>8, <3>1, <3>2
  <2>3. 1 \in 1 .. 4 /\ 2 \in 1 .. 4
    OBVIOUS
  <2>4. /\ [j \in 1 .. 4 |-> stream[Start(response, c) + j]][1] = C[1]
        /\ [j \in 1 .. 4 |-> stream[Start(response, c) + j]][2] = C[2]
    BY <1>5, <2>3
  <2>5. QED
    BY <2>1, <2>2, <2>4 DEF IsLast
<1>13. QED
  BY <1>10, <1>11, <1>12

(* The bytes of a chunk are bytes of the payload. *)
LEMMA DataBytes ==
  ASSUME TypeInv, InChunks, FourDigits, NEW c \in 1 .. N, NEW j \in 1 .. SizeOf(response, c)
  PROVE  stream[Start(response, c) + 6 + j] = payload[Before(response, c) + j]
<1>1. IsResponse(response) /\ stream = Stream(response) /\ response.framing = "chunked"
  BY ResponseFacts DEF InChunks
<1>2. c \in 1 .. Len(response.chunks)
  BY DEF N
<1>3. /\ response.chunks[c] \in Seq(Letters) /\ Len(response.chunks[c]) \in 1 .. 9
  BY <1>1, <1>2, EncodedIs
<1>4. SizeOf(response, c) = Len(response.chunks[c]) /\ SizeOf(response, c) \in 1 .. 9
  BY <1>3 DEF SizeOf
<1>5. response.digits = 4 /\ 6 + j \in 1 .. SizeOf(response, c) + 4 + 4
  BY <1>4 DEF FourDigits
<1>6. Start(response, c) \in Nat
  <2>1. c \in 1 .. N + 1
    BY ResponseFacts
  <2>2. QED
    BY <2>1, Layout
<1>7. Stream(response)[Start(response, c) + (6 + j)] = Chunk(response.chunks[c], 4)[6 + j]
  BY <1>1, <1>2, <1>5, ChunkBytes
<1>8. Chunk(response.chunks[c], 4)[6 + j] = response.chunks[c][j]
  <2>1. /\ 4 \in 1 .. 4 /\ j \in 1 .. Len(response.chunks[c]) /\ 4 + 2 + j = 6 + j
    BY <1>4
  <2>2. \A k \in 1 .. Len(response.chunks[c]) :
          Chunk(response.chunks[c], 4)[4 + 2 + k] = response.chunks[c][k]
    BY <1>3, <2>1, ChunkIs
  <2>3. QED
    BY <2>1, <2>2
<1>9. payload[Before(response, c) + j] = response.chunks[c][j]
  BY <1>1, <1>2, PayloadPlaces DEF payload
<1>10. Start(response, c) + (6 + j) = Start(response, c) + 6 + j
  BY <1>6
<1>11. QED
  BY <1>1, <1>7, <1>8, <1>9, <1>10

(* The last chunk starts with 0 CR LF. *)
LEMMA LastBytes ==
  ASSUME TypeInv, InChunks
  PROVE  /\ stream[Start(response, N + 1) + 1] = "0"
         /\ stream[Start(response, N + 1) + 2] = "CR"
         /\ stream[Start(response, N + 1) + 3] = "LF"
BY ResponseFacts, TailBytes DEF N, InChunks

(* The bytes that have been read, as the code finds them in the buffer. *)
LEMMA LoadedBytes ==
  ASSUME TypeInv, NEW i \in Nat, NEW n \in Nat, i + n <= Capacity, n <= pos, Loaded(i, n),
         NEW k \in Nat
  PROVE  /\ Len(BytesAt(i, k)) = k
         /\ \A j \in 1 .. k : j <= n => BytesAt(i, k)[j] = stream[pos - n + j]
         /\ k <= n => BytesAt(i, k) = [j \in 1 .. k |-> stream[pos - n + j]]
         /\ k <= n => BytesAt(i, k) \in Seq(Sent)
<1>1. Len(BytesAt(i, k)) = k
  BY DEF BytesAt
<1>2. ASSUME NEW j \in 1 .. k, j <= n PROVE BytesAt(i, k)[j] = stream[pos - n + j]
  <2>1. Capacity \in Nat /\ pos \in Nat
    BY ResponseAssumption DEF TypeInv
  <2>2. j - 1 \in 0 .. n - 1 /\ i + j - 1 < Capacity /\ i + (j - 1) = i + j - 1
        /\ pos - n + (j - 1) + 1 = pos - n + j
    BY <1>2, <2>1
  <2>3. buffer[i + (j - 1)] = stream[pos - n + (j - 1) + 1]
    BY <2>2 DEF Loaded
  <2>4. Byte(i + j - 1) = buffer[i + j - 1]
    BY <2>2 DEF Byte
  <2>5. BytesAt(i, k)[j] = Byte(i + j - 1)
    BY DEF BytesAt
  <2>6. QED
    BY <2>2, <2>3, <2>4, <2>5
<1>3. ASSUME k <= n PROVE BytesAt(i, k) = [j \in 1 .. k |-> stream[pos - n + j]]
  <2>1. \A j \in 1 .. k : j <= n
    BY <1>3
  <2>2. BytesAt(i, k) = [j \in 1 .. k |-> BytesAt(i, k)[j]]
    BY DEF BytesAt
  <2>3. QED
    BY <1>2, <2>1, <2>2
<1>4. ASSUME k <= n PROVE BytesAt(i, k) \in Seq(Sent)
  <2>1. stream \in Seq(Sent) /\ Len(stream) \in Nat
    BY ResponseFacts
  <2>2. pos \in 0 .. Len(stream)
    BY DEF TypeInv
  <2>3. ASSUME NEW j \in 1 .. k PROVE stream[pos - n + j] \in Sent
    <3>1. pos - n + j \in 1 .. Len(stream)
      BY <1>4, <2>1, <2>2
    <3>2. QED
      BY <2>1, <3>1
  <2>4. QED
    BY <1>3, <1>4, <2>3
<1>5. QED
  BY <1>1, <1>2, <1>3, <1>4

(* The numbers that the code keeps. *)
LEMMA NumbersAre ==
  ASSUME TypeInv
  PROVE  /\ Capacity \in Nat /\ pos \in Nat /\ HL \in Nat /\ N \in Nat
         /\ read_len \in 0 .. Capacity /\ read_len \in Nat
         /\ remain_index \in Nat /\ remain_len \in Nat /\ Unread \in Nat
         /\ chunk_size \in Nat /\ body_len \in Nat /\ content_length \in Nat /\ prev \in Nat
         /\ idx \in Nat /\ len \in Nat
<1>1. Capacity \in Nat
  BY ResponseAssumption
<1>2. pos \in Nat
  BY ResponseFacts DEF TypeInv
<1>3. HL \in Nat /\ N \in Nat
  BY ResponseFacts
<1>4. /\ read_len \in 0 .. Capacity /\ remain_index \in 0 .. Capacity
      /\ remain_len \in 0 .. Capacity /\ len \in 0 .. Capacity /\ prev \in 0 .. Capacity
  BY DEF TypeInv
<1>5. chunk_size \in Nat /\ body_len \in Nat /\ content_length \in Nat /\ idx \in Nat
  BY DEF TypeInv
<1>6. QED
  BY <1>1, <1>2, <1>3, <1>4, <1>5 DEF Unread

(* The response is the same until the next exchange. *)
LEMMA SameResponse ==
  ASSUME session' = session, nth' = nth
  PROVE  /\ response' = response /\ stream' = stream /\ payload' = payload
         /\ N' = N /\ HL' = HL /\ InChunks' = InChunks /\ FourDigits' = FourDigits
<1>1. response' = response
  BY DEF response
<1>2. QED
  BY <1>1 DEF stream, payload, N, HL, InChunks, FourDigits

--------------------------------------------------------------------------------
(* The steps of the decoder.                                                    *)

(* Nothing is said of the places where the worker is not. *)
LEMMA Elsewhere ==
  /\ pc' # "read" => AtRead'
  /\ pc' # "parse" => AtParse'
  /\ pc' # "header_end" => AtHeaderEnd'
  /\ pc' # "body" => AtBody'
  /\ pc' # "size" => AtSize'
  /\ pc' # "mid" => AtMid'
  /\ pc' # "chunk" => AtChunk'
  /\ pc' # "end" => AtEnd'
  /\ pc' # "check" => AtCheck'
BY DEF AtRead, AtParse, AtHeaderEnd, AtBody, AtSize, AtMid, AtChunk, AtEnd, AtCheck

(* A number of bytes of the body. *)
LEMMA PrefixIs ==
  ASSUME TypeInv, NEW k \in 0 .. Len(payload)
  PROVE  First(k) \in Seq(Letters) /\ Len(First(k)) = k
BY ResponseFacts DEF First

(* What every step inside the decoder leaves alone. *)
LEMMA InsideKeeps ==
  ASSUME TypeInv, Wire, Fields, InChunks, state = "body",
         pc \in {"size", "mid", "chunk", "end"},
         UNCHANGED <<wireVars, state, remainVars, respVars, readVars, prev>>,
         pc' \in {"size", "mid", "chunk", "end", "check"},
         NEW k \in 0 .. Len(payload), delivered' = First(k)
  PROVE  Wire' /\ Fields'
<1>1. /\ response' = response /\ stream' = stream /\ payload' = payload
      /\ N' = N /\ HL' = HL /\ InChunks' = InChunks /\ FourDigits' = FourDigits
  BY SameResponse DEF wireVars
<1>2. Wire'
  <2>1. Len(First(k)) = k
    BY PrefixIs
  <2>2. First(k)' = First(k)
    BY <1>1 DEF First
  <2>3. (delivered = First(Len(delivered)))' /\ Len(delivered') <= Len(payload')
    BY <1>1, <2>1 DEF First
  <2>4. QED
    BY <1>1, <2>3 DEF Wire, wireVars, remainVars
<1>3. Fields'
  BY <1>1 DEF Fields, FieldDue, wireVars, respVars, Base, readVars
<1>4. QED
  BY <1>2, <1>3

(* The labels of the decoder. *)
LEMMA LabelNames == {Labels[l] : l \in 1 .. 4} = {"size", "mid", "chunk", "end"}
<1>1. Labels[1] = "size" /\ Labels[2] = "mid" /\ Labels[3] = "chunk" /\ Labels[4] = "end"
  BY DEF Labels
<1>2. \A l \in 1 .. 4 : l = 1 \/ l = 2 \/ l = 3 \/ l = 4
  OBVIOUS
<1>3. QED
  BY <1>1, <1>2

(* The decoder looks at what is in the buffer. *)
LEMMA WindowIs ==
  ASSUME TypeInv, Window, pc \in {"size", "mid", "chunk", "end"}
  PROVE  /\ idx + len = read_len /\ read_len \in 0 .. Capacity /\ idx + len <= Capacity
         /\ idx \in Nat /\ len \in Nat /\ pos \in Nat
         /\ Capacity \in Nat /\ N \in Nat
<1>1. Capacity \in Nat
  BY ResponseAssumption
<1>2. idx + len = read_len
  BY DEF Window
<1>3. read_len \in 0 .. Capacity /\ idx \in Nat /\ len \in 0 .. Capacity
  BY DEF TypeInv
<1>4. pos \in Nat /\ N \in Nat
  BY ResponseFacts DEF TypeInv
<1>5. QED
  BY <1>1, <1>2, <1>3, <1>4

(* What is left of the bytes that have been read, behind the next k. *)
LEMMA LoadedRest ==
  ASSUME TypeInv, NEW i \in Nat, NEW n \in Nat, Loaded(i, n), NEW k \in 0 .. n
  PROVE  Loaded(i + k, n - k)
<1> SUFFICES ASSUME NEW j \in 0 .. (n - k) - 1
             PROVE  buffer[(i + k) + j] = stream[pos - (n - k) + j + 1]
  BY DEF Loaded
<1>1. k + j \in 0 .. n - 1 /\ i + (k + j) = (i + k) + j
  OBVIOUS
<1>2. pos \in Nat
  BY ResponseFacts DEF TypeInv
<1>3. pos - n + (k + j) + 1 = pos - (n - k) + j + 1
  BY <1>2
<1>4. QED
  BY <1>1, <1>3 DEF Loaded

(* The decoder runs out of bytes, or sees the end. *)
LEMMA Stops ==
  ASSUME IInv, TypeInv', InChunks, state = "body", pc \in {"size", "mid", "chunk", "end"},
         UNCHANGED <<wireVars, state, remainVars, respVars, readVars, prev>>,
         pc' = "check",
         NEW k \in 0 .. Len(payload), delivered' = First(k),
         IF chunk_size' = 0 THEN delivered' = payload ELSE DecoderAt(pos)'
  PROVE  IInv'
<1>1. TypeInv /\ Wire /\ Fields
  BY DEF IInv
<1>2. Wire' /\ Fields'
  BY <1>1, InsideKeeps
<1>3. Window'
  BY DEF Window
<1>4. AtCheck'
  <2>1. payload' = payload /\ InChunks' = InChunks
    BY SameResponse DEF wireVars
  <2>2. QED
    BY <2>1 DEF AtCheck
<1>5. QED
  BY <1>2, <1>3, <1>4, Elsewhere DEF IInv

(* It goes on behind the next d bytes. *)
LEMMA GoesOn ==
  ASSUME IInv, InChunks, state = "body", pc \in {"size", "mid", "chunk", "end"},
         Loaded(idx, len), len <= pos,
         UNCHANGED <<wireVars, state, remainVars, respVars, readVars, prev>>,
         pc' \in {"size", "mid", "chunk", "end"},
         NEW d \in 0 .. len, idx' = idx + d, len' = len - d, entering' = FALSE,
         NEW k \in 0 .. Len(payload), delivered' = First(k)
  PROVE  Window' /\ Wire' /\ Fields' /\ \A l : Inside(l)'
<1>1. TypeInv /\ Wire /\ Fields /\ Window
  BY DEF IInv
<1>2. Wire' /\ Fields'
  BY <1>1, InsideKeeps
<1>3. idx \in Nat /\ len \in Nat /\ idx + len = read_len /\ read_len \in 0 .. Capacity /\ pos \in Nat
      /\ Capacity \in Nat
  BY <1>1, WindowIs
<1>4. Window'
  <2>1. idx' + len' = read_len
    BY <1>3
  <2>2. QED
    BY <2>1 DEF Window, readVars
<1>5. stream' = stream /\ InChunks' = InChunks /\ N' = N /\ response' = response
  BY SameResponse DEF wireVars
<1>6. Loaded(idx + d, len - d)
  BY <1>1, <1>3, LoadedRest
<1>7. Loaded(idx, len)'
  BY <1>5, <1>6 DEF Loaded, wireVars, readVars
<1>8. len' <= pos'
  BY <1>3 DEF wireVars
<1>9. \A l : Inside(l)'
  BY <1>5, <1>7, <1>8 DEF Inside
<1>10. QED
  BY <1>2, <1>4, <1>9

(* The line end behind a size. *)
LEMMA SeparatorMidKeeps ==
  ASSUME IInv, TypeInv', SeparatorMid
  PROVE  IInv'
<1> DEFINE due == Due(2)
<1>1. /\ pc = "mid" /\ state = "body" /\ InChunks /\ Loaded(idx, len) /\ len <= pos
      /\ TypeInv /\ Window
  BY DEF SeparatorMid, AtMid, Inside, IInv
<1>2. PICK c \in 1 .. N : MidAt(c, pos - len, due)
  BY <1>1 DEF AtMid, IInv
<1>3. /\ UNCHANGED <<wireVars, state, remainVars, respVars, readVars, prev>>
      /\ UNCHANGED <<chunk_size, chunk_size_str, body_len, delivered>>
      /\ chunk_terminate_state' = 1
      /\ Consume(due, "chunk")
  BY DEF SeparatorMid, Separator, Due
<1>4. /\ due \in 1 .. 2 /\ pos - len + due = Start(response, c) + 6
      /\ FourDigits /\ chunk_size = SizeOf(response, c) /\ delivered = First(Before(response, c))
  BY <1>2 DEF MidAt
<1>5. /\ response' = response /\ stream' = stream /\ payload' = payload
      /\ N' = N /\ HL' = HL /\ InChunks' = InChunks /\ FourDigits' = FourDigits
  BY <1>3, SameResponse DEF wireVars
<1>6. /\ Start(response, c) \in Nat /\ Before(response, c) \in 0 .. Len(payload)
      /\ SizeOf(response, c) \in 1 .. 9 /\ N \in Nat
  <2>1. N \in Nat /\ Len(payload) \in Nat /\ c \in 1 .. N + 1
    BY <1>1, ResponseFacts
  <2>2. Start(response, c) \in Nat /\ Before(response, c) \in Nat /\ SizeOf(response, c) \in 1 .. 9
    BY <1>1, <2>1, Layout
  <2>3. Before(response, c) \in 0 .. Len(payload)
    BY <1>1, <2>1, BeforeFits
  <2>4. QED
    BY <2>1, <2>2, <2>3
<1>7. len \in Nat /\ pos \in Nat
  BY <1>1, ResponseFacts DEF TypeInv
<1>8. delivered' = First(Before(response, c))
  BY <1>3, <1>4
<1> HIDE DEF due
<1>9. CASE due > len
  <2>1. /\ chunk_state_remain_byte' = due - len /\ pc' = "check" /\ forced_continue' = TRUE
        /\ idx' = 0 /\ len' = 0 /\ entering' = FALSE
    BY <1>3, <1>9 DEF Consume, Interrupted, Goes
  <2>3. MidAt(c, pos, chunk_state_remain_byte)'
    BY <1>3, <1>4, <1>5, <1>7, <1>9, <2>1 DEF MidAt, First, wireVars
  <2>4. DecoderAt(pos)' /\ chunk_size' # 0
    BY <1>3, <1>4, <1>5, <1>6, <2>3 DEF DecoderAt
  <2>5. QED
    BY <1>1, <1>3, <1>6, <1>8, <2>1, <2>4, Stops
<1>10. CASE due <= len
  <2>1. /\ pc' = "chunk" /\ idx' = idx + due /\ len' = len - due /\ entering' = FALSE
        /\ forced_continue' = forced_continue
        /\ chunk_state_remain_byte' = IF entering THEN 0 ELSE chunk_state_remain_byte
    BY <1>3, <1>4, <1>7, <1>10 DEF Consume, Goes
  <2>2. due \in 0 .. len
    BY <1>4, <1>7, <1>10
  <2>4. Window' /\ Wire' /\ Fields' /\ Inside("chunk")'
    BY <1>1, <1>3, <1>6, <1>8, <2>1, <2>2, GoesOn
  <2>5. DataAt(c, pos - len, Due(chunk_size))'
    <3>1. /\ Due(chunk_size)' = chunk_size /\ chunk_size' = chunk_size /\ pos' = pos
          /\ delivered' = delivered /\ chunk_size \in 1 .. 9
      BY <1>3, <1>4, <1>6, <2>1 DEF Due, wireVars
    <3>2. pos - len' + chunk_size = Start(response, c) + 6 + chunk_size
      BY <1>4, <1>6, <1>7, <2>1, <3>1
    <3>3. Before(response, c) + chunk_size - chunk_size = Before(response, c)
      BY <1>6, <3>1
    <3>4. /\ (c \in 1 .. N)' /\ (chunk_size = SizeOf(response, c))'
          /\ (Due(chunk_size) \in 1 .. chunk_size)'
      BY <1>4, <1>5, <3>1
    <3>5. ((pos - len) + Due(chunk_size) = Start(response, c) + 6 + chunk_size)'
      BY <1>5, <3>1, <3>2
    <3>6. (delivered = First(Before(response, c) + chunk_size - Due(chunk_size)))'
      BY <1>4, <1>5, <3>1, <3>3 DEF First
    <3>7. QED
      BY <1>4, <1>5, <3>4, <3>5, <3>6 DEF DataAt
  <2>6. AtChunk'
    BY <1>5, <2>4, <2>5 DEF AtChunk
  <2>7. QED
    BY <2>1, <2>4, <2>6, Elsewhere DEF IInv
<1>11. QED
  BY <1>4, <1>7, <1>9, <1>10

(* The line end behind the data of a chunk. *)
LEMMA SeparatorEndKeeps ==
  ASSUME IInv, TypeInv', SeparatorEnd
  PROVE  IInv'
<1> DEFINE due == Due(2)
<1>1. /\ pc = "end" /\ state = "body" /\ InChunks /\ Loaded(idx, len) /\ len <= pos
      /\ TypeInv /\ Window
  BY DEF SeparatorEnd, AtEnd, Inside, IInv
<1>2. PICK c \in 1 .. N : EndAt(c, pos - len, due)
  BY <1>1 DEF AtEnd, IInv
<1>3. /\ UNCHANGED <<wireVars, state, remainVars, respVars, readVars, prev>>
      /\ UNCHANGED <<chunk_size, chunk_size_str, body_len, delivered>>
      /\ chunk_terminate_state' = 3
      /\ Consume(due, "size")
  BY DEF SeparatorEnd, Separator, Due
<1>4. /\ due \in 1 .. 2 /\ pos - len + due = Start(response, c) + 8 + chunk_size
      /\ FourDigits /\ chunk_size = SizeOf(response, c) /\ delivered = First(Before(response, c + 1))
  BY <1>2 DEF EndAt
<1>5. /\ response' = response /\ stream' = stream /\ payload' = payload
      /\ N' = N /\ HL' = HL /\ InChunks' = InChunks /\ FourDigits' = FourDigits
  BY <1>3, SameResponse DEF wireVars
<1>6. /\ Start(response, c) \in Nat /\ Before(response, c + 1) \in 0 .. Len(payload)
      /\ SizeOf(response, c) \in 1 .. 9 /\ N \in Nat
      /\ Start(response, c + 1) = Start(response, c) + SizeOf(response, c) + 8
  <2>1. N \in Nat /\ c + 1 \in 1 .. N + 1 /\ c \in 1 .. N + 1
    BY <1>1, ResponseFacts
  <2>2. QED
    BY <1>1, <1>4, <2>1, Layout, ResponseFacts
<1>7. len \in Nat /\ pos \in Nat
  BY <1>1, ResponseFacts DEF TypeInv
<1>8. delivered' = First(Before(response, c + 1))
  BY <1>3, <1>4
<1> HIDE DEF due
<1>9. CASE due > len
  <2>1. /\ chunk_state_remain_byte' = due - len /\ pc' = "check" /\ forced_continue' = TRUE
        /\ idx' = 0 /\ len' = 0 /\ entering' = FALSE
    BY <1>3, <1>9 DEF Consume, Interrupted, Goes
  <2>3. EndAt(c, pos, chunk_state_remain_byte)'
    BY <1>3, <1>4, <1>5, <1>6, <1>7, <1>9, <2>1 DEF EndAt, First, wireVars
  <2>4. DecoderAt(pos)' /\ chunk_size' # 0
    BY <1>3, <1>4, <1>5, <1>6, <2>3 DEF DecoderAt
  <2>5. QED
    BY <1>1, <1>3, <1>6, <1>8, <2>1, <2>4, Stops
<1>10. CASE due <= len
  <2>1. /\ pc' = "size" /\ idx' = idx + due /\ len' = len - due /\ entering' = FALSE
        /\ forced_continue' = forced_continue
        /\ chunk_state_remain_byte' = IF entering THEN 0 ELSE chunk_state_remain_byte
    BY <1>3, <1>4, <1>7, <1>10 DEF Consume, Goes
  <2>2. due \in 0 .. len
    BY <1>4, <1>7, <1>10
  <2>4. Window' /\ Wire' /\ Fields' /\ Inside("size")'
    BY <1>1, <1>3, <1>6, <1>8, <2>1, <2>2, GoesOn
  <2>5. SizeAt(c + 1, pos - len, Have)'
    <3>1. Have' = <<>> /\ pos' = pos /\ delivered' = delivered
      BY <1>3, <2>1 DEF Have, wireVars
    <3>2. pos - len' = Start(response, c + 1) + 0
      <4>1. pos - len' = (pos - len) + due
        BY <1>4, <1>7, <2>1
      <4>2. (pos - len) + due = Start(response, c) + 8 + SizeOf(response, c)
        BY <1>4
      <4>3. QED
        BY <1>6, <4>1, <4>2, SMTT(20)
    <3>3. c + 1 \in 1 .. N + 1
      BY <1>6
    <3>4. Len(<<>>) = 0 /\ <<>> \in Seq(Sent)
      OBVIOUS
    <3>5. First(Before(response, c + 1))' = First(Before(response, c + 1))
      BY <1>5 DEF First
    <3>6. QED
      BY <1>4, <1>5, <3>1, <3>2, <3>3, <3>4, <3>5 DEF SizeAt
  <2>6. AtSize'
    <3>1. (c + 1 \in 1 .. N + 1)' /\ chunk_size' > 0 /\ FourDigits'
      BY <1>3, <1>4, <1>5, <1>6
    <3>2. QED
      BY <1>5, <2>1, <2>4, <2>5, <3>1 DEF AtSize
  <2>7. QED
    BY <2>1, <2>4, <2>6, Elsewhere DEF IInv
<1>11. QED
  BY <1>4, <1>7, <1>9, <1>10

(* The next bytes of the data are the next ones of the body. *)
LEMMA Delivers ==
  ASSUME TypeInv, InChunks, Loaded(idx, len), len <= pos, idx + len <= Capacity,
         NEW c \in 1 .. N, NEW due, DataAt(c, pos - len, due),
         NEW m \in 0 .. due, m <= len
  PROVE  /\ delivered \o BytesAt(idx, m) = First(Before(response, c) + chunk_size - due + m)
         /\ Before(response, c) + chunk_size - due + m \in 0 .. Len(payload)
<1> DEFINE b == Before(response, c)
           cs == SizeOf(response, c)
           st == Start(response, c)
           a == b + cs - due
           t == BytesAt(idx, m)
<1>1. /\ st \in Nat /\ b \in Nat /\ cs \in 1 .. 9 /\ b + cs <= Len(payload)
      /\ N \in Nat /\ Len(payload) \in Nat
  <2>1. N \in Nat /\ c \in 1 .. N + 1
    BY ResponseFacts
  <2>2. QED
    BY <2>1, Layout, ResponseFacts
<1>2. /\ due \in 1 .. cs /\ (pos - len) + due = st + 6 + cs /\ delivered = First(a)
      /\ chunk_size = cs /\ FourDigits
  BY DEF DataAt
<1>3. pos \in Nat /\ len \in Nat /\ idx \in Nat
  BY ResponseFacts DEF TypeInv
<1>4. t = [j \in 1 .. m |-> stream[(pos - len) + j]]
  BY <1>2, <1>3, LoadedBytes
<1> HIDE DEF b, cs, st, t
<1>5. ASSUME NEW j \in 1 .. m PROVE stream[(pos - len) + j] = payload[a + j]
  <2>1. (cs - due) + j \in 1 .. cs
    BY <1>1, <1>2
  <2>2. stream[st + 6 + ((cs - due) + j)] = payload[b + ((cs - due) + j)]
    BY <1>2, <2>1, DataBytes DEF cs, st, b
  <2>3. st + 6 + ((cs - due) + j) = (pos - len) + j /\ b + ((cs - due) + j) = a + j
    BY <1>1, <1>2, <1>3
  <2>4. QED
    BY <2>2, <2>3
<1>6. t = [j \in 1 .. m |-> payload[a + j]]
  BY <1>4, <1>5
<1>7. a \in Nat /\ m \in Nat /\ a + m <= Len(payload)
  BY <1>1, <1>2
<1> HIDE DEF a
<1>8. First(a) \o t = First(a + m)
  BY <1>6, <1>7, ResponseFacts, PrefixGrows DEF First
<1>9. Before(response, c) + chunk_size - due = a
  BY <1>2 DEF a, b
<1>10. delivered \o t = First(a + m) /\ a + m \in 0 .. Len(payload)
  BY <1>1, <1>2, <1>7, <1>8
<1>11. QED
  BY <1>9, <1>10 DEF t

(* The data of a chunk, or as much of it as has been read. *)
LEMMA ChunkDataKeeps ==
  ASSUME IInv, TypeInv', ChunkData
  PROVE  IInv'
<1> DEFINE due == Due(chunk_size)
           m == Min({due, len})
<1>1. /\ pc = "chunk" /\ state = "body" /\ InChunks /\ Loaded(idx, len) /\ len <= pos
      /\ TypeInv /\ Window
  BY DEF ChunkData, AtChunk, Inside, IInv
<1>2. PICK c \in 1 .. N : DataAt(c, pos - len, due)
  BY <1>1 DEF AtChunk, IInv
<1>3. /\ UNCHANGED <<wireVars, state, remainVars, respVars, readVars, prev>>
      /\ UNCHANGED <<chunk_size, chunk_size_str>>
      /\ chunk_terminate_state' = 2
      /\ Consume(due, "end")
      /\ delivered' = delivered \o BytesAt(idx, m) /\ body_len' = body_len + m
  BY DEF ChunkData, Due, Deliver
<1>4. /\ due \in 1 .. chunk_size /\ pos - len + due = Start(response, c) + 6 + chunk_size
      /\ FourDigits /\ chunk_size = SizeOf(response, c)
      /\ delivered = First(Before(response, c) + chunk_size - due)
  BY <1>2 DEF DataAt
<1>5. /\ response' = response /\ stream' = stream /\ payload' = payload
      /\ N' = N /\ HL' = HL /\ InChunks' = InChunks /\ FourDigits' = FourDigits
  BY <1>3, SameResponse DEF wireVars
<1>6. /\ Start(response, c) \in Nat /\ Before(response, c) \in Nat
      /\ Before(response, c + 1) = Before(response, c) + SizeOf(response, c)
      /\ SizeOf(response, c) \in 1 .. 9 /\ N \in Nat
  <2>1. N \in Nat /\ c \in 1 .. N + 1
    BY <1>1, ResponseFacts
  <2>2. QED
    BY <1>1, <2>1, Layout
<1>7. len \in Nat /\ pos \in Nat /\ idx \in Nat /\ idx + len <= Capacity
  BY <1>1, WindowIs
<1>8. m = (IF due > len THEN len ELSE due) /\ m \in 0 .. due /\ m <= len
  <2>1. due \in Nat
    BY <1>4, <1>6
  <2>2. CASE due > len
    BY <1>7, <2>1, <2>2, MinIs
  <2>3. CASE due <= len
    BY <1>7, <2>1, <2>3, MinIs
  <2>4. QED
    BY <1>7, <2>1, <2>2, <2>3
<1> DEFINE k == Before(response, c) + chunk_size - due + m
<1>9. delivered' = First(k) /\ k \in 0 .. Len(payload)
  BY <1>1, <1>2, <1>3, <1>7, <1>8, Delivers
<1> HIDE DEF due, m, k
<1>11. CASE due > len
  <2>1. /\ chunk_state_remain_byte' = due - len /\ pc' = "check" /\ forced_continue' = TRUE
        /\ idx' = 0 /\ len' = 0 /\ entering' = FALSE
    BY <1>3, <1>11 DEF Consume, Interrupted, Goes
  <2>3. DataAt(c, pos, chunk_state_remain_byte)'
    <3>1. k = Before(response, c) + chunk_size - (due - len)
      BY <1>4, <1>6, <1>7, <1>8, <1>11 DEF k
    <3>2. due - len \in 1 .. chunk_size /\ pos + (due - len) = Start(response, c) + 6 + chunk_size
      BY <1>4, <1>6, <1>7, <1>11
    <3>4. pos' = pos /\ chunk_size' = chunk_size
      BY <1>3 DEF wireVars
    <3>5. (delivered = First(Before(response, c) + chunk_size - chunk_state_remain_byte))'
      BY <1>5, <1>9, <2>1, <3>1, <3>4 DEF First
    <3>6. QED
      BY <1>4, <1>5, <2>1, <3>2, <3>4, <3>5 DEF DataAt
  <2>4. DecoderAt(pos)' /\ chunk_size' # 0
    BY <1>3, <1>4, <1>5, <1>6, <2>3 DEF DecoderAt
  <2>5. QED
    BY <1>1, <1>3, <1>9, <2>1, <2>4, Stops
<1>12. CASE due <= len
  <2>1. /\ pc' = "end" /\ idx' = idx + due /\ len' = len - due /\ entering' = FALSE
        /\ forced_continue' = forced_continue
        /\ chunk_state_remain_byte' = IF entering THEN 0 ELSE chunk_state_remain_byte
    BY <1>3, <1>4, <1>6, <1>7, <1>12 DEF Consume, Goes
  <2>2. due \in 0 .. len
    BY <1>4, <1>6, <1>7, <1>12
  <2>4. Window' /\ Wire' /\ Fields' /\ Inside("end")'
    BY <1>1, <1>3, <1>9, <2>1, <2>2, GoesOn
  <2>5. EndAt(c, pos - len, Due(2))'
    <3>1. /\ Due(2)' = 2 /\ chunk_size' = chunk_size /\ pos' = pos
      BY <1>3, <2>1 DEF Due, wireVars
    <3>2. pos - len' + 2 = Start(response, c) + 8 + chunk_size
      BY <1>4, <1>6, <1>7, <2>1
    <3>3. k = Before(response, c + 1)
      BY <1>4, <1>6, <1>8, <1>12 DEF k
    <3>4. (delivered = First(Before(response, c + 1)))'
      BY <1>5, <1>9, <3>3 DEF First
    <3>5. ((pos - len) + Due(2) = Start(response, c) + 8 + chunk_size)'
      BY <1>5, <3>1, <3>2
    <3>6. (c \in 1 .. N)' /\ (chunk_size = SizeOf(response, c))' /\ (Due(2) \in 1 .. 2)'
      BY <1>4, <1>5, <3>1
    <3>7. QED
      BY <1>4, <1>5, <3>4, <3>5, <3>6 DEF EndAt
  <2>6. AtEnd'
    BY <1>5, <2>4, <2>5 DEF AtEnd
  <2>7. QED
    BY <2>1, <2>4, <2>6, Elsewhere DEF IInv
<1>13. QED
  BY <1>4, <1>6, <1>7, <1>11, <1>12

(* Bytes of the buffer, whatever they are. *)
LEMMA BytesAtType ==
  ASSUME TypeInv, NEW i \in Nat, NEW n \in Nat
  PROVE  BytesAt(i, n) \in Seq(Bytes) /\ Len(BytesAt(i, n)) = n
<1>1. Capacity \in Nat /\ buffer \in [0 .. Capacity - 1 -> Bytes] /\ "nul" \in Bytes
  BY ResponseAssumption DEF TypeInv, Bytes
<1>2. ASSUME NEW j \in 1 .. n PROVE Byte(i + j - 1) \in Bytes
  <2>1. CASE i + j - 1 < Capacity
    <3>1. i + j - 1 \in 0 .. Capacity - 1
      BY <1>1, <2>1
    <3>2. QED
      BY <1>1, <2>1, <3>1 DEF Byte
  <2>2. CASE ~(i + j - 1 < Capacity)
    BY <1>1, <2>2 DEF Byte
  <2>3. QED
    BY <2>1, <2>2
<1>3. QED
  BY <1>2 DEF BytesAt

(* Concat, for the bytes of the buffer. *)
LEMMA ConcatBytes ==
  ASSUME NEW a \in Seq(Bytes), NEW b \in Seq(Bytes)
  PROVE  /\ a \o b \in Seq(Bytes)
         /\ Len(a) \in Nat /\ Len(b) \in Nat /\ Len(a \o b) = Len(a) + Len(b)
         /\ \A i \in 1 .. Len(a) : (a \o b)[i] = a[i]
         /\ \A i \in 1 .. Len(b) : (a \o b)[Len(a) + i] = b[i]
BY Concat

(* Bytes of a stream are bytes of the buffer. *)
LEMMA SentBytes == Seq(Sent) \subseteq Seq(Bytes)
<1>1. Sent \subseteq Bytes
  BY DEF Sent, Bytes
<1>2. QED
  BY <1>1

(* What the decoder takes for the size of a chunk: the bytes that are in the    *)
(* stream, as far as they have been read.                                       *)
LEMMA SizeLineIs ==
  ASSUME TypeInv, Loaded(idx, len), len <= pos, idx + len <= Capacity, InChunks,
         NEW c \in 1 .. N + 1, SizeAt(c, pos - len, Have)
  PROVE  /\ Len(Have) \in 0 .. 3 /\ Need = 4 - Len(Have)
         /\ Len(SizeLine) = 4
         /\ \A j \in 1 .. 4 : j <= Len(Have) + len => SizeLine[j] = stream[Start(response, c) + j]
         /\ len >= Need => SizeLine \in Seq(Sent)
<1> DEFINE h == Len(Have)
           st == Start(response, c)
           B == BytesAt(idx, Need)
<1>1. /\ Have \in Seq(Sent) /\ h <= 3 /\ pos - len = st + h
      /\ \A j \in 1 .. h : Have[j] = stream[st + j]
  BY DEF SizeAt
<1>2. st \in Nat /\ pos \in Nat /\ len \in Nat /\ idx \in Nat /\ Capacity \in Nat
  <2>1. st \in Nat
    BY Layout
  <2>2. pos \in 0 .. Len(stream) /\ len \in 0 .. Capacity /\ idx \in Nat
    BY DEF TypeInv
  <2>3. Capacity \in Nat
    BY ResponseAssumption
  <2>4. Len(stream) \in Nat
    BY ResponseFacts
  <2> HIDE DEF st
  <2>5. QED
    BY <2>1, <2>2, <2>3, <2>4
<1>3. h \in 0 .. 3 /\ Need = 4 - h /\ Need \in Nat
  <2>1. h \in Nat /\ h <= 3 /\ Need = 4 - h
    BY <1>1 DEF Need
  <2> HIDE DEF h
  <2>2. QED
    BY <2>1
<1>4. /\ Len(B) = Need
      /\ \A j \in 1 .. Need : j <= len => B[j] = stream[pos - len + j]
      /\ Need <= len => B \in Seq(Sent)
  <2>1. \A k \in Nat :
          /\ Len(BytesAt(idx, k)) = k
          /\ \A j \in 1 .. k : j <= len => BytesAt(idx, k)[j] = stream[pos - len + j]
          /\ k <= len => BytesAt(idx, k) \in Seq(Sent)
    BY <1>2, LoadedBytes
  <2>2. QED
    BY <1>3, <2>1
<1>6. Have \in Seq(Bytes) /\ B \in Seq(Bytes)
  BY <1>1, <1>2, <1>3, BytesAtType, SentBytes
<1> HIDE DEF B
<1>7. /\ Len(Have \o B) = Len(Have) + Len(B)
      /\ \A i \in 1 .. Len(Have) : (Have \o B)[i] = Have[i]
      /\ \A i \in 1 .. Len(B) : (Have \o B)[Len(Have) + i] = B[i]
  BY <1>6, ConcatBytes, Zenon
<1>8. SizeLine = Have \o B
  BY DEF SizeLine, B
<1> HIDE DEF h, st
<1>9. Len(SizeLine) = 4
  BY <1>3, <1>4, <1>7, <1>8 DEF h
<1>10. ASSUME NEW j \in 1 .. 4, j <= h + len PROVE SizeLine[j] = stream[st + j]
  <2>1. CASE j <= h
    BY <1>1, <1>3, <1>7, <1>8, <2>1 DEF h
  <2>2. CASE j > h
    <3>1. j - h \in 1 .. Need /\ j - h <= len /\ h + (j - h) = j
      BY <1>2, <1>3, <1>10, <2>2
    <3>2. SizeLine[h + (j - h)] = B[j - h] /\ B[j - h] = stream[pos - len + (j - h)]
      BY <1>4, <1>7, <1>8, <3>1 DEF h
    <3>3. pos - len + (j - h) = st + j
      BY <1>1, <1>2, <1>3
    <3>4. QED
      BY <3>1, <3>2, <3>3
  <2>3. QED
    BY <1>3, <2>1, <2>2
<1>11. ASSUME len >= Need PROVE SizeLine \in Seq(Sent)
  <2>1. B \in Seq(Sent)
    BY <1>2, <1>3, <1>4, <1>11
  <2>2. QED
    BY <1>1, <1>8, <2>1, ConcatSent
<1>12. QED
  BY <1>3, <1>9, <1>10, <1>11 DEF h, st

(* With three bytes the last chunk is seen where it is, and only there. *)
LEMMA LastSeen ==
  ASSUME IInv, pc = "size", NEW c \in 1 .. N + 1, SizeAt(c, pos - len, Have),
         Len(Have) + len >= 3
  PROVE  /\ c \in 1 .. N => ~IsLast(SizeLine)
         /\ c = N + 1 => IsLast(SizeLine)
<1> DEFINE h == Len(Have)
           st == Start(response, c)
<1>1. /\ TypeInv /\ Window /\ InChunks /\ Loaded(idx, len) /\ len <= pos
  BY DEF IInv, AtSize, Inside
<1>2. /\ idx + len = read_len /\ read_len \in 0 .. Capacity /\ idx \in Nat /\ len \in Nat
      /\ Capacity \in Nat /\ pos \in Nat
  BY <1>1, WindowIs
<1>3. /\ h \in 0 .. 3
      /\ \A j \in 1 .. 4 : j <= h + len => SizeLine[j] = stream[st + j]
  BY <1>1, <1>2, SizeLineIs
<1>4. /\ SizeLine[1] = stream[st + 1] /\ SizeLine[2] = stream[st + 2]
      /\ SizeLine[3] = stream[st + 3]
  BY <1>2, <1>3
<1>5. ASSUME c \in 1 .. N PROVE ~IsLast(SizeLine)
  <2> DEFINE f == [j \in 1 .. 4 |-> stream[st + j]]
  <2>1. ~IsLast(f)
    BY <1>1, <1>5, SizeBytes
  <2>2. 1 \in 1 .. 4 /\ 2 \in 1 .. 4 /\ 3 \in 1 .. 4
    OBVIOUS
  <2>3. f[1] = SizeLine[1] /\ f[2] = SizeLine[2] /\ f[3] = SizeLine[3]
    BY <1>4, <2>2
  <2> HIDE DEF f
  <2>4. QED
    BY <2>1, <2>3 DEF IsLast
<1>6. ASSUME c = N + 1 PROVE IsLast(SizeLine)
  <2>1. stream[st + 1] = "0" /\ stream[st + 2] = "CR" /\ stream[st + 3] = "LF"
    BY <1>1, <1>6, LastBytes
  <2>2. QED
    BY <1>4, <2>1 DEF IsLast
<1>7. QED
  BY <1>5, <1>6

(* The decoder takes a chunk for the last, of which it has three bytes. *)
LEMMA LastChunkKeeps ==
  ASSUME IInv, TypeInv', LastChunk, ~misread'
  PROVE  IInv'
<1>1. /\ pc = "size" /\ IsLast(SizeLine) /\ state = "body" /\ InChunks /\ TypeInv
  BY DEF LastChunk, AtSize, Inside, IInv
<1>2. PICK c \in 1 .. N + 1 : SizeAt(c, pos - len, Have)
  BY <1>1 DEF AtSize, IInv
<1>3. c = N + 1
  <2> DEFINE h == Len(Have)
  <2>1. h \in Nat /\ len \in Nat
    BY <1>1, <1>2, ResponseAssumption DEF SizeAt, TypeInv
  <2>2. ~(h + len < 3)
    BY DEF LastChunk
  <2>3. Len(Have) + len >= 3
    <3> HIDE DEF h
    <3>1. h + len >= 3
      BY <2>1, <2>2
    <3>2. QED
      BY <3>1 DEF h
  <2>4. ~(c \in 1 .. N)
    BY <1>1, <1>2, <2>3, LastSeen
  <2>5. QED
    BY <1>1, <2>4, ResponseFacts
<1>4. delivered = First(Len(payload)) /\ Len(payload) \in Nat
  BY <1>1, <1>2, <1>3, Layout, ResponseFacts DEF SizeAt
<1>5. First(Len(payload)) = payload
  BY <1>1, ResponseFacts DEF First
<1>6. /\ UNCHANGED <<wireVars, state, remainVars, respVars, readVars, prev>>
      /\ delivered' = delivered /\ chunk_size' = 0 /\ pc' = "check"
  BY DEF LastChunk, Goes
<1>7. Len(payload) \in 0 .. Len(payload) /\ delivered' = First(Len(payload))
      /\ (IF chunk_size' = 0 THEN delivered' = payload ELSE DecoderAt(pos)')
  BY <1>4, <1>5, <1>6
<1>8. QED
  BY <1>1, <1>6, <1>7, Stops

(* Some of the digits are there: the next call has them from this one. *)
LEMMA PartOfSizeKeeps ==
  ASSUME IInv, TypeInv', PartOfSize, ~misread'
  PROVE  IInv'
<1>1. /\ pc = "size" /\ state = "body" /\ InChunks /\ TypeInv /\ Window
      /\ Loaded(idx, len) /\ len <= pos
      /\ (~entering => FourDigits /\ chunk_size > 0)
      /\ len < Need /\ (~entering => ~IsLast(SizeLine))
  BY DEF PartOfSize, AtSize, Inside, IInv
<1>2. PICK c \in 1 .. N + 1 : SizeAt(c, pos - len, Have)
  BY <1>1 DEF AtSize, IInv
<1>3. /\ idx + len <= Capacity /\ idx \in Nat /\ len \in Nat /\ pos \in Nat
      /\ Capacity \in Nat /\ N \in Nat
  BY <1>1, WindowIs
<1>4. Len(Have) \in 0 .. 3 /\ Need = 4 - Len(Have)
  BY <1>1, <1>2, <1>3, SizeLineIs
<1>5. ~entering
  BY DEF PartOfSize
<1>6. Have = <<>> /\ Len(Have) = 0
  BY <1>5 DEF Have
<1>7. len <= 3 /\ (c = N + 1 => len <= 2)
  <2>1. len < 4 /\ Need = 4
    BY <1>1, <1>4, <1>6
  <2>2. ~(c = N + 1 /\ len >= 3)
    <3> SUFFICES ASSUME c = N + 1, len >= 3 PROVE FALSE
      OBVIOUS
    <3>1. Len(Have) + len >= 3
      BY <1>3, <1>6
    <3>2. QED
      BY <1>1, <1>2, <1>5, <3>1, LastSeen
  <2>3. QED
    BY <1>3, <2>1, <2>2
<1> DEFINE s == BytesAt(idx, len)
<1>8. /\ s \in Seq(Sent) /\ Len(s) = len
      /\ \A j \in 1 .. len : s[j] = stream[pos - len + j]
  BY <1>1, <1>3, LoadedBytes
<1>9. /\ UNCHANGED <<wireVars, state, remainVars, respVars, readVars, prev>>
      /\ UNCHANGED <<chunk_size, chunk_state_remain_byte, body_len, delivered>>
      /\ chunk_size_str' = CString(s) /\ chunk_terminate_state' = 0
      /\ forced_continue' = TRUE /\ pc' = "check"
      /\ idx' = 0 /\ len' = 0 /\ entering' = FALSE
  BY <1>5 DEF PartOfSize, Interrupted, Goes
<1>10. chunk_size_str' = s
  BY <1>8, <1>9, CStringIs
<1> HIDE DEF s
<1>11. /\ response' = response /\ stream' = stream /\ payload' = payload
       /\ N' = N /\ HL' = HL /\ InChunks' = InChunks /\ FourDigits' = FourDigits
  BY <1>9, SameResponse DEF wireVars
<1>12. /\ pos - len = Start(response, c) /\ Start(response, c) \in Nat
       /\ delivered = First(Before(response, c)) /\ Before(response, c) \in 0 .. Len(payload)
  <2>1. /\ pos - len = Start(response, c) + 0 /\ delivered = First(Before(response, c))
    BY <1>2, <1>6 DEF SizeAt
  <2>2. Start(response, c) \in Nat /\ Before(response, c) \in Nat
    BY <1>1, Layout
  <2>3. Before(response, c) \in 0 .. Len(payload)
    BY <1>1, BeforeFits
  <2>4. QED
    BY <2>1, <2>2, <2>3
<1>13. SizeAt(c, pos, chunk_size_str)'
  <2>1. (c \in 1 .. N + 1)' /\ (chunk_size_str \in Seq(Sent))' /\ FourDigits'
    BY <1>1, <1>5, <1>8, <1>10, <1>11
  <2>2. (Len(chunk_size_str) <= 3 /\ (c = N + 1 => Len(chunk_size_str) <= 2))'
    BY <1>7, <1>8, <1>10, <1>11
  <2>3. (pos = Start(response, c) + Len(chunk_size_str))'
    <3>1. pos = Start(response, c) + len
      BY <1>3, <1>12
    <3>2. QED
      BY <1>8, <1>9, <1>10, <1>11, <3>1 DEF wireVars
  <2>4. (\A j \in 1 .. Len(chunk_size_str) : chunk_size_str[j] = stream[Start(response, c) + j])'
    BY <1>8, <1>10, <1>11, <1>12
  <2>5. (delivered = First(Before(response, c)))'
    BY <1>9, <1>11, <1>12 DEF First
  <2>6. QED
    BY <2>1, <2>2, <2>3, <2>4, <2>5 DEF SizeAt
<1>14. DecoderAt(pos)' /\ chunk_size' # 0
  BY <1>1, <1>5, <1>9, <1>11, <1>13 DEF DecoderAt
<1>15. delivered' = First(Before(response, c))
  BY <1>9, <1>12
<1>16. QED
  BY <1>1, <1>9, <1>12, <1>14, <1>15, Stops

(* All four digits are there. *)
LEMMA SizeKeeps ==
  ASSUME IInv, TypeInv', Size, ~misread'
  PROVE  IInv'
<1>1. /\ pc = "size" /\ state = "body" /\ InChunks /\ TypeInv /\ Window
      /\ Loaded(idx, len) /\ len <= pos /\ len >= Need /\ ~IsLast(SizeLine)
  BY DEF Size, AtSize, Inside, IInv
<1>2. PICK c \in 1 .. N + 1 : SizeAt(c, pos - len, Have)
  BY <1>1 DEF AtSize, IInv
<1>3. /\ idx + len <= Capacity /\ idx \in Nat /\ len \in Nat /\ pos \in Nat
      /\ Capacity \in Nat /\ N \in Nat
  BY <1>1, WindowIs
<1>4. /\ Len(Have) \in 0 .. 3 /\ Need = 4 - Len(Have)
      /\ Len(SizeLine) = 4 /\ SizeLine \in Seq(Sent)
      /\ \A j \in 1 .. 4 : j <= Len(Have) + len => SizeLine[j] = stream[Start(response, c) + j]
  BY <1>1, <1>2, <1>3, SizeLineIs
<1> DEFINE g == Len(Have)
           s == Start(response, c)
           b == Before(response, c)
           cs == SizeOf(response, c)
<1>5. pos - len = s + g /\ delivered = First(b)
  BY <1>2 DEF SizeAt
<1>6. g \in 0 .. 3 /\ Need = 4 - g /\ \A j \in 1 .. 4 : j <= g + len => SizeLine[j] = stream[s + j]
  BY <1>4
<1>7. s \in Nat /\ b \in 0 .. Len(payload)
  BY <1>1, Layout, BeforeFits
<1> HIDE DEF g, b, s, cs
<1>8. c \in 1 .. N
  <2>1. Len(Have) + len >= 3
    <3>1. g + len >= 3
      BY <1>1, <1>3, <1>6
    <3>2. QED
      BY <3>1 DEF g
  <2>2. c # N + 1
    BY <1>1, <1>2, <2>1, LastSeen
  <2>3. QED
    BY <1>3, <2>2
<1>9. cs \in 1 .. 9
  BY <1>1, <1>8, Layout DEF cs
<1>10. /\ FourDigits
       /\ SizeLine[1] = "0" /\ SizeLine[2] = "0" /\ SizeLine[3] = "0" /\ SizeLine[4] = Hex[cs + 1]
  <2>1. \A j \in 1 .. 4 : SizeLine[j] = stream[s + j]
    BY <1>1, <1>3, <1>6
  <2>2. \A n \in 1 .. 4 : SizeLine[n] \in Digits
    BY DEF Size
  <2>3. FourDigits
    <3> SUFFICES ASSUME ~FourDigits PROVE FALSE
      OBVIOUS
    <3>1. \E j \in 2 .. 4 : stream[s + j] = "CR"
      BY <1>1, <1>8, SizeBytes DEF s
    <3>2. PICK j \in 2 .. 4 : stream[s + j] = "CR"
      BY <3>1
    <3>3. j \in 1 .. 4
      OBVIOUS
    <3>4. "CR" \in Digits
      BY <2>1, <2>2, <3>2, <3>3
    <3>5. QED
      BY <3>4, HexDigits
  <2>4. /\ stream[s + 1] = "0" /\ stream[s + 2] = "0" /\ stream[s + 3] = "0"
        /\ stream[s + 4] = Hex[cs + 1]
    BY <1>1, <1>8, <2>3, SizeBytes DEF s, cs
  <2>5. 1 \in 1 .. 4 /\ 2 \in 1 .. 4 /\ 3 \in 1 .. 4 /\ 4 \in 1 .. 4
    OBVIOUS
  <2>6. QED
    BY <2>1, <2>3, <2>4, <2>5
<1>11. CString(SizeLine) = SizeLine /\ Strtol(SizeLine) = cs
  <2>1. cs \in 0 .. 9
    BY <1>9
  <2>2. CString(SizeLine) = SizeLine
    BY <1>4, CStringIs
  <2>3. Strtol(SizeLine) = cs
    BY <1>4, <1>10, <2>1, StrtolIs
  <2>4. QED
    BY <2>2, <2>3
<1>12. /\ UNCHANGED <<wireVars, state, remainVars, respVars, readVars, prev>>
       /\ UNCHANGED <<chunk_state_remain_byte, body_len, forced_continue, delivered>>
       /\ chunk_size_str' = SizeLine /\ chunk_size' = cs /\ chunk_terminate_state' = 0
       /\ pc' = "mid"
       /\ idx' = idx + Need /\ len' = len - Need /\ entering' = FALSE
  BY <1>11 DEF Size, Goes, loopVars
<1>13. /\ response' = response /\ stream' = stream /\ payload' = payload
       /\ N' = N /\ HL' = HL /\ InChunks' = InChunks /\ FourDigits' = FourDigits
  BY <1>12, SameResponse DEF wireVars
<1>14. Need \in 0 .. len
  BY <1>1, <1>3, <1>6
<1>15. delivered' = First(b)
  BY <1>5, <1>12
<1>16. Window' /\ Wire' /\ Fields' /\ Inside("mid")'
  BY <1>1, <1>7, <1>12, <1>14, <1>15, GoesOn
<1>17. MidAt(c, pos - len, Due(2))'
  <2>1. Due(2)' = 2 /\ pos' = pos
    BY <1>12 DEF Due, wireVars
  <2>2. pos - len' + 2 = s + 6
    <3>1. len' = len - (4 - g)
      BY <1>6, <1>12
    <3>2. QED
      BY <1>3, <1>5, <1>6, <1>7, <3>1
  <2>3. ((pos - len) + Due(2) = Start(response, c) + 6)'
    BY <1>13, <2>1, <2>2 DEF s
  <2>4. (c \in 1 .. N)' /\ (chunk_size = SizeOf(response, c))' /\ (Due(2) \in 1 .. 2)'
    BY <1>8, <1>12, <1>13, <2>1 DEF cs
  <2>5. (delivered = First(Before(response, c)))'
    BY <1>13, <1>15 DEF First, b
  <2>6. QED
    BY <1>10, <1>13, <2>3, <2>4, <2>5 DEF MidAt
<1>18. AtMid'
  BY <1>8, <1>13, <1>16, <1>17 DEF AtMid
<1>19. QED
  BY <1>12, <1>16, <1>18, Elsewhere DEF IInv

(* Where the decoder is, in the stream. *)
LEMMA Places ==
  ASSUME TypeInv, InChunks
  PROVE  /\ \A c \in 1 .. N + 1 : HL <= Start(response, c) /\ Start(response, c) <= Start(response, N + 1)
         /\ Len(stream) = Start(response, N + 1) + 5
<1> DEFINE S(c) == Start(response, c)
<1>1. /\ S(1) = HL /\ N \in Nat /\ Len(stream) = S(N + 1) + 5
      /\ \A c \in 1 .. N + 1 : S(c) \in Nat
      /\ \A c \in 1 .. N : S(c) <= S(c + 1) /\ S(c + 1) <= S(N + 1)
  <2>1. /\ S(1) = HL /\ N \in Nat /\ Len(stream) = S(N + 1) + 5
        /\ \A c \in 1 .. N + 1 : S(c) \in Nat
        /\ \A c \in 1 .. N : /\ SizeOf(response, c) \in 1 .. 9
                             /\ S(c) + 6 <= S(c + 1)
                             /\ S(c + 1) <= S(N + 1)
    BY ResponseFacts, Layout
  <2> HIDE DEF S
  <2>2. ASSUME NEW c \in 1 .. N PROVE S(c) <= S(c + 1)
    <3> DEFINE a == S(c)
               b == S(c + 1)
    <3>1. c \in 1 .. N + 1 /\ c + 1 \in 1 .. N + 1
      BY <2>1
    <3>2. a \in Nat /\ b \in Nat /\ a + 6 <= b
      BY <2>1, <3>1
    <3> HIDE DEF a, b
    <3>3. a <= b
      BY <3>2
    <3>4. QED
      BY <3>3 DEF a, b
  <2>3. QED
    BY <2>1, <2>2
<1> HIDE DEF S
<1>2. \A c \in 1 .. N + 1 : S(c) <= S(N + 1)
  <2> SUFFICES ASSUME NEW c \in 1 .. N + 1 PROVE S(c) <= S(N + 1)
    OBVIOUS
  <2>1. S(c) \in Nat
    BY <1>1
  <2>2. CASE c = N + 1
    BY <2>1, <2>2
  <2>3. CASE c \in 1 .. N
    <3> DEFINE a == S(c)
               b == S(c + 1)
               e == S(N + 1)
    <3>1. c + 1 \in 1 .. N + 1 /\ N + 1 \in 1 .. N + 1
      BY <1>1, <2>3
    <3>2. a \in Nat /\ b \in Nat /\ e \in Nat /\ a <= b /\ b <= e
      BY <1>1, <2>1, <2>3, <3>1
    <3> HIDE DEF a, b, e
    <3>3. a <= e
      BY <3>2
    <3>4. QED
      BY <3>3 DEF a, e
  <2>4. QED
    BY <1>1, <2>2, <2>3
<1>3. \A c \in 1 .. N + 1 : S(1) <= S(c)
  <2> DEFINE T == {m \in 0 .. N : S(1) <= S(m + 1)}
  <2>1. 0 \in T
    BY <1>1
  <2>2. ASSUME NEW m \in 0 .. N - 1, m \in T PROVE m + 1 \in T
    <3> DEFINE a == S(1)
               b == S(m + 1)
               e == S((m + 1) + 1)
    <3>1. a <= b
      BY <2>2
    <3>2. m + 1 \in 1 .. N /\ 1 \in 1 .. N + 1 /\ m + 1 \in 1 .. N + 1 /\ (m + 1) + 1 \in 1 .. N + 1
          /\ m + 1 \in 0 .. N
      BY <1>1
    <3>3. a \in Nat /\ b \in Nat /\ e \in Nat /\ b <= e
      BY <1>1, <3>2
    <3> HIDE DEF a, b, e
    <3>4. a <= e
      BY <3>1, <3>3
    <3>5. QED
      BY <3>2, <3>4 DEF a, e
  <2>3. 0 .. N \subseteq T
    <3> HIDE DEF T
    <3>1. QED
      BY <1>1, <2>1, <2>2, IntervalInduction
  <2>4. ASSUME NEW c \in 1 .. N + 1 PROVE S(1) <= S(c)
    <3>1. c - 1 \in 0 .. N /\ (c - 1) + 1 = c
      BY <1>1
    <3>2. c - 1 \in T
      BY <2>3, <3>1
    <3>3. S(1) <= S((c - 1) + 1)
      BY <3>2
    <3>4. QED
      BY <3>1, <3>3
  <2>5. QED
    BY <2>4
<1>4. QED
  BY <1>1, <1>2, <1>3 DEF S

(* The decoder has got as far as the first byte of the body, at least. *)
LEMMA DecoderFrom ==
  ASSUME TypeInv, InChunks, NEW q \in Int, DecoderAt(q)
  PROVE  q >= HL
<1> DEFINE S(c) == Start(response, c)
<1>1. \A c \in 1 .. N + 1 : S(c) \in Nat /\ HL <= S(c)
  BY Places, Layout
<1>2. N \in Nat /\ HL \in Nat
  BY ResponseFacts
<1>3. PICK c \in 1 .. N + 1 :
        \/ chunk_terminate_state = 0 /\ SizeAt(c, q, chunk_size_str)
        \/ chunk_terminate_state = 1 /\ MidAt(c, q, chunk_state_remain_byte)
        \/ chunk_terminate_state = 2 /\ DataAt(c, q, chunk_state_remain_byte)
        \/ chunk_terminate_state = 3 /\ EndAt(c, q, chunk_state_remain_byte)
  BY DEF DecoderAt
<1> DEFINE s == S(c)
           due == chunk_state_remain_byte
           h == Len(chunk_size_str)
<1>4. s \in Nat /\ HL <= s
  BY <1>1
<1>5. CASE SizeAt(c, q, chunk_size_str)
  <2>1. q = s + h /\ h \in Nat
    BY <1>5 DEF SizeAt
  <2> HIDE DEF s, h
  <2>2. QED
    BY <1>2, <1>4, <2>1
<1>6. CASE MidAt(c, q, due)
  <2>1. due \in 1 .. 2 /\ q + due = s + 6
    BY <1>6 DEF MidAt
  <2> HIDE DEF s, due
  <2>2. QED
    BY <1>2, <1>4, <2>1
<1>7. CASE DataAt(c, q, due)
  <2>1. due \in 1 .. chunk_size /\ q + due = s + 6 + chunk_size /\ chunk_size \in Nat
    BY <1>7 DEF DataAt, TypeInv
  <2> HIDE DEF s, due
  <2>2. QED
    BY <1>2, <1>4, <2>1
<1>8. CASE EndAt(c, q, due)
  <2>1. due \in 1 .. 2 /\ q + due = s + 8 + chunk_size /\ chunk_size \in Nat
    BY <1>8 DEF EndAt, TypeInv
  <2> HIDE DEF s, due
  <2>2. QED
    BY <1>2, <1>4, <2>1
<1>9. QED
  BY <1>3, <1>5, <1>6, <1>7, <1>8

--------------------------------------------------------------------------------
(* The steps of the loop.                                                       *)

(* While the decoder waits, the last chunk is still to come. *)
LEMMA DecoderShort ==
  ASSUME TypeInv, InChunks, NEW q \in Int, DecoderAt(q)
  PROVE  q < Len(stream)
<1> DEFINE e == Start(response, N + 1)
           w == Len(stream)
           due == chunk_state_remain_byte
           h == Len(chunk_size_str)
<1> SUFFICES q < w
  OBVIOUS
<1>1. N \in Nat /\ N + 1 \in 1 .. N + 1
  BY ResponseFacts
<1>2. w = e + 5 /\ e \in Nat
  BY <1>1, Places, Layout
<1>3. PICK c \in 1 .. N + 1 :
        \/ chunk_terminate_state = 0 /\ SizeAt(c, q, chunk_size_str)
        \/ chunk_terminate_state = 1 /\ MidAt(c, q, chunk_state_remain_byte)
        \/ chunk_terminate_state = 2 /\ DataAt(c, q, chunk_state_remain_byte)
        \/ chunk_terminate_state = 3 /\ EndAt(c, q, chunk_state_remain_byte)
  BY DEF DecoderAt
<1> DEFINE s == Start(response, c)
           t == Start(response, c + 1)
           z == SizeOf(response, c)
<1>4. s \in Nat /\ s <= e
  BY Places, Layout
<1>5. ASSUME c \in 1 .. N
      PROVE  /\ t \in Nat /\ t <= e /\ z \in 1 .. 9 /\ s + 6 <= t
             /\ FourDigits => t = s + z + 8
  <2>1. c + 1 \in 1 .. N + 1
    BY <1>1, <1>5
  <2>2. t \in Nat
    BY <2>1, Layout
  <2>3. QED
    BY <1>5, <2>2, Layout
<1>6. CASE SizeAt(c, q, chunk_size_str)
  <2>1. q = s + h /\ h <= 3
    BY <1>6 DEF SizeAt
  <2>2. h \in Nat
    BY <1>6 DEF SizeAt
  <2> HIDE DEF s, h, e, w
  <2>3. QED
    BY <1>2, <1>4, <2>1, <2>2
<1>7. CASE MidAt(c, q, due)
  <2>1. c \in 1 .. N /\ due \in 1 .. 2 /\ q + due = s + 6
    BY <1>7 DEF MidAt
  <2>2. t \in Nat /\ t <= e /\ s + 6 <= t
    BY <1>5, <2>1
  <2> HIDE DEF s, t, due, e, w
  <2>3. q < t
    BY <1>4, <2>1, <2>2
  <2>4. QED
    BY <1>2, <2>2, <2>3
<1>8. CASE DataAt(c, q, due)
  <2>1. /\ c \in 1 .. N /\ FourDigits /\ due \in 1 .. z /\ q + due = s + 6 + z
    BY <1>8 DEF DataAt
  <2>2. t \in Nat /\ t <= e /\ t = s + z + 8 /\ z \in 1 .. 9
    BY <1>5, <2>1
  <2> HIDE DEF s, t, z, due, e, w
  <2>3. q < t
    BY <1>4, <2>1, <2>2
  <2>4. QED
    BY <1>2, <2>2, <2>3
<1>9. CASE EndAt(c, q, due)
  <2>1. /\ c \in 1 .. N /\ FourDigits /\ due \in 1 .. 2 /\ q + due = s + 8 + z
    BY <1>9 DEF EndAt
  <2>2. t \in Nat /\ t <= e /\ t = s + z + 8 /\ z \in 1 .. 9
    BY <1>5, <2>1
  <2> HIDE DEF s, t, z, due, e, w
  <2>3. q < t
    BY <1>4, <2>1, <2>2
  <2>4. QED
    BY <1>2, <2>2, <2>3
<1>10. QED
  BY <1>3, <1>6, <1>7, <1>8, <1>9

(* What a step that only moves the worker keeps. *)
LEMMA NothingReadKeeps ==
  ASSUME IInv, TypeInv', NothingRead
  PROVE  IInv'
<1>1. /\ pc = "body" /\ read_len = 0 /\ TypeInv /\ state = "body" /\ InChunks
      /\ transfer_encoding = "chunked"
      /\ Wire /\ Fields /\ AtBody
  BY DEF NothingRead, IInv, AtBody, Fields, Settled
<1>2. /\ UNCHANGED <<wireVars, state, remainVars, chunkVars, respVars, readVars>>
      /\ UNCHANGED <<body_len, delivered, prev, decoderVars>>
      /\ forced_continue' = FALSE /\ pc' = "check"
  BY DEF NothingRead, Goes
<1>3. /\ response' = response /\ stream' = stream /\ payload' = payload
      /\ N' = N /\ HL' = HL /\ InChunks' = InChunks /\ FourDigits' = FourDigits
  BY <1>2, SameResponse DEF wireVars
<1>4. /\ remain_index = 0 /\ remain_len = 0 /\ chunk_size > 0 /\ DecoderAt(pos)
  <2>1. /\ remain_index + Unread = read_len /\ DecoderAt(pos - Unread) /\ chunk_size > 0
    BY <1>1 DEF AtBody
  <2>2. remain_index \in Nat /\ remain_len \in Nat /\ Unread \in Nat
    BY <1>1, ResponseAssumption DEF TypeInv, Unread
  <2>3. remain_index = 0 /\ Unread = 0
    BY <1>1, <2>1, <2>2
  <2>4. remain_len = 0
    BY <2>3 DEF Unread
  <2>5. pos - Unread = pos
    BY <1>1, <2>3, ResponseFacts DEF TypeInv
  <2>6. QED
    BY <2>1, <2>3, <2>4, <2>5
<1>5. Window'
  BY <1>2 DEF Window
<1>6. Wire'
  BY <1>1, <1>2, <1>3, <1>4 DEF Wire, Cut, wireVars, remainVars, First
<1>7. Fields'
  BY <1>1, <1>2, <1>3 DEF Fields, FieldDue, Settled, Base, readVars, wireVars, respVars, chunkVars
<1>8. AtCheck'
  <2>1. DecoderAt(pos)'
    BY <1>2, <1>3, <1>4 DEF DecoderAt, SizeAt, MidAt, DataAt, EndAt, First, wireVars, chunkVars
  <2>2. QED
    BY <1>1, <1>2, <1>3, <1>4, <2>1 DEF AtCheck, chunkVars
<1>9. QED
  BY <1>2, <1>5, <1>6, <1>7, <1>8, Elsewhere DEF IInv

(* The decoder continues at the label where the last call ran out of bytes. *)
LEMMA EnterDecoderKeeps ==
  ASSUME IInv, TypeInv', EnterDecoder, ~misread'
  PROVE  IInv'
<1> DEFINE q == pos - Unread
<1>1. /\ pc = "body" /\ read_len > 0 /\ TypeInv /\ state = "body" /\ InChunks
      /\ Wire /\ Fields /\ AtBody
  BY DEF EnterDecoder, IInv, AtBody, Fields, Settled
<1>2. /\ UNCHANGED <<wireVars, state, chunkVars, respVars, readVars, loopVars, prev>>
      /\ idx' = remain_index /\ len' = Unread /\ entering' = TRUE
      /\ remain_index' = 0 /\ remain_len' = 0
      /\ pc' = Labels[chunk_terminate_state + 1]
  BY DEF EnterDecoder, Goes, Unread
<1>3. /\ response' = response /\ stream' = stream /\ payload' = payload
      /\ N' = N /\ HL' = HL /\ InChunks' = InChunks /\ FourDigits' = FourDigits
  BY <1>2, SameResponse DEF wireVars
<1>4. /\ DecoderAt(q) /\ Loaded(remain_index, Unread)
      /\ remain_index + Unread = read_len /\ Unread <= pos
  <2>1. ~(remain_len = 0 /\ remain_index > 0)
    BY DEF EnterDecoder
  <2>2. QED
    BY <1>1, <2>1 DEF AtBody
<1>5. /\ remain_index \in Nat /\ Unread \in Nat /\ pos \in Nat /\ read_len \in 0 .. Capacity
      /\ Capacity \in Nat /\ q \in Int /\ N \in Nat
  BY <1>1, NumbersAre DEF Unread
<1>6. /\ chunk_terminate_state \in 0 .. 3 /\ chunk_size \in Nat
      /\ Labels[1] = "size" /\ Labels[2] = "mid" /\ Labels[3] = "chunk" /\ Labels[4] = "end"
  BY <1>1 DEF TypeInv, Labels
<1>7. pc' \in {"size", "mid", "chunk", "end"}
  <2>1. chunk_terminate_state + 1 \in 1 .. 4
    BY <1>6
  <2>2. QED
    BY <1>2, <2>1, LabelNames
<1>8. Window'
  BY <1>2, <1>4, <1>5 DEF Window, readVars
<1>9. Wire'
  BY <1>1, <1>2, <1>3, <1>7 DEF Wire, Cut, wireVars, loopVars, First
<1>10. Fields'
  BY <1>1, <1>2, <1>3, <1>7 DEF Fields, FieldDue, Settled, Base, readVars, wireVars, respVars, chunkVars, loopVars
<1>11. \A l : pc' = l => Inside(l)'
  <2>1. Loaded(idx, len)'
    BY <1>2, <1>3, <1>4 DEF Loaded, wireVars, readVars
  <2>3. Labels[chunk_terminate_state' + 1] = pc'
    BY <1>2 DEF chunkVars
  <2>4. QED
    BY <1>1, <1>2, <1>3, <1>4, <2>1, <2>3 DEF Inside, wireVars
<1>12. /\ (pos - len)' = q /\ Have' = chunk_size_str
       /\ Due(2)' = chunk_state_remain_byte /\ Due(chunk_size)' = chunk_state_remain_byte
       /\ chunk_size' = chunk_size /\ delivered' = delivered /\ entering' = TRUE
  BY <1>2 DEF wireVars, chunkVars, loopVars, Have, Due
<1> HIDE DEF q
<1>13. PICK c \in 1 .. N + 1 :
        \/ chunk_terminate_state = 0 /\ SizeAt(c, q, chunk_size_str)
        \/ chunk_terminate_state = 1 /\ MidAt(c, q, chunk_state_remain_byte)
        \/ chunk_terminate_state = 2 /\ DataAt(c, q, chunk_state_remain_byte)
        \/ chunk_terminate_state = 3 /\ EndAt(c, q, chunk_state_remain_byte)
  BY <1>4 DEF DecoderAt
<1>14. CASE chunk_terminate_state = 0 /\ SizeAt(c, q, chunk_size_str)
  <2>1. pc' = "size"
    BY <1>2, <1>6, <1>14
  <2>2. SizeAt(c, pos - len, Have)'
    BY <1>3, <1>12, <1>14 DEF SizeAt, First
  <2>4. AtSize'
    <3>1. (\E d \in 1 .. N + 1 : SizeAt(d, pos - len, Have))'
      BY <1>3, <2>2
    <3>2. QED
      BY <1>11, <1>12, <2>1, <3>1 DEF AtSize
  <2>5. QED
    BY <1>8, <1>9, <1>10, <2>1, <2>4, Elsewhere DEF IInv
<1>15. CASE chunk_terminate_state = 1 /\ MidAt(c, q, chunk_state_remain_byte)
  <2>1. pc' = "mid"
    BY <1>2, <1>6, <1>15
  <2>2. MidAt(c, pos - len, Due(2))' /\ c \in 1 .. N
    BY <1>3, <1>12, <1>15 DEF MidAt, First
  <2>3. AtMid'
    BY <1>3, <1>11, <2>1, <2>2 DEF AtMid
  <2>4. QED
    BY <1>8, <1>9, <1>10, <2>1, <2>3, Elsewhere DEF IInv
<1>16. CASE chunk_terminate_state = 2 /\ DataAt(c, q, chunk_state_remain_byte)
  <2>1. pc' = "chunk"
    BY <1>2, <1>6, <1>16
  <2>2. DataAt(c, pos - len, Due(chunk_size))' /\ c \in 1 .. N
    BY <1>3, <1>12, <1>16 DEF DataAt, First
  <2>3. AtChunk'
    BY <1>3, <1>11, <2>1, <2>2 DEF AtChunk
  <2>4. QED
    BY <1>8, <1>9, <1>10, <2>1, <2>3, Elsewhere DEF IInv
<1>17. CASE chunk_terminate_state = 3 /\ EndAt(c, q, chunk_state_remain_byte)
  <2>1. pc' = "end"
    BY <1>2, <1>6, <1>17
  <2>2. EndAt(c, pos - len, Due(2))' /\ c \in 1 .. N
    BY <1>3, <1>12, <1>17 DEF EndAt, First
  <2>3. AtEnd'
    BY <1>3, <1>11, <2>1, <2>2 DEF AtEnd
  <2>4. QED
    BY <1>8, <1>9, <1>10, <2>1, <2>3, Elsewhere DEF IInv
<1>18. QED
  BY <1>13, <1>14, <1>15, <1>16, <1>17

(* The end of the stream. *)
LEMMA ReadNothingKeeps ==
  ASSUME IInv, TypeInv', ReadNothing, ~misread'
  PROVE  IInv'
<1>1. pc = "read" /\ TypeInv /\ Wire /\ Fields /\ AtRead
  BY DEF ReadNothing, IInv
<1>2. /\ UNCHANGED <<wireVars, state, remainVars, chunkVars, respVars, buffer>>
      /\ UNCHANGED <<loopVars, prev, decoderVars>>
      /\ read_len' = 0
      /\ pc' = IF forced_continue THEN "body" ELSE "done"
      /\ closed \/ remain_len = Capacity
  BY DEF ReadNothing, Goes
<1>3. /\ response' = response /\ stream' = stream /\ payload' = payload
      /\ N' = N /\ HL' = HL /\ InChunks' = InChunks /\ FourDigits' = FourDigits
  BY <1>2, SameResponse DEF wireVars
<1>4. closed
  BY DEF ReadNothing
<1>5. Window'
  BY <1>2 DEF Window
<1>6. forced_continue => /\ InChunks /\ state = "body" /\ DecoderAt(pos) /\ chunk_size > 0
                           /\ remain_len = 0 /\ remain_index = 0
  BY <1>1 DEF Fields, AtRead, BodyAt, Wire
<1>7. Wire'
  <2>1. /\ pc' # "failed" /\ delivered' = delivered /\ pos' = pos /\ closed' = closed
        /\ state' = state /\ remain_index' = remain_index /\ remain_len' = remain_len
    BY <1>2 DEF wireVars, remainVars, loopVars
  <2>2. QED
    BY <1>1, <1>3, <2>1 DEF Wire, Cut, First
<1>8. Fields'
  BY <1>1, <1>2, <1>3, <1>6 DEF Fields, FieldDue, Settled, Base, readVars, wireVars, respVars, chunkVars, loopVars
<1>9. AtBody'
  <2> SUFFICES ASSUME pc' = "body" PROVE AtBody'
    BY Elsewhere
  <2>1. /\ InChunks /\ state = "body" /\ DecoderAt(pos) /\ chunk_size > 0
        /\ remain_len = 0 /\ remain_index = 0
    BY <1>2, <1>6
  <2>2. /\ remain_len' = 0 /\ remain_index' = 0 /\ read_len' = 0 /\ Unread' = 0
        /\ pos' = pos /\ pos \in Nat /\ pos - 0 = pos
    BY <1>1, <1>2, <1>4, <2>1, ResponseFacts DEF remainVars, wireVars, Unread, TypeInv
  <2>3. DecoderAt(pos - Unread)'
    BY <1>2, <1>3, <2>1, <2>2
       DEF DecoderAt, SizeAt, MidAt, DataAt, EndAt, First, chunkVars, loopVars
  <2>4. Loaded(remain_index, Unread)'
    BY <2>2 DEF Loaded
  <2>5. state' = "body" /\ chunk_size' > 0
    BY <1>2, <2>1 DEF wireVars, chunkVars
  <2>6. (remain_index + Unread = read_len)' /\ (Unread <= pos)'
    BY <2>2
  <2>7. QED
    BY <1>3, <2>1, <2>3, <2>4, <2>5, <2>6 DEF AtBody
<1>10. pc' \notin {"read", "parse", "header_end", "size", "mid", "chunk", "end", "check"}
  BY <1>2
<1>11. QED
  BY <1>5, <1>7, <1>8, <1>9, <1>10, Elsewhere DEF IInv

(* A connection that has been reset. *)
LEMMA ReadFailsKeeps ==
  ASSUME IInv, TypeInv', ReadFails
  PROVE  IInv'
<1>1. pc = "read" /\ TypeInv /\ Wire /\ Fields /\ closed /\ pos < Len(stream)
  BY DEF ReadFails, IInv
<1>2. /\ UNCHANGED <<wireVars, state, remainVars, chunkVars, respVars, readVars>>
      /\ UNCHANGED <<loopVars, prev, decoderVars>>
      /\ pc' \in {"failed", "done"}
  BY DEF ReadFails, Goes
<1>3. /\ response' = response /\ stream' = stream /\ payload' = payload
      /\ N' = N /\ HL' = HL /\ InChunks' = InChunks /\ FourDigits' = FourDigits
  BY <1>2, SameResponse DEF wireVars
<1>4. Window'
  BY <1>2 DEF Window
<1>5. Wire'
  BY <1>1, <1>2, <1>3 DEF Wire, Cut, First, wireVars, remainVars, loopVars
<1>6. Fields'
  BY <1>1, <1>2, <1>3 DEF Fields, FieldDue, Settled, Base, readVars, wireVars, respVars, chunkVars, loopVars
<1>7. QED
  BY <1>2, <1>4, <1>5, <1>6, Elsewhere DEF IInv

(* The body is not complete yet. *)
LEMMA ReadMoreKeeps ==
  ASSUME IInv, TypeInv', ReadMore
  PROVE  IInv'
<1>1. /\ pc = "check" /\ TypeInv /\ Wire /\ Fields /\ AtCheck /\ ~Complete /\ state = "body"
  BY DEF ReadMore, IInv, AtCheck
<1>2. /\ UNCHANGED <<wireVars, state, remainVars, chunkVars, respVars, readVars>>
      /\ UNCHANGED <<loopVars, prev, decoderVars>>
      /\ pc' = "read"
  BY DEF ReadMore, Goes
<1>3. /\ response' = response /\ stream' = stream /\ payload' = payload
      /\ N' = N /\ HL' = HL /\ InChunks' = InChunks /\ FourDigits' = FourDigits
  BY <1>2, SameResponse DEF wireVars
<1>4. Window'
  BY <1>2 DEF Window
<1>5. Wire'
  BY <1>1, <1>2, <1>3 DEF Wire, Cut, First, wireVars, remainVars, loopVars
<1>6. Fields'
  BY <1>1, <1>2, <1>3 DEF Fields, FieldDue, Settled, Base, readVars, wireVars, respVars, chunkVars, loopVars
<1>7. BodyAt(pos) /\ (InChunks => chunk_size > 0)
  <2>1. InChunks => transfer_encoding = "chunked" /\ chunk_size # 0
    BY <1>1 DEF Fields, FieldDue, Settled, Complete
  <2>2. chunk_size \in Nat
    BY <1>1 DEF TypeInv
  <2>3. QED
    BY <1>1, <2>1, <2>2 DEF AtCheck, BodyAt
<1>8. BodyAt(pos)'
  BY <1>2, <1>3, <1>7 DEF BodyAt, PlainAt,
     DecoderAt, SizeAt, MidAt, DataAt, EndAt, First, chunkVars, loopVars, wireVars
<1>9. AtRead'
  BY <1>1, <1>2, <1>3, <1>7, <1>8 DEF AtRead, chunkVars
<1>10. QED
  BY <1>2, <1>4, <1>5, <1>6, <1>9, Elsewhere DEF IInv

(* More bytes than were announced are never there. *)
LEMMA EndOfBodyKeeps ==
  ASSUME IInv, TypeInv', EndOfBody
  PROVE  IInv' /\ pc' = "done" /\ state' = "end" /\ delivered = payload
<1>1. /\ pc = "check" /\ TypeInv /\ Wire /\ Fields /\ AtCheck /\ Complete /\ state = "body"
  BY DEF EndOfBody, IInv, AtCheck
<1>2. /\ UNCHANGED <<wireVars, remainVars, chunkVars, respVars, readVars>>
      /\ UNCHANGED <<loopVars, prev, decoderVars>>
      /\ IF transfer_encoding = "none" /\ body_len # content_length
         THEN pc' = "failed" /\ UNCHANGED state ELSE pc' = "done" /\ state' = "end"
  BY DEF EndOfBody, Goes
<1>3. /\ response' = response /\ stream' = stream /\ payload' = payload
      /\ N' = N /\ HL' = HL /\ InChunks' = InChunks /\ FourDigits' = FourDigits
  BY <1>2, SameResponse DEF wireVars
<1>4. /\ response.framing # "no_space" /\ (InChunks => transfer_encoding = "chunked")
      /\ (response.framing = "length" => content_length = Len(payload))
  BY <1>1 DEF Fields, FieldDue, Settled
<1>5. ASSUME InChunks PROVE pc' = "done" /\ state' = "end" /\ delivered = payload
  <2>1. transfer_encoding = "chunked" /\ chunk_size = 0 /\ delivered = payload
    BY <1>1, <1>4, <1>5 DEF Complete, AtCheck
  <2>2. pc' = "done" /\ state' = "end"
    BY <1>2, <2>1
  <2>3. QED
    BY <2>1, <2>2
<1>6. ASSUME ~InChunks PROVE pc' = "done" /\ state' = "end" /\ delivered = payload
  <2>1. transfer_encoding = "none"
    BY <1>1, <1>6 DEF Fields, Settled
  <2>2. content_length > 0 /\ content_length <= body_len /\ content_length \in Nat
    BY <1>1, <2>1 DEF Complete, TypeInv
  <2>3. response.framing = "length"
    BY <1>1, <1>6, <2>2 DEF Fields, Settled
  <2>4. PlainAt(pos)
    BY <1>1, <1>6 DEF AtCheck
  <2> DEFINE L == Len(payload)
  <2>5. /\ L \in Nat /\ HL \in Nat /\ Len(stream) = HL + L /\ pos \in 0 .. Len(stream)
        /\ content_length = L /\ body_len = pos - HL /\ delivered = First(pos - HL)
    <3>1. L \in Nat /\ HL \in Nat /\ Len(stream) = HL + L
      BY <1>1, <1>6, ResponseFacts, PlainLayout
    <3>2. pos \in 0 .. Len(stream)
      BY <1>1 DEF TypeInv
    <3>3. content_length = L
      BY <1>4, <2>3
    <3>4. body_len = pos - HL /\ delivered = First(pos - HL)
      BY <2>4 DEF PlainAt
    <3>5. QED
      BY <3>1, <3>2, <3>3, <3>4
  <2>6. payload = First(L)
    BY <1>1, ResponseFacts DEF First
  <2> HIDE DEF L
  <2>7. body_len = content_length /\ pos - HL = L
    BY <2>2, <2>5
  <2>8. delivered = payload
    BY <2>5, <2>6, <2>7
  <2>9. pc' = "done" /\ state' = "end"
    BY <1>2, <2>7
  <2>10. QED
    BY <2>8, <2>9
<1>7. pc' = "done" /\ state' = "end" /\ delivered = payload
  BY <1>5, <1>6
<1>8. Window'
  BY <1>7 DEF Window
<1>9. Wire'
  BY <1>1, <1>2, <1>3, <1>7 DEF Wire, Cut, First, wireVars, remainVars, loopVars
<1>10. Fields'
  BY <1>1, <1>2, <1>3, <1>7 DEF Fields, FieldDue, Settled, Base, readVars, wireVars, respVars, chunkVars, loopVars
<1>11. QED
  BY <1>7, <1>8, <1>9, <1>10, Elsewhere DEF IInv

(* The next bytes of a body that is not in chunks. *)
LEMMA PlainDelivers ==
  ASSUME TypeInv, ~InChunks, NEW i \in Nat, NEW n \in Nat, Loaded(i, n), n <= pos,
         i + n <= Capacity, HL <= pos - n, delivered = First(pos - n - HL)
  PROVE  delivered \o BytesAt(i, n) = First(pos - HL) /\ pos - HL \in 0 .. Len(payload)
<1> DEFINE a == pos - n - HL
           L == Len(payload)
           t == BytesAt(i, n)
<1>1. HL \in Nat /\ L \in Nat /\ pos \in 0 .. HL + L
  <2>1. HL \in Nat /\ L \in Nat /\ Len(stream) = HL + L
    BY ResponseFacts, PlainLayout
  <2>2. pos \in 0 .. Len(stream)
    BY DEF TypeInv
  <2>3. QED
    BY <2>1, <2>2
<1>2. \A j \in 1 .. L : stream[HL + j] = payload[j]
  BY PlainLayout
<1>3. t = [j \in 1 .. n |-> stream[pos - n + j]]
  BY LoadedBytes
<1> HIDE DEF L, t
<1>4. t = [j \in 1 .. n |-> payload[a + j]]
  <2> SUFFICES ASSUME NEW j \in 1 .. n PROVE stream[pos - n + j] = payload[a + j]
    BY <1>3
  <2>1. a + j \in 1 .. L /\ HL + (a + j) = pos - n + j
    BY <1>1
  <2>2. QED
    BY <1>2, <2>1
<1>5. a \in Nat /\ a + n <= L /\ a + n = pos - HL /\ pos - HL \in 0 .. L
  BY <1>1
<1> HIDE DEF a
<1>6. First(a) \o t = First(a + n)
  BY <1>4, <1>5, ResponseFacts, PrefixGrows DEF First, L
<1>7. QED
  BY <1>5, <1>6 DEF a, t, L

(* A piece of a body that is not in chunks. *)
LEMMA PlainBodyKeeps ==
  ASSUME IInv, TypeInv', PlainBody
  PROVE  IInv'
<1>1. /\ pc = "body" /\ TypeInv /\ Wire /\ Fields /\ AtBody /\ state = "body"
      /\ transfer_encoding # "chunked"
  BY DEF PlainBody, IInv, AtBody
<1>2. transfer_encoding = "none" /\ ~InChunks
  BY <1>1 DEF Fields, FieldDue, Settled, TypeInv
<1>3. /\ UNCHANGED <<wireVars, state, remainVars, chunkVars, respVars, readVars>>
      /\ UNCHANGED <<forced_continue, prev, decoderVars>>
      /\ delivered' = delivered \o BytesAt(0, read_len) /\ body_len' = body_len + read_len
      /\ pc' = "check"
  BY <1>2 DEF PlainBody, Deliver, Goes
<1>4. /\ response' = response /\ stream' = stream /\ payload' = payload
      /\ N' = N /\ HL' = HL /\ InChunks' = InChunks /\ FourDigits' = FourDigits
  BY <1>3, SameResponse DEF wireVars
<1>5. pos \in Nat /\ read_len \in 0 .. Capacity /\ Capacity \in Nat /\ body_len \in Nat /\ HL \in Nat
      /\ remain_index \in Nat
  BY <1>1, NumbersAre
<1>6. /\ remain_len = 0 /\ Loaded(0, read_len) /\ read_len <= pos
      /\ PlainAt(pos - read_len)
  BY <1>1, <1>2 DEF AtBody
<1>7. /\ HL <= pos - read_len /\ delivered = First(pos - read_len - HL)
      /\ body_len = pos - read_len - HL
  BY <1>6 DEF PlainAt
<1>8. delivered' = First(pos - HL) /\ pos - HL \in 0 .. Len(payload)
  <2>1. 0 \in Nat /\ read_len \in Nat /\ 0 + read_len <= Capacity
    BY <1>5
  <2>2. QED
    BY <1>1, <1>2, <1>3, <1>6, <1>7, <2>1, PlainDelivers
<1>9. body_len' = pos - HL /\ HL <= pos
  BY <1>3, <1>5, <1>7
<1>10. delivered' \in Seq(Bytes) /\ Len(delivered') = pos - HL
  BY <1>1, <1>8, PrefixIs DEF Bytes
<1>11. Window'
  BY <1>3 DEF Window
<1>12. Wire'
  <2>1. First(pos - HL)' = First(pos - HL)
    BY <1>3, <1>4 DEF First, wireVars
  <2>2. (delivered = First(Len(delivered)))' /\ (Len(delivered) <= Len(payload))'
    BY <1>4, <1>8, <1>10 DEF First
  <2>3. QED
    BY <1>1, <1>2, <1>3, <1>4, <1>6, <2>2 DEF Wire, Cut, wireVars, remainVars
<1>13. Fields'
  BY <1>1, <1>2, <1>3, <1>4 DEF Fields, FieldDue, Settled, Base, readVars, wireVars, respVars, chunkVars
<1>14. AtCheck'
  <2>1. PlainAt(pos)'
    BY <1>3, <1>4, <1>8, <1>9 DEF PlainAt, First, wireVars
  <2>2. QED
    BY <1>1, <1>2, <1>3, <1>4, <2>1 DEF AtCheck
<1>15. QED
  BY <1>3, <1>11, <1>12, <1>13, <1>14, Elsewhere DEF IInv

(* What has been read with the end of the header is the start of the body. *)
LEMMA HeaderEndKeeps ==
  ASSUME IInv, TypeInv', HeaderEnd, ~misread'
  PROVE  IInv'
<1>1. /\ pc = "header_end" /\ TypeInv /\ Wire /\ Fields /\ AtHeaderEnd /\ state = "body"
      /\ Fresh /\ pos >= HL /\ remain_len = pos - HL /\ remain_index + remain_len = read_len
      /\ remain_index > 0 /\ Loaded(remain_index, remain_len)
  BY DEF HeaderEnd, IInv, AtHeaderEnd
<1>2. /\ InChunks => transfer_encoding = "chunked" /\ chunk_size_str = <<>>
      /\ ~InChunks => /\ transfer_encoding = "none" /\ ~forced_continue
                      /\ response.framing # "length" => content_length = 0
  <2>1. ~Inherits
    BY DEF HeaderEnd
  <2>2. content_length \in Nat
    BY <1>1 DEF TypeInv
  <2>3. QED
    BY <1>1, <2>1, <2>2 DEF Fields, FieldDue, Settled, Inherits, InChunks
<1>3. /\ UNCHANGED <<wireVars, state, respVars, readVars, prev, decoderVars>>
  BY DEF HeaderEnd
<1>4. /\ response' = response /\ stream' = stream /\ payload' = payload
      /\ N' = N /\ HL' = HL /\ InChunks' = InChunks /\ FourDigits' = FourDigits
  BY <1>3, SameResponse DEF wireVars
<1>5. /\ pos \in Nat /\ read_len \in 0 .. Capacity /\ Capacity \in Nat /\ HL \in Nat /\ N \in Nat
      /\ remain_index \in Nat /\ remain_len \in Nat
      /\ delivered = <<>> /\ body_len = 0
  BY <1>1, NumbersAre DEF Fresh
<1>6. <<>> = First(0)
  BY <1>1, ResponseFacts DEF First
<1>7. CASE InChunks
  <2>1. /\ forced_continue' = TRUE /\ chunk_terminate_state' = 0 /\ pc' = "body"
        /\ UNCHANGED <<remainVars, body_len, delivered>>
        /\ UNCHANGED <<chunk_size, chunk_state_remain_byte, chunk_size_str>>
    BY <1>2, <1>7 DEF HeaderEnd, Goes
  <2>2. Window'
    BY <2>1 DEF Window
  <2>3. Wire'
    BY <1>1, <1>3, <1>4, <2>1 DEF Wire, Cut, First, wireVars, remainVars
  <2>4. Fields'
    BY <1>1, <1>3, <1>4, <1>7, <2>1 DEF Fields, FieldDue, Settled, Base, readVars, wireVars, respVars
  <2>5. Start(response, 1) = HL /\ Before(response, 1) = 0 /\ 1 \in 1 .. N + 1
    BY <1>1, <1>5, <1>7, Layout
  <2>6. SizeAt(1, HL, <<>>)
    <3>1. Len(<<>>) = 0 /\ <<>> \in Seq(Sent)
      OBVIOUS
    <3>2. HL = Start(response, 1) + Len(<<>>)
      BY <1>5, <2>5, <3>1
    <3>3. QED
      BY <1>5, <1>6, <2>5, <3>1, <3>2 DEF SizeAt
  <2>7. DecoderAt(HL)'
    <3>1. SizeAt(1, HL, chunk_size_str)'
      BY <1>2, <1>4, <1>7, <2>1, <2>6 DEF SizeAt, First
    <3>2. QED
      BY <1>4, <2>1, <2>5, <3>1 DEF DecoderAt
  <2>8. AtBody'
    <3>1. /\ remain_len' = remain_len /\ remain_index' = remain_index
          /\ pos' = pos /\ read_len' = read_len /\ state' = "body"
      BY <1>1, <1>3, <2>1 DEF remainVars, wireVars, readVars
    <3>2. CASE remain_len = 0
      <4>1. read_len > 0
        BY <1>1, <1>5, <3>2
      <4>2. QED
        BY <1>1, <1>4, <1>7, <3>1, <3>2, <4>1 DEF AtBody
    <3>3. CASE remain_len # 0
      <4>1. Unread' = remain_len
        BY <3>1, <3>3 DEF Unread
      <4>2. (pos - Unread)' = HL'
        BY <1>1, <1>4, <1>5, <3>1, <4>1
      <4>3. DecoderAt(pos - Unread)'
        BY <2>7, <4>2
      <4>4. Loaded(remain_index, Unread)'
        BY <1>1, <1>3, <1>4, <3>1, <4>1 DEF Loaded, readVars
      <4>5. (read_len > 0)' /\ (Unread <= pos)' /\ (remain_index + Unread = read_len)'
        BY <1>1, <1>5, <3>1, <3>3, <4>1
      <4>6. (read_len = 0 => chunk_size > 0)'
        BY <1>5, <3>1, <4>5
      <4>7. QED
        BY <1>4, <1>7, <3>1, <4>3, <4>4, <4>5, <4>6 DEF AtBody
    <3>4. QED
      BY <3>2, <3>3
  <2>9. QED
    BY <2>1, <2>2, <2>3, <2>4, <2>8, Elsewhere DEF IInv
<1>8. CASE ~InChunks
  <2>1. transfer_encoding = "none"
    BY <1>2, <1>8
  <2>2. /\ delivered' = delivered \o BytesAt(remain_index, remain_len)
        /\ body_len' = body_len + remain_len
        /\ remain_len' = 0 /\ pc' = "check"
        /\ UNCHANGED <<chunkVars, forced_continue>>
    BY <2>1 DEF HeaderEnd, Goes, Deliver
  <2>3. delivered' = First(pos - HL) /\ pos - HL \in 0 .. Len(payload)
    <3>1. pos - remain_len - HL = 0 /\ HL <= pos - remain_len /\ remain_len <= pos
          /\ remain_index + remain_len <= Capacity
      BY <1>1, <1>5
    <3>2. QED
      BY <1>1, <1>5, <1>6, <1>8, <2>2, <3>1, PlainDelivers
  <2>4. body_len' = pos - HL /\ HL <= pos
    BY <1>1, <1>5, <2>2
  <2>5. delivered' \in Seq(Bytes) /\ Len(delivered') = pos - HL
    BY <1>1, <2>3, PrefixIs DEF Bytes
  <2>6. Window'
    BY <2>2 DEF Window
  <2>7. Wire'
    <3>1. (delivered = First(Len(delivered)))' /\ (Len(delivered) <= Len(payload))'
      BY <1>4, <2>3, <2>5 DEF First
    <3>2. QED
      BY <1>1, <1>3, <1>4, <1>8, <2>2, <3>1 DEF Wire, Cut, wireVars
  <2>8. Fields'
    BY <1>1, <1>2, <1>3, <1>4, <1>8, <2>2 DEF Fields, FieldDue, Settled, Base, readVars, wireVars, respVars, chunkVars
  <2>9. AtCheck'
    <3>1. PlainAt(pos)'
      BY <1>3, <1>4, <2>3, <2>4 DEF PlainAt, First, wireVars
    <3>2. QED
      BY <1>1, <1>3, <1>4, <1>8, <3>1 DEF AtCheck
  <2>10. QED
    BY <2>2, <2>6, <2>7, <2>8, <2>9, Elsewhere DEF IInv
<1>9. QED
  BY <1>7, <1>8

--------------------------------------------------------------------------------
(* The steps of the parser.                                                     *)

(* The lines of the header, as the parser finds them in the buffer. *)
LEMMA Lines ==
  ASSUME IInv, pc = "parse"
  PROVE  /\ Base \in Nat /\ read_len \in Nat /\ prev \in Nat /\ pos = Base + read_len
         /\ state = "first_line" => Base = 0 /\ prev = 0
         /\ state = "first_line" /\ pos >= 4 =>
              LineEnds # {} /\ Min(LineEnds) = 2 /\ Line = <<"HTTP", "200">>
         /\ state = "first_line" /\ pos < 4 => LineEnds = {}
         /\ state = "header_line" /\ Base + prev = 4 /\ pos >= HL - 2 =>
              /\ LineEnds # {} /\ Min(LineEnds) = HL - 4 - Base /\ Line = Field(response)
         /\ state = "header_line" /\ Base + prev = 4 /\ pos < HL - 2 => LineEnds = {}
         /\ state = "header_line" /\ Base + prev = HL - 2 /\ pos >= HL =>
              LineEnds # {} /\ Min(LineEnds) = prev
         /\ state = "header_line" /\ Base + prev = HL - 2 /\ pos < HL => LineEnds = {}
<1>1. /\ TypeInv /\ read_len <= pos /\ Loaded(0, read_len)
      /\ \/ state = "first_line" /\ Base = 0 /\ prev = 0
         \/ state = "header_line" /\ Base \in {0, 4} /\ Base + prev = 4
         \/ state = "header_line" /\ Base \in {0, 4, HL - 2} /\ Base + prev = HL - 2
  BY DEF IInv, AtParse
<1>2. /\ read_len \in Nat /\ prev \in Nat /\ pos \in Nat /\ HL \in 10 .. 11
      /\ \A j \in 1 .. HL : stream[j] = Header(response)[j]
      /\ IsResponse(response)
  BY <1>1, ResponseFacts, ResponseAssumption DEF TypeInv
<1> DEFINE b == Base
           F == Field(response)
           H == Header(response)
<1>3. b \in Nat /\ pos = b + read_len
  BY <1>1, <1>2 DEF Base
<1>4. \A p \in 0 .. read_len - 1 : buffer[p] = stream[b + p + 1]
  <2> SUFFICES ASSUME NEW p \in 0 .. read_len - 1 PROVE buffer[p] = stream[b + p + 1]
    OBVIOUS
  <2>1. buffer[0 + p] = stream[pos - read_len + p + 1]
    BY <1>1 DEF Loaded
  <2>2. 0 + p = p
    OBVIOUS
  <2>3. QED
    BY <2>1, <2>2 DEF Base
<1>5. /\ F \in Seq(Sent) /\ Len(F) = HL - 8
      /\ \A j \in 1 .. Len(F) : F[j] # "CR"
      /\ H[1] = "HTTP" /\ H[2] = "200" /\ H[3] = "CR" /\ H[4] = "LF"
      /\ \A j \in 1 .. Len(F) : H[4 + j] = F[j]
      /\ H[Len(F) + 5] = "CR" /\ H[Len(F) + 6] = "LF"
      /\ H[Len(F) + 7] = "CR" /\ H[Len(F) + 8] = "LF"
  <2>1. HL = Len(F) + 8 /\ Len(F) \in Nat
    BY <1>2, HeaderIs, FieldIs DEF HL
  <2>2. Len(F) = HL - 8
    BY <1>2, <2>1
  <2>3. QED
    BY <1>2, <2>2, HeaderIs, FieldIs
<1> HIDE DEF b, F, H
<1>6. /\ stream[1] = "HTTP" /\ stream[2] = "200" /\ stream[3] = "CR" /\ stream[4] = "LF"
      /\ \A j \in 1 .. HL - 8 : stream[4 + j] = F[j] /\ F[j] # "CR"
      /\ stream[HL - 3] = "CR" /\ stream[HL - 2] = "LF"
      /\ stream[HL - 1] = "CR" /\ stream[HL] = "LF"
  <2>1. \A j \in 1 .. HL : stream[j] = H[j]
    BY <1>2 DEF H
  <2> DEFINE l == Len(F)
  <2>2. l = HL - 8 /\ l + 5 = HL - 3 /\ l + 6 = HL - 2 /\ l + 7 = HL - 1 /\ l + 8 = HL
    BY <1>2, <1>5
  <2>3. /\ H[HL - 3] = "CR" /\ H[HL - 2] = "LF" /\ H[HL - 1] = "CR" /\ H[HL] = "LF"
        /\ \A j \in 1 .. HL - 8 : H[4 + j] = F[j] /\ F[j] # "CR"
    BY <1>5, <2>2
  <2>4. \A j \in 1 .. HL - 8 : stream[4 + j] = H[4 + j]
    <3> SUFFICES ASSUME NEW j \in 1 .. HL - 8 PROVE stream[4 + j] = H[4 + j]
      OBVIOUS
    <3>1. 4 + j \in 1 .. HL
      BY <1>2
    <3>2. QED
      BY <2>1, <3>1
  <2>5. stream[HL - 3] = H[HL - 3] /\ stream[HL - 2] = H[HL - 2] /\ stream[HL - 1] = H[HL - 1]
        /\ stream[HL] = H[HL]
    BY <1>2, <2>1
  <2>6. stream[1] = H[1] /\ stream[2] = H[2] /\ stream[3] = H[3] /\ stream[4] = H[4]
    BY <1>2, <2>1
  <2>7. QED
    BY <1>5, <2>3, <2>4, <2>5, <2>6
<1>7. LineEnds \in SUBSET Nat
  BY <1>2 DEF LineEnds
<1>8. ASSUME NEW p \in prev .. read_len - 2
      PROVE  p \in LineEnds <=> stream[b + p + 1] = "CR" /\ stream[b + p + 2] = "LF"
  <2>1. p \in 0 .. read_len - 1 /\ p + 1 \in 0 .. read_len - 1 /\ b + (p + 1) + 1 = b + p + 2
    BY <1>2, <1>3
  <2>2. buffer[p] = stream[b + p + 1] /\ buffer[p + 1] = stream[b + p + 2]
    BY <1>4, <2>1
  <2>3. QED
    BY <2>2 DEF LineEnds
<1>9. LineEnds \subseteq prev .. read_len - 2
  BY DEF LineEnds
<1>10. ASSUME NEW m \in prev .. read_len - 2, stream[b + m + 1] = "CR", stream[b + m + 2] = "LF",
              \A p \in prev .. m - 1 : stream[b + p + 1] # "CR"
       PROVE  LineEnds # {} /\ Min(LineEnds) = m
  <2>1. m \in LineEnds
    BY <1>8, <1>10
  <2>2. ASSUME NEW p \in LineEnds PROVE m <= p
    <3>1. p \in prev .. read_len - 2 /\ p \in Nat /\ m \in Nat
      BY <1>2, <1>9
    <3>2. stream[b + p + 1] = "CR"
      BY <1>8, <3>1
    <3>3. QED
      BY <1>2, <1>10, <3>1, <3>2
  <2>3. QED
    BY <1>7, <2>1, <2>2, MinIs
<1>11. ASSUME state = "first_line", pos >= 4
       PROVE  LineEnds # {} /\ Min(LineEnds) = 2 /\ Line = <<"HTTP", "200">>
  <2>1. b = 0 /\ prev = 0 /\ read_len >= 4
    BY <1>1, <1>2, <1>3, <1>11 DEF b
  <2>2. LineEnds # {} /\ Min(LineEnds) = 2
    <3>1. 2 \in prev .. read_len - 2 /\ b + 2 + 1 = 3 /\ b + 2 + 2 = 4
      BY <1>2, <2>1
    <3>2. \A p \in prev .. 2 - 1 : stream[b + p + 1] # "CR"
      <4> SUFFICES ASSUME NEW p \in prev .. 2 - 1 PROVE stream[b + p + 1] # "CR"
        OBVIOUS
      <4>1. (p = 0 \/ p = 1) /\ 0 + 0 + 1 = 1 /\ 0 + 1 + 1 = 2
        BY <2>1
      <4>2. QED
        BY <1>6, <2>1, <4>1
    <3>3. QED
      BY <1>6, <1>10, <3>1, <3>2
  <2>3. Line = <<"HTTP", "200">>
    <3>1. Line = [j \in 1 .. 2 |-> buffer[j - 1]]
      <4>1. Min(LineEnds) - prev = 2 /\ \A j \in 1 .. 2 : prev + j - 1 = j - 1
        BY <2>1, <2>2
      <4>2. QED
        BY <4>1 DEF Line
    <3>2. buffer[0] = "HTTP" /\ buffer[1] = "200"
      BY <1>4, <1>6, <2>1, <1>2
    <3>3. QED
      BY <3>1, <3>2
  <2>4. QED
    BY <2>1, <2>2, <2>3
<1>12. ASSUME state = "header_line", b + prev = 4, pos >= HL - 2
       PROVE  LineEnds # {} /\ Min(LineEnds) = HL - 4 - b /\ Line = F
  <2> DEFINE m == HL - 4 - b
  <2>1. b \in 0 .. 4
    BY <1>2, <1>3, <1>12
  <2>2. m \in prev .. read_len - 2 /\ b + m + 1 = HL - 3 /\ b + m + 2 = HL - 2
    BY <1>2, <1>3, <1>12, <2>1
  <2>3. \A p \in prev .. m - 1 : stream[b + p + 1] # "CR"
    <3> SUFFICES ASSUME NEW p \in prev .. m - 1 PROVE stream[b + p + 1] # "CR"
      OBVIOUS
    <3>1. b + p - 3 \in 1 .. HL - 8 /\ 4 + (b + p - 3) = b + p + 1
      BY <1>2, <1>12, <2>1
    <3>2. QED
      BY <1>6, <3>1
  <2>4. LineEnds # {} /\ Min(LineEnds) = m
    BY <1>6, <1>10, <2>2, <2>3
  <2>5. Line = F
    <3>1. m - prev = HL - 8
      BY <1>2, <1>12, <2>1
    <3>2. ASSUME NEW j \in 1 .. HL - 8 PROVE buffer[prev + j - 1] = F[j]
      <4>1. prev + j - 1 \in 0 .. read_len - 1 /\ b + (prev + j - 1) + 1 = 4 + j
        BY <1>2, <1>3, <1>12, <2>1
      <4>2. QED
        BY <1>4, <1>6, <4>1
    <3>3. Line = [j \in 1 .. HL - 8 |-> F[j]]
      BY <2>4, <3>1, <3>2 DEF Line
    <3>4. F = [j \in 1 .. Len(F) |-> F[j]]
      BY <1>5
    <3>5. QED
      BY <1>5, <3>3, <3>4
  <2>6. QED
    BY <2>4, <2>5
<1>13. ASSUME state = "header_line", b + prev = HL - 2, pos >= HL
       PROVE  LineEnds # {} /\ Min(LineEnds) = prev
  <2>1. prev \in prev .. read_len - 2 /\ b + prev + 1 = HL - 1 /\ b + prev + 2 = HL
    BY <1>2, <1>3, <1>13
  <2>2. \A p \in prev .. prev - 1 : stream[b + p + 1] # "CR"
    BY <1>2
  <2>3. QED
    BY <1>6, <1>10, <2>1, <2>2
<1>14. ASSUME state = "first_line", pos < 4
       PROVE  LineEnds = {}
  <2>1. b = 0 /\ prev = 0 /\ read_len < 4
    BY <1>1, <1>2, <1>3, <1>14 DEF b
  <2>2. ASSUME NEW p \in LineEnds PROVE FALSE
    <3>1. p \in prev .. read_len - 2 /\ (p = 0 \/ p = 1) /\ 0 + 0 + 1 = 1 /\ 0 + 1 + 1 = 2
      BY <1>2, <1>9, <2>1
    <3>2. stream[b + p + 1] = "CR"
      BY <1>8, <2>2, <3>1
    <3>3. QED
      BY <1>6, <2>1, <3>1, <3>2
  <2>3. QED
    BY <2>2
<1>15. ASSUME state = "header_line", b + prev = 4, pos < HL - 2
       PROVE  LineEnds = {}
  <2>1. ASSUME NEW p \in LineEnds PROVE FALSE
    <3>1. p \in prev .. read_len - 2
      BY <1>9
    <3>2. stream[b + p + 1] = "CR"
      BY <1>8, <2>1, <3>1
    <3>3. b + p - 3 \in 1 .. HL - 8 /\ 4 + (b + p - 3) = b + p + 1
      BY <1>2, <1>3, <1>15, <3>1
    <3>4. QED
      BY <1>6, <3>2, <3>3
  <2>2. QED
    BY <2>1
<1>16. ASSUME state = "header_line", b + prev = HL - 2, pos < HL
       PROVE  LineEnds = {}
  <2>1. prev .. read_len - 2 = {}
    BY <1>2, <1>3, <1>16
  <2>2. QED
    BY <1>9, <2>1
<1>17. QED
  BY <1>1, <1>2, <1>3, <1>11, <1>12, <1>13, <1>14, <1>15, <1>16 DEF b, F

(* A sequence of one element. *)
LEMMA OneElement ==
  ASSUME NEW V, NEW s \in Seq(V), Len(s) = 1
  PROVE  s = <<s[1]>>
<1>1. s = [i \in 1 .. 1 |-> s[i]]
  OBVIOUS
<1>2. [i \in 1 .. 1 |-> s[i]] = [i \in 1 .. 1 |-> s[1]]
  OBVIOUS
<1>3. <<s[1]>> = [i \in 1 .. 1 |-> s[1]]
  OBVIOUS
<1>4. QED
  BY <1>1, <1>2, <1>3

(* A field with a separator: what is before it, and what is behind. *)
LEMMA FieldParts ==
  ASSUME NEW f, NEW V, f \in Seq(V), Len(f) = 3, f[2] = ":", f[1] # ":"
  PROVE  /\ SelectInSeq(f, LAMBDA b : b = ":") = 2
         /\ SubSeq(f, 1, 2 - 1) = <<f[1]>> /\ SubSeq(f, 2 + 1, Len(f)) = <<f[3]>>
         /\ Contains(f, ":")
<1> DEFINE I == {i \in 1 .. Len(f) : f[i] = ":"}
<1>1. 2 \in I /\ I \in SUBSET Nat
  OBVIOUS
<1>2. \A k \in I : 2 <= k
  <2> SUFFICES ASSUME NEW k \in I PROVE 2 <= k
    OBVIOUS
  <2>1. k \in 1 .. 3 /\ f[k] = ":"
    OBVIOUS
  <2>2. k # 1
    BY <2>1
  <2>3. QED
    BY <2>1, <2>2
<1>3. Min(I) = 2
  BY <1>1, <1>2, MinIs
<1>4. SelectInSeq(f, LAMBDA b : b = ":") = 2
  BY <1>1, <1>3 DEF SelectInSeq
<1>5. SubSeq(f, 1, 2 - 1) = <<f[1]>>
  <2>1. SubSeq(f, 1, 1) \in Seq(V) /\ Len(SubSeq(f, 1, 1)) = 1 /\ SubSeq(f, 1, 1)[1] = f[1]
    OBVIOUS
  <2>2. SubSeq(f, 1, 1) = <<SubSeq(f, 1, 1)[1]>>
    BY <2>1, OneElement
  <2>3. 2 - 1 = 1
    OBVIOUS
  <2>4. QED
    BY <2>1, <2>2, <2>3, Zenon
<1>6. SubSeq(f, 2 + 1, Len(f)) = <<f[3]>>
  <2>1. SubSeq(f, 3, 3) \in Seq(V) /\ Len(SubSeq(f, 3, 3)) = 1 /\ SubSeq(f, 3, 3)[1] = f[3]
    BY SMTT(20)
  <2>2. SubSeq(f, 3, 3) = <<SubSeq(f, 3, 3)[1]>>
    BY <2>1, OneElement
  <2>3. 2 + 1 = 3 /\ Len(f) = 3
    OBVIOUS
  <2>4. QED
    BY <2>1, <2>2, <2>3, Zenon
<1>7. Contains(f, ":")
  BY DEF Contains
<1>8. QED
  BY <1>4, <1>5, <1>6, <1>7

(* What is left of an unfinished line; nothing, when a read ends with a line. *)
LEMMA KeepRestKeeps ==
  ASSUME IInv, TypeInv', KeepRest
  PROVE  IInv'
<1>1. /\ pc = "parse" /\ TypeInv /\ Wire /\ Fields /\ AtParse /\ LineEnds = {} /\ Fresh
  BY DEF KeepRest, IInv, AtParse
<1>2. /\ Base \in Nat /\ read_len \in Nat /\ prev \in Nat /\ pos = Base + read_len
      /\ HL \in 10 .. 11 /\ pos \in Nat
  BY <1>1, Lines, ResponseFacts DEF TypeInv
<1>3. /\ UNCHANGED <<wireVars, state, chunkVars, respVars, read_len, loopVars, decoderVars>>
      /\ remain_index' = prev /\ remain_len' = read_len - prev /\ prev' = 0 /\ pc' = "read"
  BY DEF KeepRest, Goes
<1>4. /\ response' = response /\ stream' = stream /\ payload' = payload
      /\ N' = N /\ HL' = HL /\ InChunks' = InChunks /\ FourDigits' = FourDigits
  BY <1>3, SameResponse DEF wireVars
<1>5. /\ state \in {"first_line", "header_line"} /\ pos < HL
      /\ read_len - prev = 0 =>
           \/ state = "first_line" /\ pos = 0
           \/ state = "header_line" /\ pos \in {4, HL - 2}
  <2>1. CASE state = "first_line"
    <3>1. Base = 0 /\ prev = 0
      BY <1>1, <2>1, Lines
    <3>2. ASSUME pos >= 4 PROVE FALSE
      BY <1>1, <2>1, <3>2, Lines
    <3>3. pos < HL /\ (read_len - prev = 0 => pos = 0)
      BY <1>2, <3>1, <3>2
    <3>4. QED
      BY <2>1, <3>3
  <2>2. CASE state = "header_line" /\ Base + prev = 4
    <3>1. ~(pos >= HL - 2)
      BY <1>1, <2>2, Lines
    <3>2. QED
      BY <1>2, <2>2, <3>1
  <2>3. CASE state = "header_line" /\ Base + prev = HL - 2
    <3>1. ~(pos >= HL)
      BY <1>1, <2>3, Lines
    <3>2. QED
      BY <1>2, <2>3, <3>1
  <2>4. QED
    BY <1>1, <2>1, <2>2, <2>3 DEF AtParse
<1>6. Wire'
  BY <1>1, <1>3, <1>4, <1>5 DEF Wire, Cut, First, wireVars, loopVars
<1>7. Fields'
  BY <1>1, <1>3, <1>4, <1>5 DEF Fields, FieldDue, Settled, wireVars, respVars, chunkVars, loopVars
<1>8. AtRead'
  BY <1>1, <1>3, <1>4, <1>5 DEF AtRead, Fresh, wireVars, loopVars
<1>9. Window'
  BY <1>3 DEF Window
<1>10. QED
  BY <1>3, <1>6, <1>7, <1>8, <1>9, Elsewhere DEF IInv

(* A line without separator stops the worker where it is. *)
LEMMA BadLineKeeps ==
  ASSUME IInv, TypeInv', BadLine
  PROVE  IInv'
<1>1. pc = "parse" /\ TypeInv /\ Wire /\ Fields /\ AtParse
  BY DEF BadLine, IInv
<1>2. /\ UNCHANGED <<wireVars, state, remainVars, chunkVars, respVars, readVars>>
      /\ UNCHANGED <<loopVars, prev, decoderVars>>
      /\ pc' = "crashed"
  BY DEF BadLine, Goes
<1>3. /\ response' = response /\ stream' = stream /\ payload' = payload
      /\ N' = N /\ HL' = HL /\ InChunks' = InChunks /\ FourDigits' = FourDigits
  BY <1>2, SameResponse DEF wireVars
<1>4. Window'
  BY <1>2 DEF Window
<1>5. Wire'
  BY <1>1, <1>2, <1>3 DEF Wire, Cut, First, wireVars, remainVars, loopVars
<1>6. state # "body"
  BY <1>1 DEF AtParse
<1>7. Fields'
  BY <1>1, <1>2, <1>3, <1>6 DEF Fields, FieldDue, Settled, wireVars, respVars, chunkVars, loopVars
<1>8. QED
  BY <1>2, <1>4, <1>5, <1>7, Elsewhere DEF IInv

(* What the parser has found, when it goes on to the next line. *)
LEMMA NextLineKeeps ==
  ASSUME IInv, TypeInv', pc = "parse", NextLine, Fields',
         \/ Base + Min(LineEnds) + 2 = 4 /\ Base = 0
         \/ Base + Min(LineEnds) + 2 = HL - 2 /\ Base \in {0, 4},
         Min(LineEnds) \in Nat
  PROVE  IInv'
<1>1. TypeInv /\ Wire /\ AtParse
  BY DEF IInv
<1>2. /\ UNCHANGED <<wireVars, remainVars, chunkVars, readVars, loopVars, decoderVars, pc>>
      /\ prev' = Min(LineEnds) + 2 /\ state' = "header_line"
  BY DEF NextLine
<1>3. /\ response' = response /\ stream' = stream /\ payload' = payload
      /\ N' = N /\ HL' = HL /\ InChunks' = InChunks /\ FourDigits' = FourDigits
  BY <1>2, SameResponse DEF wireVars
<1>4. Window'
  BY <1>2 DEF Window
<1>5. Wire'
  BY <1>1, <1>2, <1>3 DEF Wire, Cut, First, wireVars, remainVars, loopVars
<1>6. AtParse'
  <2>1. Base' = Base /\ Fresh' /\ read_len' = read_len /\ pos' = pos
    BY <1>1, <1>2 DEF Base, Fresh, wireVars, readVars, loopVars, AtParse
  <2>2. Loaded(0, read_len)'
    BY <1>1, <1>2, <1>3 DEF AtParse, Loaded, wireVars, readVars
  <2>3. Base \in Nat /\ HL \in Nat
    BY <1>1, Lines, ResponseFacts
  <2>4. \/ (state = "header_line" /\ Base \in {0, 4} /\ Base + prev = 4)'
        \/ (state = "header_line" /\ Base \in {0, 4, HL - 2} /\ Base + prev = HL - 2)'
    <3> DEFINE m == Min(LineEnds)
    <3>1. m \in Nat /\ prev' = m + 2
      BY <1>2
    <3>2. Base + m + 2 = Base + (m + 2)
      BY <2>3, <3>1
    <3>3. QED
      BY <1>2, <1>3, <2>1, <3>1, <3>2
  <2>5. QED
    BY <1>1, <2>1, <2>2, <2>4 DEF AtParse
<1>7. QED
  BY <1>2, <1>4, <1>5, <1>6, Elsewhere DEF IInv

(* The status line. *)
LEMMA FirstLineKeeps ==
  ASSUME IInv, TypeInv', FirstLine
  PROVE  IInv'
<1>1. /\ pc = "parse" /\ state = "first_line" /\ NextLine /\ UNCHANGED respVars
      /\ TypeInv /\ Fields /\ AtParse /\ LineEnds # {}
  BY DEF FirstLine, IInv
<1>2. Base = 0 /\ Min(LineEnds) = 2 /\ HL \in 10 .. 11
  <2>1. pos \in Nat
    BY <1>1 DEF TypeInv
  <2>2. ~(pos < 4)
    BY <1>1, Lines
  <2>3. pos >= 4
    BY <2>1, <2>2
  <2>4. QED
    BY <1>1, <2>3, Lines, ResponseFacts
<1>3. /\ response' = response /\ payload' = payload /\ HL' = HL /\ InChunks' = InChunks
  BY <1>1, SameResponse DEF NextLine, wireVars
<1>4. Fields'
  <2>1. /\ prev' = 4 /\ Base' = Base /\ state' = "header_line" /\ pc' = "parse"
        /\ UNCHANGED forced_continue
    BY <1>1, <1>2 DEF NextLine, Base, wireVars, readVars, loopVars
  <2>2. ~(Base' + prev' = HL' - 2)
    BY <1>2, <1>3, <2>1
  <2>3. ~FieldDue' /\ ~Settled'
    BY <2>1, <2>2 DEF FieldDue, Settled
  <2>4. ~forced_continue'
    BY <1>1, <2>1 DEF Fields
  <2>5. QED
    BY <2>3, <2>4 DEF Fields
<1>5. Min(LineEnds) \in Nat
  BY <1>2
<1>6. Base + Min(LineEnds) + 2 = 4 /\ Base = 0
  BY <1>2
<1>7. pc = "parse" /\ NextLine
  BY <1>1
<1>8. QED
  BY <1>4, <1>5, <1>6, <1>7, NextLineKeeps

(* The field that says how the body is framed. *)
LEMMA HeaderLineKeeps ==
  ASSUME IInv, TypeInv', HeaderLine
  PROVE  IInv'
<1> DEFINE f == Field(response)
<1>1. /\ pc = "parse" /\ state = "header_line" /\ NextLine /\ TypeInv /\ Fields /\ AtParse
      /\ LineEnds # {} /\ ~Blank /\ Contains(Line, ":")
  BY DEF HeaderLine, IInv
<1>2. /\ Base \in Nat /\ read_len \in Nat /\ prev \in Nat /\ pos = Base + read_len
      /\ HL \in Nat /\ HL \in 10 .. 11 /\ IsResponse(response)
  BY <1>1, Lines, ResponseFacts
<1>3. Base + prev = 4 /\ pos >= HL - 2 /\ Base \in {0, 4}
  <2>1. ASSUME Base + prev = HL - 2 PROVE FALSE
    <3>1. Min(LineEnds) = prev
      <4>1. ~(pos < HL) /\ pos \in Nat
        BY <1>1, <2>1, Lines DEF TypeInv
      <4>2. pos >= HL
        BY <1>2, <4>1
      <4>3. QED
        BY <1>1, <2>1, <4>2, Lines
    <3>2. prev = 0
      BY <1>1, <1>2, <3>1 DEF Blank
    <3>3. Line = [j \in 1 .. 0 |-> buffer[prev + j - 1]]
      <4>1. Min(LineEnds) - prev = 0
        BY <1>2, <3>1
      <4>2. QED
        BY <4>1 DEF Line
    <3>4. Len(Line) = 0
      BY <3>3
    <3>5. QED
      BY <1>1, <3>4 DEF Contains
  <2>2. Base + prev = 4 /\ Base \in 0 .. 4
    BY <1>1, <1>2, <2>1 DEF AtParse
  <2>3. ~(pos < HL - 2) /\ pos \in Nat
    BY <1>1, <2>2, Lines DEF TypeInv
  <2>4. Base \in {0, 4}
    BY <1>1, <1>2, <2>1 DEF AtParse
  <2>5. QED
    BY <1>2, <2>2, <2>3, <2>4
<1>4. Min(LineEnds) = HL - 4 - Base /\ Line = f
  BY <1>1, <1>3, Lines
<1>5. /\ response' = response /\ payload' = payload /\ HL' = HL /\ InChunks' = InChunks /\ FourDigits' = FourDigits
  BY <1>1, SameResponse DEF NextLine, wireVars
<1>6. UNCHANGED <<session, nth, chunk_size_str, forced_continue>>
  BY <1>1 DEF NextLine, wireVars, chunkVars, loopVars
<1>7. response.framing \in {"chunked", "length", "close"}
  <2>1. response.framing \in {"chunked", "length", "close", "no_space"}
    BY <1>2 DEF IsResponse, Framings
  <2>2. ASSUME response.framing = "no_space" PROVE FALSE
    <3>1. f = <<"date", "1">>
      BY <1>2, <2>2, FieldIs
    <3>2. Contains(<<"date", "1">>, ":")
      BY <1>1, <1>4, <3>1
    <3>3. PICK i \in 1 .. 2 : <<"date", "1">>[i] = ":"
      BY <3>2 DEF Contains
    <3>4. QED
      BY <3>3
  <2>3. QED
    BY <2>1, <2>2
<1>8. /\ f \in Seq(Sent) /\ Len(f) = 3 /\ f[2] = ":" /\ f[1] # ":"
      /\ response.framing = "chunked" => f[1] = "te" /\ f[3] = "chunked"
      /\ response.framing = "length" => f[1] = "len" /\ f[3] = Hex[Len(payload) + 1]
      /\ response.framing = "close" => f[1] = "date"
  <2>1. f \in Seq(Sent) /\ Len(f) = 3
    BY <1>2, <1>7, FieldIs
  <2>2. CASE response.framing = "chunked"
    BY <1>2, <2>1, <2>2, FieldIs
  <2>3. CASE response.framing = "length"
    <3> DEFINE d == Hex[Len(payload) + 1]
    <3>1. f = <<"len", ":", d>>
      BY <1>2, <2>3, FieldIs DEF payload
    <3> HIDE DEF d
    <3>2. f[1] = "len" /\ f[2] = ":" /\ f[3] = d
      BY <3>1
    <3>3. QED
      BY <2>1, <2>3, <3>2 DEF d
  <2>4. CASE response.framing = "close"
    BY <1>2, <2>1, <2>4, FieldIs
  <2>5. QED
    BY <1>7, <2>2, <2>3, <2>4
<1>9. HeaderName = <<f[1]>> /\ HeaderData = <<f[3]>>
  BY <1>4, <1>8, FieldParts DEF HeaderName, HeaderData
<1>10. /\ transfer_encoding' =
            IF <<f[1]>> # <<"te">> THEN transfer_encoding
            ELSE IF <<f[3]>> = <<"chunked">> THEN "chunked" ELSE "not_supported"
       /\ content_length' =
            IF <<f[1]>> = <<"len">> /\ <<f[3]>> # <<>> /\ <<f[3]>>[1] \in Digits
            THEN HexValue(<<f[3]>>[1]) ELSE content_length
  BY <1>9 DEF HeaderLine
<1> HIDE DEF f
<1>11. /\ transfer_encoding' = IF f[1] # "te" THEN transfer_encoding
                               ELSE IF f[3] = "chunked" THEN "chunked" ELSE "not_supported"
       /\ content_length' = IF f[1] = "len" /\ f[3] \in Digits THEN HexValue(f[3]) ELSE content_length
  <2>1. \A x, y : <<x>> = <<y>> <=> x = y
    OBVIOUS
  <2>2. \A x : <<x>>[1] = x /\ <<x>> # <<>>
    OBVIOUS
  <2>3. QED
    BY <1>10, <2>1, <2>2
<1>13. /\ transfer_encoding' = IF InChunks THEN "chunked" ELSE transfer_encoding
       /\ content_length' = IF response.framing = "length" THEN Len(payload) ELSE content_length
  <2>1. CASE response.framing = "chunked"
    BY <1>8, <1>11, <2>1 DEF InChunks
  <2>2. CASE response.framing = "length"
    <3> DEFINE L == Len(payload)
    <3>6. L \in Nat /\ L <= 9
      BY <1>1, <1>2, <2>2, ResponseFacts DEF IsResponse, payload
    <3> HIDE DEF L
    <3>1. L \in 0 .. 9
      BY <3>6
    <3>2. Hex[L + 1] \in Digits /\ HexValue(Hex[L + 1]) = L
      <4>1. L + 1 \in 1 .. 10
        BY <3>1
      <4>2. QED
        BY <3>1, <4>1, HexDigits, HexValueIs
    <3>3. f[1] = "len" /\ f[3] = Hex[L + 1]
      BY <1>8, <2>2 DEF L
    <3>4. content_length' = L /\ transfer_encoding' = transfer_encoding
      BY <1>11, <3>2, <3>3
    <3>5. QED
      BY <2>2, <3>4 DEF L, InChunks
  <2>3. CASE response.framing = "close"
    BY <1>8, <1>11, <2>3 DEF InChunks
  <2>4. QED
    BY <1>7, <2>1, <2>2, <2>3
<1>14. Fields'
  <2>1. /\ pc' = "parse" /\ state' = "header_line" /\ UNCHANGED forced_continue
    BY <1>1 DEF NextLine, loopVars
  <2>2. /\ response'.framing # "no_space"
        /\ InChunks' => transfer_encoding' = "chunked"
        /\ response'.framing = "length" => content_length' = Len(payload')
    BY <1>5, <1>7, <1>13
  <2>3. ~Settled' /\ ~forced_continue'
    BY <1>1, <2>1 DEF Fields, Settled
  <2>4. QED
    BY <2>2, <2>3 DEF Fields
<1>15. Min(LineEnds) \in Nat /\ Base + Min(LineEnds) + 2 = HL - 2
  <2>1. HL - 4 - Base \in Nat /\ Base + (HL - 4 - Base) + 2 = HL - 2
    BY <1>2, <1>3
  <2>2. QED
    BY <1>4, <2>1
<1>16. QED
  BY <1>1, <1>3, <1>14, <1>15, NextLineKeeps

(* The empty line: what has been read behind it is the start of the body. *)
LEMMA BlankLineKeeps ==
  ASSUME IInv, TypeInv', BlankLine
  PROVE  IInv'
<1>1. /\ pc = "parse" /\ TypeInv /\ Wire /\ Fields /\ AtParse /\ LineEnds # {}
      /\ prev > 0 /\ Min(LineEnds) = prev
  BY DEF BlankLine, IInv, Blank
<1>2. /\ Base \in Nat /\ read_len \in Nat /\ prev \in Nat /\ pos = Base + read_len
      /\ HL \in 10 .. 11 /\ Capacity \in Nat /\ pos \in Nat
  BY <1>1, Lines, ResponseFacts, ResponseAssumption DEF TypeInv
<1>3. state = "header_line" /\ Base + prev = HL - 2 /\ pos >= HL
  <2>1. state = "header_line"
    BY <1>1, <1>2, Lines DEF AtParse
  <2>2. ASSUME Base + prev = 4 PROVE FALSE
    <3>1. ~(pos < HL - 2)
      BY <1>1, <2>1, <2>2, Lines
    <3>2. prev = HL - 4 - Base
      BY <1>1, <1>2, <2>1, <2>2, <3>1, Lines
    <3>3. QED
      BY <1>2, <2>2, <3>2
  <2>3. Base + prev = HL - 2
    BY <1>1, <2>1, <2>2 DEF AtParse
  <2>4. ~(pos < HL)
    BY <1>1, <2>1, <2>3, Lines
  <2>5. QED
    BY <1>2, <2>1, <2>3, <2>4
<1>4. /\ UNCHANGED <<wireVars, chunkVars, respVars, readVars, loopVars, decoderVars>>
      /\ state' = "body" /\ remain_index' = prev + 2 /\ remain_len' = read_len - prev - 2
      /\ prev' = 0 /\ pc' = "header_end"
  BY DEF BlankLine, Goes
<1>5. /\ response' = response /\ stream' = stream /\ payload' = payload
      /\ N' = N /\ HL' = HL /\ InChunks' = InChunks /\ FourDigits' = FourDigits
  BY <1>4, SameResponse DEF wireVars
<1>6. /\ prev + 2 \in 0 .. read_len /\ read_len - prev - 2 \in 0 .. read_len
      /\ read_len - prev - 2 = pos - HL /\ (prev + 2) + (read_len - prev - 2) = read_len
      /\ read_len - (prev + 2) = read_len - prev - 2
  BY <1>2, <1>3
<1>7. Window'
  BY <1>4 DEF Window
<1>8. Wire'
  BY <1>1, <1>4, <1>5 DEF Wire, Cut, First, wireVars, loopVars
<1>9. Fields'
  <2>1. FieldDue
    BY <1>1, <1>3 DEF FieldDue
  <2>2. QED
    BY <1>1, <1>3, <1>4, <1>5, <2>1 DEF Fields, Settled, wireVars, respVars, chunkVars, loopVars
<1>10. AtHeaderEnd'
  <2>1. Loaded(prev + 2, read_len - prev - 2)
    <3>1. Loaded(0, read_len) /\ 0 \in Nat
      BY <1>1 DEF AtParse
    <3>2. Loaded(0 + (prev + 2), read_len - (prev + 2))
      BY <1>1, <1>2, <1>6, <3>1, LoadedRest
    <3>3. 0 + (prev + 2) = prev + 2
      BY <1>2
    <3>4. QED
      BY <1>6, <3>2, <3>3
  <2>2. Loaded(remain_index, remain_len)'
    BY <1>4, <1>5, <2>1 DEF Loaded, wireVars, readVars
  <2>3. /\ Fresh' /\ pos' = pos /\ read_len' = read_len
    BY <1>1, <1>4 DEF AtParse, Fresh, wireVars, loopVars, readVars
  <2>4. /\ remain_len' = pos' - HL' /\ remain_index' + remain_len' = read_len'
        /\ remain_index' > 0 /\ pos' >= HL'
    BY <1>2, <1>3, <1>4, <1>5, <1>6, <2>3
  <2>5. QED
    BY <1>4, <2>2, <2>3, <2>4 DEF AtHeaderEnd
<1>11. QED
  BY <1>4, <1>7, <1>8, <1>9, <1>10, Elsewhere DEF IInv

--------------------------------------------------------------------------------
(* The steps of the wire, the start and the steps that change nothing.          *)

(* What a read returns. *)
LEMMA ReadIs ==
  ASSUME TypeInv, Receive
  PROVE  \E n \in 1 .. Capacity : /\ pos + n <= Len(stream) /\ remain_len + n <= Capacity
                                 /\ Read(n)
<1> DEFINE rest == Len(stream) - pos
           room == Capacity - remain_len
           most == Min({rest, room})
<1>1. PICK n \in 1 .. most : Read(n)
  BY DEF Receive
<1>2. pos \in Nat /\ Len(stream) \in Nat /\ rest \in Int /\ remain_len \in Nat /\ room \in Int
      /\ Capacity \in Nat /\ rest \in Nat /\ room \in Nat
  <2>1. Len(stream) \in Nat /\ pos \in 0 .. Len(stream) /\ remain_len \in 0 .. Capacity
    BY ResponseFacts DEF TypeInv
  <2>2. QED
    BY <2>1, ResponseAssumption
<1>3. most \in {rest, room} /\ most <= rest /\ most <= room
  BY <1>2, MinIsLeast
<1> HIDE DEF most
<1>4. n \in 1 .. Capacity /\ pos + n <= Len(stream) /\ remain_len + n <= Capacity
  BY <1>2, <1>3
<1>5. QED
  BY <1>1, <1>4

(* A read that does not go on behind a part of a line. *)
LEMMA ReceiveKeeps ==
  ASSUME IInv, TypeInv', Receive, ~misread'
  PROVE  IInv'
<1>1. /\ pc = "read" /\ ~closed /\ TypeInv /\ Wire /\ Fields /\ AtRead
  BY DEF Receive, IInv
<1>2. PICK n \in 1 .. Capacity : pos + n <= Len(stream) /\ remain_len + n <= Capacity /\ Read(n)
  BY <1>1, ReadIs
<1>3. /\ pos \in Nat /\ Capacity \in Nat /\ HL \in 10 .. 11 /\ N \in Nat /\ Len(stream) \in Nat
      /\ remain_len \in Nat /\ n \in Nat /\ n > 0
  BY <1>1, <1>2, ResponseFacts, NumbersAre
<1>4. remain_len = 0
  <2>1. misread' = (misread \/ remain_len > 0)
    BY <1>2 DEF Read
  <2>2. ~(remain_len > 0)
    BY <2>1, Zenon
  <2>3. QED
    BY <1>3, <2>2
<1>5. /\ UNCHANGED <<session, nth, closed, state, remainVars, chunkVars, respVars>>
      /\ UNCHANGED <<loopVars, decoderVars>>
      /\ pos' = pos + n /\ read_len' = n /\ prev' = 0
      /\ pc' = IF state \in {"first_line", "header_line"} THEN "parse" ELSE "body"
      /\ buffer' = [i \in 0 .. Capacity - 1 |->
                      IF i \in remain_len .. remain_len + n - 1
                      THEN stream[pos + 1 + (i - remain_len)] ELSE buffer[i]]
  BY <1>2 DEF Read, Goes
<1>6. /\ response' = response /\ stream' = stream /\ payload' = payload
      /\ N' = N /\ HL' = HL /\ InChunks' = InChunks /\ FourDigits' = FourDigits
  BY <1>5, SameResponse
<1>7. \A i \in 0 .. n - 1 : buffer'[i] = stream[pos + 1 + i]
  <2> SUFFICES ASSUME NEW i \in 0 .. n - 1 PROVE buffer'[i] = stream[pos + 1 + i]
    OBVIOUS
  <2>1. i \in 0 .. Capacity - 1 /\ i \in remain_len .. remain_len + n - 1
    BY <1>2, <1>3, <1>4
  <2>2. pos + 1 + (i - remain_len) = pos + 1 + i
    BY <1>4
  <2>3. QED
    BY <1>5, <2>1, <2>2
<1>8. Window'
  BY <1>5 DEF Window
<1>9. Wire'
  <2>1. /\ closed' = FALSE /\ pc' # "failed" /\ state' = state
        /\ delivered' = delivered /\ (state = "body" => pc' = "body")
    BY <1>1, <1>5 DEF loopVars
  <2>2. QED
    BY <1>1, <1>6, <2>1 DEF Wire, First
<1>10. Fields'
  <2>1. FieldDue' => FieldDue
    BY <1>5 DEF FieldDue
  <2>2. Settled' => Settled
    BY <1>1, <1>5 DEF Settled
  <2>3. UNCHANGED <<state, transfer_encoding, content_length, forced_continue>>
    BY <1>5 DEF respVars, loopVars
  <2>4. pc' # "header_end" /\ pc # "header_end"
    BY <1>1, <1>5
  <2>5. QED
    BY <1>1, <1>6, <2>1, <2>2, <2>3, <2>4 DEF Fields
<1>11. Loaded(0, n)'
  <2>1. ASSUME NEW j \in 0 .. n - 1 PROVE buffer'[0 + j] = stream[(pos + n) - n + j + 1]
    <3>1. 0 + j = j /\ (pos + n) - n + j + 1 = pos + 1 + j
      BY <1>3
    <3>2. QED
      BY <1>7, <3>1
  <2>2. QED
    BY <1>5, <1>6, <2>1 DEF Loaded
<1>12. CASE state \in {"first_line", "header_line"}
  <2>1. /\ Fresh
        /\ \/ state = "first_line" /\ pos = 0
           \/ state = "header_line" /\ pos \in {4, HL - 2}
    BY <1>1, <1>4, <1>12 DEF AtRead
  <2>2. Base' = pos /\ prev' = 0 /\ state' = state /\ pc' = "parse" /\ read_len' <= pos'
    BY <1>3, <1>5, <1>12 DEF Base
  <2>3. Fresh'
    BY <1>5, <2>1 DEF Fresh, loopVars
  <2>4. Loaded(0, read_len)'
    BY <1>5, <1>11 DEF Loaded
  <2>5. \/ state' = "first_line" /\ Base' = 0 /\ prev' = 0
        \/ state' = "header_line" /\ Base' \in {0, 4} /\ Base' + prev' = 4
        \/ state' = "header_line" /\ Base' \in {0, 4, HL' - 2} /\ Base' + prev' = HL' - 2
    BY <1>3, <1>6, <2>1, <2>2
  <2>6. AtParse'
    BY <2>2, <2>3, <2>4, <2>5 DEF AtParse
  <2>7. QED
    BY <1>8, <1>9, <1>10, <2>2, <2>6, Elsewhere DEF IInv
<1>13. CASE state = "body"
  <2>1. pc' = "body" /\ state' = "body" /\ remain_len' = 0 /\ (InChunks => remain_index' = 0)
        /\ Unread' = n /\ BodyAt(pos)
    <3>1. (InChunks => remain_index = 0) /\ BodyAt(pos)
      BY <1>1, <1>13 DEF Wire, AtRead
    <3>2. QED
      BY <1>1, <1>4, <1>5, <1>13, <3>1 DEF remainVars, Unread
  <2>2. UNCHANGED <<chunk_size, chunk_terminate_state, chunk_state_remain_byte, chunk_size_str,
                    delivered, body_len>>
    BY <1>5 DEF chunkVars, loopVars
  <2>3. (pos - read_len)' = pos /\ (pos - Unread)' = pos /\ (read_len <= pos)' /\ (Unread <= pos)'
        /\ (read_len > 0)'
    BY <1>3, <1>5, <2>1
  <2>4. Loaded(0, read_len)' /\ Loaded(0, Unread)'
    BY <1>5, <1>11, <2>1 DEF Loaded
  <2>5. CASE ~InChunks
    <3>1. PlainAt(pos - read_len)'
      BY <1>6, <2>1, <2>2, <2>3, <2>5 DEF BodyAt, PlainAt, First
    <3>2. AtBody'
      BY <1>6, <2>1, <2>3, <2>4, <2>5, <3>1 DEF AtBody
    <3>3. QED
      BY <1>8, <1>9, <1>10, <2>1, <3>2, Elsewhere DEF IInv
  <2>6. CASE InChunks
    <3>1. DecoderAt(pos - Unread)'
      BY <1>6, <2>1, <2>2, <2>3, <2>6 DEF BodyAt, DecoderAt, SizeAt, MidAt, DataAt, EndAt, First
    <3>2. Loaded(remain_index, Unread)'
      BY <2>1, <2>4, <2>6 DEF Loaded
    <3>3. (remain_index + Unread = read_len)'
      BY <1>3, <1>5, <2>1, <2>6
    <3>4. ~(read_len' = 0)
      BY <1>3, <1>5
    <3>5. AtBody'
      BY <1>6, <2>1, <2>3, <2>6, <3>1, <3>2, <3>3, <3>4 DEF AtBody
    <3>6. QED
      BY <1>8, <1>9, <1>10, <2>1, <3>5, Elsewhere DEF IInv
  <2>7. QED
    BY <2>5, <2>6
<1>14. QED
  BY <1>1, <1>12, <1>13 DEF AtRead

(* A stream has a length. *)
LEMMA StreamLength == \A r : IsResponse(r) => Len(Stream(r)) \in Nat
<1> SUFFICES ASSUME NEW r, IsResponse(r) PROVE Len(Stream(r)) \in Nat
  OBVIOUS
<1>1. Stream(r) \in Seq(Sent)
  BY StreamIs
<1>2. QED
  BY <1>1

(* The server closes the connection, at the end of the body or before. *)
LEMMA ServerClosesKeeps ==
  ASSUME IInv, TypeInv', ServerCloses
  PROVE  IInv'
<1>1. /\ TypeInv /\ Wire /\ Fields /\ AtRead
      /\ pc = "read" /\ closed' = TRUE
  BY DEF IInv, ServerCloses
<1>2. UNCHANGED <<session, nth, pos, state, remain_index, remain_len, chunk_size,
                  chunk_terminate_state, chunk_state_remain_byte, chunk_size_str,
                  transfer_encoding, content_length, buffer, read_len, body_len,
                  forced_continue, prev, idx, len, entering, pc, delivered>>
  BY DEF ServerCloses, remainVars, chunkVars, respVars, readVars, loopVars, decoderVars
<1>3. /\ response' = response /\ stream' = stream /\ payload' = payload
      /\ N' = N /\ HL' = HL /\ InChunks' = InChunks /\ FourDigits' = FourDigits
  BY <1>2, SameResponse
<1>4. Window'
  BY <1>1, <1>2 DEF Window
<1>5. Wire'
  BY <1>1, <1>2, <1>3 DEF Wire, First
<1>6. Fields'
  BY <1>1, <1>2, <1>3 DEF Fields, FieldDue, Settled, Base
<1>7. AtRead'
  BY <1>1, <1>2, <1>3
     DEF AtRead, Fresh, BodyAt, PlainAt, DecoderAt, SizeAt, MidAt, DataAt, EndAt, First
<1>8. QED
  BY <1>1, <1>2, <1>4, <1>5, <1>6, <1>7, Elsewhere DEF IInv

(* The next exchange starts anew, whatever the one before has left. *)
LEMMA NextExchangeKeeps ==
  ASSUME TypeInv, TypeInv', NextExchange
  PROVE  IInv'
<1>1. /\ nth < Len(session)
      /\ nth' = nth + 1 /\ pos' = 0 /\ closed' = FALSE /\ state' = "first_line"
      /\ read_len' = 0 /\ body_len' = 0 /\ forced_continue' = FALSE
      /\ delivered' = <<>> /\ pc' = "read" /\ session' = session
  BY DEF NextExchange, Goes
<1>2. nth' \in 1 .. Len(session') /\ session' \in Sessions
  <2>1. session \in Sessions /\ nth \in 1 .. Len(session) /\ Len(session) \in Nat
    BY SessionLength DEF TypeInv
  <2>2. QED
    BY <1>1, <2>1
<1>3. payload' \in Seq(Letters) /\ HL' \in 10 .. 11
  <2>1. response' = session'[nth'] /\ HL' = Len(Header(response')) /\ payload' = Payload(response')
    BY DEF response, HL, payload
  <2>2. IsResponse(response')
    BY <1>2, <2>1, SessionResponses
  <2>3. QED
    BY <2>1, <2>2, StreamIs, PayloadType
<1>4. Window'
  BY <1>1 DEF Window
<1>5. Wire'
  <2>1. Len(delivered') = 0 /\ delivered' = SubSeq(payload', 1, 0) /\ Len(payload') \in Nat
    BY <1>1, <1>3
  <2>2. QED
    BY <1>1, <2>1 DEF Wire, First
<1>6. Fields'
  BY <1>1 DEF Fields, FieldDue, Settled
<1>7. AtRead'
  BY <1>1, <1>3 DEF AtRead, Fresh
<1>8. QED
  BY <1>1, <1>4, <1>5, <1>6, <1>7, Elsewhere DEF IInv

(* The first exchange of a slot. *)
LEMMA InitKeeps ==
  ASSUME Init
  PROVE  IInv
<1>1. /\ session \in Sessions /\ nth = 1 /\ pos = 0 /\ closed = FALSE
      /\ state = "first_line" /\ remain_index = 0 /\ remain_len = 0
      /\ chunk_size = 0 /\ chunk_terminate_state = 0
      /\ chunk_state_remain_byte = 0 /\ chunk_size_str = <<>>
      /\ transfer_encoding = "none" /\ content_length = 0
      /\ read_len = 0 /\ body_len = 0 /\ forced_continue = FALSE
      /\ prev = 0 /\ idx = 0 /\ len = 0 /\ entering = FALSE
      /\ pc = "read" /\ delivered = <<>> /\ misread = FALSE
  BY DEF Init
<1>2. /\ nth \in 1 .. Len(session) /\ Capacity \in Nat
  <2>1. Len(session) \in Nat /\ Len(session) >= 1
    BY <1>1, SessionLength
  <2>2. QED
    BY <1>1, <2>1, ResponseAssumption
<1>3. Len(stream) \in Nat /\ payload \in Seq(Letters) /\ HL \in 10 .. 11
  <2>1. response = session[nth] /\ stream = Stream(response) /\ payload = Payload(response)
        /\ HL = Len(Header(response))
    BY DEF response, stream, Stream, payload, HL
  <2>2. IsResponse(response)
    BY <1>1, <1>2, <2>1, SessionResponses
  <2>3. QED
    BY <2>1, <2>2, StreamLength, PayloadType, StreamIs
<1>4. TypeInv
  <2>1. buffer \in [0 .. Capacity - 1 -> Bytes]
    <3>1. PICK b \in {"nul", "old"} : buffer = [i \in 0 .. Capacity - 1 |-> b]
      BY DEF Init
    <3>2. b \in Bytes
      BY DEF Bytes
    <3>3. QED
      BY <3>1, <3>2
  <2>2. /\ pos \in 0 .. Len(stream) /\ read_len \in 0 .. Capacity /\ remain_index \in 0 .. Capacity
        /\ remain_len \in 0 .. Capacity /\ prev \in 0 .. Capacity /\ idx \in Nat
        /\ len \in 0 .. Capacity /\ idx + len <= 2 * Capacity
    BY <1>1, <1>2, <1>3
  <2>3. /\ chunk_size_str \in Seq(Bytes) /\ Len(chunk_size_str) <= 4 /\ delivered \in Seq(Bytes)
        /\ chunk_size \in Nat /\ chunk_terminate_state \in 0 .. 3 /\ chunk_state_remain_byte \in Nat
        /\ content_length \in Nat /\ body_len \in Nat
    BY <1>1
  <2>4. closed \in BOOLEAN /\ forced_continue \in BOOLEAN /\ entering \in BOOLEAN /\ misread \in BOOLEAN
    BY <1>1
  <2>5. /\ state \in {"first_line", "header_line", "body", "end"}
        /\ transfer_encoding \in {"none", "chunked", "not_supported"}
    BY <1>1
  <2>6. /\ pc \in {"read", "parse", "header_end", "body", "check", "done", "failed", "crashed"}
        /\ pc # "parse"
    BY <1>1
  <2>7. QED
    BY <1>1, <1>2, <2>1, <2>2, <2>3, <2>4, <2>5, <2>6 DEF TypeInv
<1>5. Wire
  <2>1. Len(delivered) = 0 /\ delivered = SubSeq(payload, 1, 0) /\ Len(payload) \in Nat
    BY <1>1, <1>3
  <2>2. QED
    BY <1>1, <2>1 DEF Wire, First
<1>6. Fields
  BY <1>1 DEF Fields, FieldDue, Settled
<1>7. AtRead /\ Window
  BY <1>1, <1>3 DEF AtRead, Fresh, Window
<1>8. AtParse /\ AtHeaderEnd /\ AtBody /\ AtSize /\ AtMid /\ AtChunk /\ AtEnd /\ AtCheck
  BY <1>1 DEF AtParse, AtHeaderEnd, AtBody, AtSize, AtMid, AtChunk, AtEnd, AtCheck
<1>9. QED
  BY <1>4, <1>5, <1>6, <1>7, <1>8 DEF IInv

(* A step of somebody else. *)
LEMMA StutterKeeps ==
  ASSUME IInv, TypeInv', UNCHANGED vars
  PROVE  IInv'
<1>1. UNCHANGED <<session, nth, pos, closed, state, remain_index, remain_len, chunk_size,
                  chunk_terminate_state, chunk_state_remain_byte, chunk_size_str,
                  transfer_encoding, content_length, buffer, read_len, body_len,
                  forced_continue, prev, idx, len, entering, pc, delivered>>
  BY DEF vars, wireVars, remainVars, chunkVars, respVars, readVars, loopVars, decoderVars
<1>2. /\ Window /\ Wire /\ Fields /\ AtRead /\ AtParse /\ AtHeaderEnd /\ AtBody
      /\ AtSize /\ AtMid /\ AtChunk /\ AtEnd /\ AtCheck
  BY DEF IInv
<1>3. /\ response' = response /\ stream' = stream /\ payload' = payload
      /\ N' = N /\ HL' = HL /\ InChunks' = InChunks /\ FourDigits' = FourDigits
  BY <1>1, SameResponse
<1>4. Window'
  BY <1>1, <1>2 DEF Window
<1>5. Wire'
  BY <1>1, <1>2, <1>3 DEF Wire, Cut, First
<1>6. Fields'
  BY <1>1, <1>2, <1>3 DEF Fields, FieldDue, Settled, Base
<1>7. AtRead' /\ AtParse' /\ AtHeaderEnd'
  <2>1. AtRead'
    BY <1>1, <1>2, <1>3
       DEF AtRead, Fresh, BodyAt, PlainAt, DecoderAt, SizeAt, MidAt, DataAt, EndAt, First
  <2>2. AtParse'
    BY <1>1, <1>2, <1>3 DEF AtParse, Fresh, Base, Loaded
  <2>3. AtHeaderEnd'
    BY <1>1, <1>2, <1>3 DEF AtHeaderEnd, Fresh, Loaded
  <2>4. QED
    BY <2>1, <2>2, <2>3
<1>8. AtBody'
  BY <1>1, <1>2, <1>3
     DEF AtBody, Unread, Loaded, PlainAt, DecoderAt, SizeAt, MidAt, DataAt, EndAt, First
<1>9. AtSize' /\ AtMid' /\ AtChunk' /\ AtEnd'
  BY <1>1, <1>2, <1>3
     DEF AtSize, AtMid, AtChunk, AtEnd, Inside, Loaded,
         Have, Due, SizeAt, MidAt, DataAt, EndAt, First
<1>10. AtCheck'
  BY <1>1, <1>2, <1>3
     DEF AtCheck, PlainAt, DecoderAt, SizeAt, MidAt, DataAt, EndAt, First
<1>11. QED
  BY <1>4, <1>5, <1>6, <1>7, <1>8, <1>9, <1>10 DEF IInv

--------------------------------------------------------------------------------
(* The types, whatever has been misread.                                        *)

WireTypes ==
  /\ session \in Sessions /\ nth \in 1 .. Len(session)
  /\ pos \in 0 .. Len(stream) /\ closed \in BOOLEAN
StateTypes == state \in {"first_line", "header_line", "body", "end"}
RemainTypes == remain_index \in 0 .. Capacity /\ remain_len \in 0 .. Capacity
ChunkTypes ==
  /\ chunk_size \in Nat /\ chunk_terminate_state \in 0 .. 3 /\ chunk_state_remain_byte \in Nat
  /\ chunk_size_str \in Seq(Bytes) /\ Len(chunk_size_str) <= 4
RespTypes == transfer_encoding \in {"none", "chunked", "not_supported"} /\ content_length \in Nat
ReadTypes == buffer \in [0 .. Capacity - 1 -> Bytes] /\ read_len \in 0 .. Capacity
LoopTypes == body_len \in Nat /\ forced_continue \in BOOLEAN /\ delivered \in Seq(Bytes)
PrevTypes == prev \in 0 .. Capacity /\ (pc = "parse" => prev <= read_len)
DecoderTypes == /\ idx \in Nat /\ len \in 0 .. Capacity /\ idx + len <= 2 * Capacity
                /\ entering \in BOOLEAN
PcTypes == pc \in {"read", "parse", "header_end", "body", "check", "done", "failed", "crashed",
                   "size", "mid", "chunk", "end"}
MisreadTypes == misread \in BOOLEAN

(* The type invariant, by the groups of variables that steps leave alone. *)
LEMMA TypesAre ==
  TypeInv <=> /\ WireTypes /\ StateTypes /\ RemainTypes /\ ChunkTypes /\ RespTypes /\ ReadTypes
              /\ LoopTypes /\ PrevTypes /\ DecoderTypes /\ PcTypes /\ MisreadTypes
<1>1. PcTypes <=> pc \in {"read", "parse", "header_end", "body", "check", "done", "failed", "crashed"}
                           \cup {Labels[l] : l \in 1 .. 4}
  BY LabelNames DEF PcTypes
<1>2. QED
  BY <1>1
     DEF TypeInv, WireTypes, StateTypes, RemainTypes, ChunkTypes, RespTypes, ReadTypes, LoopTypes,
         PrevTypes, DecoderTypes, MisreadTypes

(* The same, behind a step. *)
LEMMA TypesTogether ==
  /\ WireTypes' /\ StateTypes' /\ RemainTypes' /\ ChunkTypes' /\ RespTypes' /\ ReadTypes'
  /\ LoopTypes' /\ PrevTypes' /\ DecoderTypes' /\ PcTypes' /\ MisreadTypes'
  => TypeInv'
<1>1. PcTypes' => pc' \in {"read", "parse", "header_end", "body", "check", "done", "failed", "crashed"}
                            \cup {Labels[l] : l \in 1 .. 4}
  BY LabelNames DEF PcTypes
<1>2. QED
  BY <1>1
     DEF TypeInv, WireTypes, StateTypes, RemainTypes, ChunkTypes, RespTypes, ReadTypes, LoopTypes,
         PrevTypes, DecoderTypes, MisreadTypes

(* A group that a step leaves alone keeps its types. *)
LEMMA SameTypes ==
  ASSUME TypeInv
  PROVE  /\ UNCHANGED wireVars => WireTypes'
         /\ UNCHANGED state => StateTypes'
         /\ UNCHANGED remainVars => RemainTypes'
         /\ UNCHANGED chunkVars => ChunkTypes'
         /\ UNCHANGED respVars => RespTypes'
         /\ UNCHANGED readVars => ReadTypes'
         /\ UNCHANGED loopVars => LoopTypes'
         /\ UNCHANGED <<prev, read_len, pc>> => PrevTypes'
         /\ UNCHANGED prev /\ pc' # "parse" => PrevTypes'
         /\ prev' = 0 /\ read_len' \in Nat => PrevTypes'
         /\ UNCHANGED decoderVars => DecoderTypes'
         /\ UNCHANGED misread => MisreadTypes'
<1>1. /\ WireTypes /\ StateTypes /\ RemainTypes /\ ChunkTypes /\ RespTypes /\ ReadTypes
      /\ LoopTypes /\ PrevTypes /\ DecoderTypes /\ MisreadTypes
  BY TypesAre
<1>2. UNCHANGED wireVars => WireTypes'
  <2> SUFFICES ASSUME UNCHANGED wireVars PROVE WireTypes'
    OBVIOUS
  <2>1. UNCHANGED <<session, nth, pos, closed>>
    BY DEF wireVars
  <2>2. stream' = stream
    BY <2>1, SameResponse
  <2>3. QED
    BY <1>1, <2>1, <2>2 DEF WireTypes
<1>3. UNCHANGED state => StateTypes'
  BY <1>1 DEF StateTypes
<1>4. UNCHANGED remainVars => RemainTypes'
  BY <1>1 DEF RemainTypes, remainVars
<1>5. UNCHANGED chunkVars => ChunkTypes'
  BY <1>1 DEF ChunkTypes, chunkVars
<1>6. UNCHANGED respVars => RespTypes'
  BY <1>1 DEF RespTypes, respVars
<1>7. UNCHANGED readVars => ReadTypes'
  BY <1>1 DEF ReadTypes, readVars
<1>8. UNCHANGED loopVars => LoopTypes'
  BY <1>1 DEF LoopTypes, loopVars
<1>9. /\ UNCHANGED <<prev, read_len, pc>> => PrevTypes'
      /\ UNCHANGED prev /\ pc' # "parse" => PrevTypes'
  BY <1>1 DEF PrevTypes
<1>10. prev' = 0 /\ read_len' \in Nat => PrevTypes'
  BY ResponseAssumption DEF PrevTypes
<1>11. UNCHANGED decoderVars => DecoderTypes'
  BY <1>1 DEF DecoderTypes, decoderVars
<1>12. UNCHANGED misread => MisreadTypes'
  BY <1>1 DEF MisreadTypes
<1>13. QED
  BY <1>2, <1>3, <1>4, <1>5, <1>6, <1>7, <1>8, <1>9, <1>10, <1>11, <1>12

(* What the types say, one by one. *)
LEMMA TypesSay ==
  ASSUME TypeInv
  PROVE  /\ Capacity \in Nat /\ read_len \in 0 .. Capacity /\ read_len \in Nat
         /\ remain_index \in 0 .. Capacity /\ remain_len \in 0 .. Capacity
         /\ idx \in Nat /\ len \in 0 .. Capacity /\ len \in Nat /\ idx + len <= 2 * Capacity
         /\ chunk_size \in Nat /\ chunk_terminate_state \in 0 .. 3 /\ chunk_state_remain_byte \in Nat
         /\ chunk_size_str \in Seq(Bytes) /\ Len(chunk_size_str) \in 0 .. 4
         /\ prev \in 0 .. Capacity /\ (pc = "parse" => prev <= read_len)
         /\ body_len \in Nat /\ delivered \in Seq(Bytes)
<1>1. Capacity \in Nat
  BY ResponseAssumption
<1>2. /\ read_len \in 0 .. Capacity /\ remain_index \in 0 .. Capacity /\ remain_len \in 0 .. Capacity
      /\ idx \in Nat /\ len \in 0 .. Capacity /\ idx + len <= 2 * Capacity
  BY DEF TypeInv
<1>3. /\ chunk_size \in Nat /\ chunk_terminate_state \in 0 .. 3 /\ chunk_state_remain_byte \in Nat
      /\ prev \in 0 .. Capacity /\ (pc = "parse" => prev <= read_len) /\ body_len \in Nat
  BY DEF TypeInv
<1>4. chunk_size_str \in Seq(Bytes) /\ Len(chunk_size_str) <= 4 /\ delivered \in Seq(Bytes)
  BY DEF TypeInv
<1>5. Len(chunk_size_str) \in 0 .. 4
  <2> DEFINE n == Len(chunk_size_str)
  <2>1. n \in Nat /\ n <= 4
    BY <1>4
  <2> HIDE DEF n
  <2>2. n \in 0 .. 4
    BY <2>1
  <2>3. QED
    BY <2>2 DEF n
<1>6. QED
  BY <1>1, <1>2, <1>3, <1>4, <1>5

(* A string of C ends where it ends in its buffer, or before. *)
LEMMA CStringType ==
  ASSUME NEW s \in Seq(Bytes)
  PROVE  CString(s) \in Seq(Bytes) /\ Len(CString(s)) \in 0 .. Len(s)
<1> DEFINE T == {n \in 1 .. Len(s) : s[n] = "nul"} \cup {Len(s) + 1}
           m == Min(T)
<1>1. T \in SUBSET Nat /\ T # {} /\ T \subseteq 1 .. Len(s) + 1 /\ Len(s) \in Nat
  OBVIOUS
<1> HIDE DEF T
<1>2. m \in T
  BY <1>1, MinIsLeast
<1>3. CString(s) = SubSeq(s, 1, m - 1)
  BY DEF CString, T
<1> HIDE DEF m
<1>4. m \in 1 .. Len(s) + 1
  BY <1>1, <1>2
<1>5. m - 1 \in 0 .. Len(s)
  BY <1>1, <1>4
<1>6. SubSeq(s, 1, m - 1) \in Seq(Bytes) /\ Len(SubSeq(s, 1, m - 1)) = m - 1
  BY <1>1, <1>5
<1>7. QED
  BY <1>3, <1>5, <1>6

(* A digit has a value. *)
LEMMA DigitValue == \A b \in Digits : HexValue(b) \in Nat
<1> SUFFICES ASSUME NEW b \in Digits PROVE HexValue(b) \in Nat
  OBVIOUS
<1>1. Len(Hex) = 10
  BY DEF Hex
<1>2. PICK v \in 1 .. 10 : b = Hex[v]
  BY <1>1 DEF Digits
<1>3. v - 1 \in 0 .. 9 /\ (v - 1) + 1 = v
  OBVIOUS
<1>4. HexValue(Hex[(v - 1) + 1]) = v - 1
  BY <1>3, HexValueIs
<1>5. QED
  BY <1>2, <1>3, <1>4

(* strtol returns a number, whatever it is given. *)
LEMMA StrtolType ==
  ASSUME NEW s \in Seq(Bytes)
  PROVE  Strtol(s) \in Nat
<1> DEFINE S == {n \in 1 .. Len(s) : s[n] \notin {"CR", "LF"}} \cup {Len(s) + 1}
           start == Min(S)
           E == {n \in start .. Len(s) : s[n] \notin Digits} \cup {Len(s) + 1}
           stop == Min(E)
           d == SubSeq(s, start, stop - 1)
<1>1. Len(s) \in Nat
  OBVIOUS
<1>2. start \in 1 .. Len(s) + 1
  <2>1. S \in SUBSET Nat /\ S # {} /\ S \subseteq 1 .. Len(s) + 1
    BY <1>1
  <2> HIDE DEF S
  <2>2. QED
    BY <2>1, MinIsLeast
<1>3. Strtol(s) = Number(d)
  BY DEF Strtol
<1> HIDE DEF start
<1>4. stop \in start .. Len(s) + 1 /\ \A k \in E : stop <= k
  <2>1. E \in SUBSET Nat /\ E # {} /\ E \subseteq start .. Len(s) + 1
    BY <1>1, <1>2
  <2> HIDE DEF E
  <2>2. QED
    BY <2>1, MinIsLeast
<1> HIDE DEF stop
<1>5. /\ d \in Seq(Bytes) /\ Len(d) = stop - start
      /\ \A n \in 1 .. stop - start : d[n] = s[start + n - 1]
  BY <1>1, <1>2, <1>4
<1> HIDE DEF d
<1>6. ASSUME NEW n \in 1 .. Len(d) PROVE HexValue(d[n]) \in Nat
  <2> DEFINE k == start + n - 1
  <2>1. k \in start .. Len(s) /\ k < stop /\ k \in Nat /\ stop \in Nat
    BY <1>1, <1>2, <1>4, <1>5
  <2>2. k \notin E
    <3> HIDE DEF E, k
    <3>1. QED
      BY <1>4, <2>1
  <2>3. s[k] \in Digits
    <3> HIDE DEF k
    <3>1. QED
      BY <2>1, <2>2
  <2>4. d[n] = s[k]
    BY <1>5
  <2>5. QED
    BY <2>3, <2>4, DigitValue
<1>7. Len(d) \in Nat
  BY <1>5
<1>8. PICK f \in [0 .. Len(d) -> Nat] : Number(d) = f[Len(d)]
  BY <1>6, <1>7, NumberUnfolds
<1>9. QED
  BY <1>3, <1>7, <1>8

(* What resp_body_func has got is made of bytes. *)
LEMMA DeliverType ==
  ASSUME TypeInv, NEW i \in Nat, NEW n \in Nat, Deliver(i, n)
  PROVE  delivered' \in Seq(Bytes) /\ body_len' \in Nat
<1>1. BytesAt(i, n) \in Seq(Bytes)
  BY BytesAtType
<1>2. delivered \in Seq(Bytes) /\ body_len \in Nat
  BY TypesSay
<1>3. delivered' = delivered \o BytesAt(i, n) /\ body_len' = body_len + n
  BY DEF Deliver
<1>4. delivered \o BytesAt(i, n) \in Seq(Bytes)
  BY <1>1, <1>2, ConcatBytes
<1>5. QED
  BY <1>2, <1>3, <1>4

(* The decoder's locals when it is not called. *)
LEMMA NoneLeft ==
  ASSUME Capacity \in Nat, idx' = 0, len' = 0, entering' = FALSE
  PROVE  DecoderTypes'
<1>1. idx' \in Nat /\ len' \in 0 .. Capacity /\ idx' + len' <= 2 * Capacity
  OBVIOUS
<1>2. entering' \in BOOLEAN
  OBVIOUS
<1>3. QED
  BY <1>1, <1>2 DEF DecoderTypes

(* What the decoder takes for a size has four bytes. *)
LEMMA SizeLineType ==
  ASSUME TypeInv
  PROVE  SizeLine \in Seq(Bytes) /\ Len(SizeLine) = 4 /\ Need \in 0 .. 4 /\ Need = 4 - Len(Have)
         /\ Len(Have) \in 0 .. 4
<1>1. Have \in Seq(Bytes) /\ Len(Have) \in 0 .. 4
  <2>1. chunk_size_str \in Seq(Bytes) /\ Len(chunk_size_str) \in 0 .. 4
    BY TypesSay
  <2>2. <<>> \in Seq(Bytes) /\ Len(<<>>) \in 0 .. 4
    OBVIOUS
  <2>3. QED
    BY <2>1, <2>2 DEF Have
<1>2. Need = 4 - Len(Have)
  BY DEF Need
<1>3. Need \in 0 .. 4 /\ Need \in Nat
  <2> DEFINE h == Len(Have)
  <2>1. h \in 0 .. 4 /\ Need = 4 - h
    BY <1>1, <1>2
  <2> HIDE DEF h
  <2>2. QED
    BY <2>1
<1>4. idx \in Nat
  BY TypesSay
<1>5. BytesAt(idx, Need) \in Seq(Bytes) /\ Len(BytesAt(idx, Need)) = Need
  BY <1>3, <1>4, BytesAtType
<1>6. SizeLine \in Seq(Bytes) /\ Len(SizeLine) = Len(Have) + Need
  BY <1>1, <1>5, ConcatBytes DEF SizeLine
<1>7. Len(SizeLine) = 4
  BY <1>1, <1>2, <1>6
<1>8. QED
  BY <1>1, <1>2, <1>3, <1>6, <1>7

(* A read puts bytes of the stream into the buffer. *)
LEMMA ReceiveTypes ==
  ASSUME TypeInv, Receive
  PROVE  TypeInv'
<1>1. PICK n \in 1 .. Capacity : pos + n <= Len(stream) /\ remain_len + n <= Capacity /\ Read(n)
  BY ReadIs
<1>2. /\ UNCHANGED <<session, nth, closed, state, remainVars, chunkVars, respVars>>
      /\ UNCHANGED <<loopVars, decoderVars>>
      /\ pos' = pos + n /\ read_len' = n /\ prev' = 0
      /\ pc' = IF state \in {"first_line", "header_line"} THEN "parse" ELSE "body"
      /\ buffer' = [i \in 0 .. Capacity - 1 |->
                      IF i \in remain_len .. remain_len + n - 1
                      THEN stream[pos + 1 + (i - remain_len)] ELSE buffer[i]]
      /\ misread' = (misread \/ remain_len > 0)
  BY <1>1 DEF Read, Goes
<1>3. /\ pos \in Nat /\ Capacity \in Nat /\ remain_len \in Nat /\ n \in Nat /\ n > 0
      /\ Len(stream) \in Nat /\ stream \in Seq(Sent)
  BY <1>1, ResponseFacts, NumbersAre
<1>4. WireTypes'
  <2>1. session \in Sessions /\ nth \in 1 .. Len(session) /\ closed \in BOOLEAN
    BY DEF TypeInv
  <2>2. stream' = stream
    BY <1>2, SameResponse
  <2>3. pos' \in 0 .. Len(stream')
    BY <1>1, <1>2, <1>3, <2>2
  <2>4. QED
    BY <1>2, <2>1, <2>3 DEF WireTypes
<1>5. StateTypes' /\ RemainTypes' /\ ChunkTypes' /\ RespTypes' /\ LoopTypes' /\ DecoderTypes'
  BY <1>2, SameTypes
<1>6. ReadTypes'
  <2>1. ASSUME NEW i \in 0 .. Capacity - 1
        PROVE  (IF i \in remain_len .. remain_len + n - 1
                THEN stream[pos + 1 + (i - remain_len)] ELSE buffer[i]) \in Bytes
    <3>1. CASE i \in remain_len .. remain_len + n - 1
      <4>1. pos + 1 + (i - remain_len) \in 1 .. Len(stream)
        BY <1>1, <1>3, <3>1
      <4>2. stream[pos + 1 + (i - remain_len)] \in Sent
        BY <1>3, <4>1
      <4>3. QED
        BY <3>1, <4>2 DEF Sent, Bytes
    <3>2. CASE ~(i \in remain_len .. remain_len + n - 1)
      BY <3>2 DEF TypeInv
    <3>3. QED
      BY <3>1, <3>2
  <2>2. buffer' \in [0 .. Capacity - 1 -> Bytes]
    BY <1>2, <2>1
  <2>3. QED
    BY <1>2, <2>2 DEF ReadTypes
<1>7. PrevTypes'
  BY <1>2, <1>3, SameTypes
<1>8. PcTypes'
  BY <1>2 DEF PcTypes
<1>9. MisreadTypes'
  BY <1>2 DEF MisreadTypes
<1>10. QED
  BY <1>4, <1>5, <1>6, <1>7, <1>8, <1>9, TypesTogether

(* The server closes the connection. *)
LEMMA ServerClosesTypes ==
  ASSUME TypeInv, ServerCloses
  PROVE  TypeInv'
<1>1. /\ UNCHANGED <<session, nth, pos, state, remainVars, chunkVars, respVars, readVars>>
      /\ UNCHANGED <<loopVars, prev, decoderVars, pc, misread, read_len>>
      /\ closed' = TRUE /\ pc = "read"
  BY DEF ServerCloses, readVars
<1>2. WireTypes'
  <2>1. stream' = stream
    BY <1>1, SameResponse
  <2>2. QED
    BY <1>1, <2>1 DEF WireTypes, TypeInv
<1>3. /\ StateTypes' /\ RemainTypes' /\ ChunkTypes' /\ RespTypes' /\ ReadTypes' /\ LoopTypes'
      /\ PrevTypes' /\ DecoderTypes' /\ MisreadTypes'
  BY <1>1, SameTypes
<1>4. PcTypes'
  BY <1>1 DEF PcTypes
<1>5. QED
  BY <1>2, <1>3, <1>4, TypesTogether

(* The next exchange. *)
LEMMA NextExchangeTypes ==
  ASSUME TypeInv, NextExchange
  PROVE  TypeInv'
<1>1. /\ nth < Len(session) /\ nth' = nth + 1 /\ session' = session
      /\ pos' = 0 /\ closed' = FALSE /\ state' = "first_line"
      /\ read_len' = 0 /\ body_len' = 0 /\ forced_continue' = FALSE
      /\ delivered' = <<>> /\ misread' = FALSE /\ pc' = "read"
      /\ UNCHANGED <<remainVars, chunkVars, respVars, buffer, prev, decoderVars>>
  BY DEF NextExchange, Goes
<1>2. nth' \in 1 .. Len(session') /\ session' \in Sessions
  <2>1. session \in Sessions /\ nth \in 1 .. Len(session) /\ Len(session) \in Nat
    BY SessionLength DEF TypeInv
  <2>2. QED
    BY <1>1, <2>1
<1>3. WireTypes'
  <2>1. response' = session'[nth'] /\ stream' = Stream(response')
    BY DEF response, stream, Stream
  <2>2. IsResponse(response')
    BY <1>2, <2>1, SessionResponses
  <2>3. Len(stream') \in Nat
    BY <2>1, <2>2, StreamLength
  <2>4. pos' \in 0 .. Len(stream')
    BY <1>1, <2>3
  <2>5. QED
    BY <1>1, <1>2, <2>4 DEF WireTypes
<1>4. RemainTypes' /\ ChunkTypes' /\ RespTypes' /\ DecoderTypes' /\ PrevTypes'
  BY <1>1, SameTypes
<1>5. ReadTypes'
  <2>1. Capacity \in Nat
    BY ResponseAssumption
  <2>2. QED
    BY <1>1, <2>1 DEF ReadTypes, TypeInv
<1>6. StateTypes' /\ PcTypes'
  <2>1. StateTypes'
    BY <1>1 DEF StateTypes
  <2>2. PcTypes'
    BY <1>1 DEF PcTypes
  <2>3. QED
    BY <2>1, <2>2
<1>7. LoopTypes'
  <2>1. body_len' \in Nat /\ forced_continue' \in BOOLEAN
    BY <1>1
  <2>2. delivered' \in Seq(Bytes)
    BY <1>1
  <2>3. QED
    BY <2>1, <2>2 DEF LoopTypes
<1>8. MisreadTypes'
  BY <1>1 DEF MisreadTypes
<1>9. QED
  BY <1>3, <1>4, <1>5, <1>6, <1>7, <1>8, TypesTogether

(* The loop around the parser and the decoder. *)
LEMMA LoopStepTypes ==
  ASSUME TypeInv, Loop
  PROVE  TypeInv'
<1>1. CASE ReadNothing
  <2>1. /\ UNCHANGED <<wireVars, state, remainVars, chunkVars, respVars, buffer>>
        /\ UNCHANGED <<loopVars, prev, decoderVars>>
        /\ read_len' = 0 /\ pc' \in {"body", "done"} /\ misread' = (misread \/ ~closed)
    BY <1>1 DEF ReadNothing, Goes
  <2>2. /\ WireTypes' /\ StateTypes' /\ RemainTypes' /\ ChunkTypes' /\ RespTypes' /\ LoopTypes'
        /\ DecoderTypes' /\ PrevTypes'
    BY <2>1, SameTypes
  <2>3. ReadTypes'
    <3>1. Capacity \in Nat
      BY ResponseAssumption
    <3>2. QED
      BY <2>1, <3>1 DEF ReadTypes, TypeInv
  <2>4. PcTypes'
    BY <2>1 DEF PcTypes
  <2>5. MisreadTypes'
    BY <2>1 DEF MisreadTypes
  <2>6. QED
    BY <2>2, <2>3, <2>4, <2>5, TypesTogether
<1>2. CASE ReadFails
  <2>1. /\ UNCHANGED <<wireVars, state, remainVars, chunkVars, respVars, readVars>>
        /\ UNCHANGED <<loopVars, prev, decoderVars, misread>> /\ pc' \in {"failed", "done"}
    BY <1>2 DEF ReadFails, Goes
  <2>2. /\ WireTypes' /\ StateTypes' /\ RemainTypes' /\ ChunkTypes' /\ RespTypes' /\ ReadTypes'
        /\ LoopTypes' /\ DecoderTypes' /\ PrevTypes' /\ MisreadTypes'
    BY <2>1, SameTypes
  <2>3. PcTypes'
    BY <2>1 DEF PcTypes
  <2>4. QED
    BY <2>2, <2>3, TypesTogether
<1>3. CASE HeaderEnd
  <2>1. /\ pc = "header_end" /\ misread' = (misread \/ Inherits)
        /\ UNCHANGED <<wireVars, state, respVars, readVars, prev, decoderVars>>
    BY <1>3 DEF HeaderEnd
  <2>2. /\ WireTypes' /\ StateTypes' /\ RespTypes' /\ ReadTypes' /\ DecoderTypes'
    BY <2>1, SameTypes
  <2>3. MisreadTypes'
    BY <2>1 DEF MisreadTypes
  <2>4. transfer_encoding \in {"none", "chunked", "not_supported"}
    BY DEF TypeInv
  <2>5. CASE transfer_encoding = "chunked"
    <3>1. /\ forced_continue' = TRUE /\ chunk_terminate_state' = 0 /\ pc' = "body"
          /\ UNCHANGED <<remainVars, body_len, delivered>>
          /\ UNCHANGED <<chunk_size, chunk_state_remain_byte, chunk_size_str>>
      BY <1>3, <2>5 DEF HeaderEnd, Goes
    <3>2. RemainTypes' /\ PrevTypes'
      BY <2>1, <3>1, SameTypes
    <3>3. ChunkTypes'
      BY <3>1 DEF ChunkTypes, TypeInv
    <3>4. LoopTypes'
      BY <3>1 DEF LoopTypes, TypeInv
    <3>5. PcTypes'
      BY <3>1 DEF PcTypes
    <3>6. QED
      BY <2>2, <2>3, <3>2, <3>3, <3>4, <3>5, TypesTogether
  <2>6. CASE transfer_encoding = "none"
    <3>1. /\ Deliver(remain_index, remain_len)
          /\ remain_index' = IF remain_len > 0 THEN 0 ELSE remain_index
          /\ remain_len' = 0 /\ pc' = "check"
          /\ UNCHANGED <<chunkVars, forced_continue>>
      BY <1>3, <2>6 DEF HeaderEnd, Goes
    <3>2. ChunkTypes' /\ PrevTypes'
      BY <2>1, <3>1, SameTypes
    <3>3. Capacity \in Nat /\ remain_index \in 0 .. Capacity /\ remain_len \in 0 .. Capacity
      BY TypesSay
    <3>4. RemainTypes'
      BY <3>1, <3>3 DEF RemainTypes
    <3>5. delivered' \in Seq(Bytes) /\ body_len' \in Nat
      <4>1. remain_index \in Nat /\ remain_len \in Nat
        BY <3>3
      <4>2. QED
        BY <3>1, <4>1, DeliverType
    <3>6. forced_continue' \in BOOLEAN
      BY <3>1 DEF TypeInv
    <3>7. LoopTypes'
      BY <3>5, <3>6 DEF LoopTypes
    <3>8. PcTypes'
      BY <3>1 DEF PcTypes
    <3>9. QED
      BY <2>2, <2>3, <3>2, <3>4, <3>7, <3>8, TypesTogether
  <2>7. CASE transfer_encoding = "not_supported"
    <3>1. UNCHANGED <<remainVars, chunkVars, loopVars>> /\ pc' = "check"
      BY <1>3, <2>7 DEF HeaderEnd, Goes
    <3>2. RemainTypes' /\ ChunkTypes' /\ LoopTypes' /\ PrevTypes'
      BY <2>1, <3>1, SameTypes
    <3>3. PcTypes'
      BY <3>1 DEF PcTypes
    <3>4. QED
      BY <2>2, <2>3, <3>2, <3>3, TypesTogether
  <2>8. QED
    BY <2>4, <2>5, <2>6, <2>7
<1>4. CASE PlainBody
  <2>1. /\ UNCHANGED <<wireVars, state, remainVars, chunkVars, respVars, readVars>>
        /\ UNCHANGED <<forced_continue, prev, decoderVars, misread>> /\ pc' = "check"
        /\ Deliver(0, read_len) \/ UNCHANGED <<delivered, body_len>>
    BY <1>4 DEF PlainBody, Goes
  <2>2. /\ WireTypes' /\ StateTypes' /\ RemainTypes' /\ ChunkTypes' /\ RespTypes' /\ ReadTypes'
        /\ DecoderTypes' /\ PrevTypes' /\ MisreadTypes'
    BY <2>1, SameTypes
  <2>3. delivered' \in Seq(Bytes) /\ body_len' \in Nat
    <3>1. CASE Deliver(0, read_len)
      <4>1. read_len \in Nat /\ 0 \in Nat
        BY TypesSay
      <4>2. QED
        BY <3>1, <4>1, DeliverType
    <3>2. CASE UNCHANGED <<delivered, body_len>>
      BY <3>2 DEF TypeInv
    <3>3. QED
      BY <2>1, <3>1, <3>2
  <2>4. forced_continue' \in BOOLEAN
    BY <2>1 DEF TypeInv
  <2>5. LoopTypes'
    BY <2>3, <2>4 DEF LoopTypes
  <2>6. PcTypes'
    BY <2>1 DEF PcTypes
  <2>7. QED
    BY <2>2, <2>5, <2>6, TypesTogether
<1>5. CASE ReadMore \/ EndOfBody
  <2>1. /\ UNCHANGED <<wireVars, remainVars, chunkVars, respVars, readVars>>
        /\ UNCHANGED <<loopVars, prev, decoderVars, misread>>
        /\ pc' \in {"read", "failed", "done"} /\ (state' = state \/ state' = "end")
    BY <1>5 DEF ReadMore, EndOfBody, Goes
  <2>2. /\ WireTypes' /\ RemainTypes' /\ ChunkTypes' /\ RespTypes' /\ ReadTypes'
        /\ LoopTypes' /\ DecoderTypes' /\ PrevTypes' /\ MisreadTypes'
    BY <2>1, SameTypes
  <2>3. StateTypes' /\ PcTypes'
    BY <2>1 DEF StateTypes, PcTypes, TypeInv
  <2>4. QED
    BY <2>2, <2>3, TypesTogether
<1>6. QED
  BY <1>1, <1>2, <1>3, <1>4, <1>5 DEF Loop

(* Where a line ends: inside what has been read. *)
LEMMA LineEndIs ==
  ASSUME TypeInv, LineEnds # {}
  PROVE  Min(LineEnds) \in Nat /\ Min(LineEnds) + 2 <= read_len /\ prev <= Min(LineEnds)
<1>1. prev \in Nat /\ read_len \in Nat
  BY NumbersAre
<1>2. LineEnds \in SUBSET Nat /\ LineEnds \subseteq prev .. read_len - 2
  BY <1>1 DEF LineEnds
<1>3. Min(LineEnds) \in LineEnds
  BY <1>2, MinIsLeast
<1> DEFINE m == Min(LineEnds)
<1>4. m \in prev .. read_len - 2
  BY <1>2, <1>3
<1> HIDE DEF m
<1>5. m \in Nat /\ m + 2 <= read_len /\ prev <= m
  BY <1>1, <1>4
<1>6. QED
  BY <1>5 DEF m

(* The parser. *)
LEMMA ParserTypes ==
  ASSUME TypeInv, Parser
  PROVE  TypeInv'
<1>1. /\ Capacity \in Nat /\ read_len \in 0 .. Capacity /\ read_len \in Nat /\ prev \in 0 .. Capacity
      /\ (pc = "parse" => prev <= read_len)
  BY TypesSay
<1>2. CASE KeepRest
  <2>1. /\ UNCHANGED <<wireVars, state, chunkVars, respVars, read_len, loopVars, decoderVars, misread>>
        /\ pc = "parse" /\ remain_index' = prev /\ remain_len' = read_len - prev /\ prev' = 0
        /\ pc' = "read"
        /\ buffer' = [i \in 0 .. Capacity - 1 |->
                        IF i < read_len - prev THEN buffer[prev + i] ELSE buffer[i]]
    BY <1>2 DEF KeepRest, Goes
  <2>2. /\ WireTypes' /\ StateTypes' /\ ChunkTypes' /\ RespTypes' /\ LoopTypes' /\ DecoderTypes'
        /\ MisreadTypes'
    BY <2>1, SameTypes
  <2>3. RemainTypes'
    BY <1>1, <2>1 DEF RemainTypes
  <2>4. ReadTypes'
    <3>1. buffer \in [0 .. Capacity - 1 -> Bytes]
      BY DEF TypeInv
    <3>2. ASSUME NEW i \in 0 .. Capacity - 1
          PROVE  (IF i < read_len - prev THEN buffer[prev + i] ELSE buffer[i]) \in Bytes
      <4>1. i < read_len - prev => prev + i \in 0 .. Capacity - 1
        BY <1>1
      <4>2. QED
        BY <3>1, <4>1
    <3>3. buffer' \in [0 .. Capacity - 1 -> Bytes]
      BY <2>1, <3>2
    <3>4. QED
      BY <1>1, <2>1, <3>3 DEF ReadTypes
  <2>5. PrevTypes'
    BY <1>1, <2>1, SameTypes
  <2>6. PcTypes'
    BY <2>1 DEF PcTypes
  <2>7. QED
    BY <2>2, <2>3, <2>4, <2>5, <2>6, TypesTogether
<1>3. ASSUME NextLine, RespTypes', LineEnds # {}, pc = "parse" PROVE TypeInv'
  <2>1. /\ UNCHANGED <<wireVars, remainVars, chunkVars, readVars, loopVars, decoderVars, pc, misread>>
        /\ prev' = Min(LineEnds) + 2 /\ state' = "header_line"
    BY <1>3 DEF NextLine
  <2>2. /\ WireTypes' /\ RemainTypes' /\ ChunkTypes' /\ ReadTypes' /\ LoopTypes' /\ DecoderTypes'
        /\ MisreadTypes'
    BY <2>1, SameTypes
  <2>3. StateTypes'
    BY <2>1 DEF StateTypes
  <2>4. PcTypes'
    BY <1>3, <2>1 DEF PcTypes
  <2>5. PrevTypes'
    <3>1. Min(LineEnds) \in Nat /\ Min(LineEnds) + 2 <= read_len
      BY <1>3, LineEndIs
    <3> DEFINE m == Min(LineEnds)
    <3>2. m \in Nat /\ m + 2 <= read_len /\ prev' = m + 2
      BY <2>1, <3>1
    <3> HIDE DEF m
    <3>3. prev' \in 0 .. Capacity /\ prev' <= read_len
      BY <1>1, <3>2
    <3>4. read_len' = read_len
      BY <2>1 DEF readVars
    <3>5. QED
      BY <3>3, <3>4 DEF PrevTypes
  <2>6. QED
    BY <1>3, <2>2, <2>3, <2>4, <2>5, TypesTogether
<1>4. CASE FirstLine
  <2>1. NextLine /\ UNCHANGED respVars /\ LineEnds # {} /\ pc = "parse"
    BY <1>4 DEF FirstLine
  <2>2. RespTypes'
    BY <2>1, SameTypes
  <2>3. QED
    BY <1>3, <2>1, <2>2
<1>5. CASE HeaderLine
  <2>1. NextLine /\ LineEnds # {} /\ pc = "parse"
    BY <1>5 DEF HeaderLine
  <2>2. transfer_encoding' \in {transfer_encoding, "chunked", "not_supported"}
    BY <1>5 DEF HeaderLine
  <2>3. \/ content_length' = content_length
        \/ HeaderData[1] \in Digits /\ content_length' = HexValue(HeaderData[1])
    BY <1>5 DEF HeaderLine
  <2>4. RespTypes'
    BY <2>2, <2>3, DigitValue DEF RespTypes, TypeInv
  <2>5. QED
    BY <1>3, <2>1, <2>4
<1>6. CASE BadLine
  <2>1. /\ UNCHANGED <<wireVars, state, remainVars, chunkVars, respVars, readVars>>
        /\ UNCHANGED <<loopVars, prev, decoderVars, misread>> /\ pc' = "crashed"
    BY <1>6 DEF BadLine, Goes
  <2>2. /\ WireTypes' /\ StateTypes' /\ RemainTypes' /\ ChunkTypes' /\ RespTypes' /\ ReadTypes'
        /\ LoopTypes' /\ DecoderTypes' /\ PrevTypes' /\ MisreadTypes'
    BY <2>1, SameTypes
  <2>3. PcTypes'
    BY <2>1 DEF PcTypes
  <2>4. QED
    BY <2>2, <2>3, TypesTogether
<1>7. CASE BlankLine
  <2>1. /\ UNCHANGED <<wireVars, chunkVars, respVars, readVars, loopVars, decoderVars, misread>>
        /\ state' = "body" /\ remain_index' = prev + 2 /\ remain_len' = read_len - prev - 2
        /\ prev' = 0 /\ pc' = "header_end" /\ LineEnds # {} /\ Min(LineEnds) = prev
    BY <1>7 DEF BlankLine, Blank, Goes
  <2>2. /\ WireTypes' /\ ChunkTypes' /\ RespTypes' /\ ReadTypes' /\ LoopTypes' /\ DecoderTypes'
        /\ MisreadTypes'
    BY <2>1, SameTypes
  <2>3. read_len' \in Nat
    BY <1>1, <2>1 DEF readVars
  <2>4. PrevTypes'
    BY <2>1, <2>3, SameTypes
  <2>5. prev + 2 <= read_len
    BY <2>1, LineEndIs
  <2>6. RemainTypes'
    BY <1>1, <2>1, <2>5 DEF RemainTypes
  <2>7. StateTypes' /\ PcTypes'
    BY <2>1 DEF StateTypes, PcTypes
  <2>8. QED
    BY <2>2, <2>4, <2>6, <2>7, TypesTogether
<1>8. QED
  BY <1>2, <1>4, <1>5, <1>6, <1>7 DEF Parser

(* A part of a chunk, complete or not. *)
LEMMA ConsumeTypes ==
  ASSUME TypeInv, NEW due \in Nat, NEW after \in {"size", "chunk", "end"}, Consume(due, after)
  PROVE  /\ DecoderTypes' /\ PcTypes' /\ pc' # "parse" /\ chunk_state_remain_byte' \in Nat
         /\ forced_continue' \in BOOLEAN
<1>1. /\ idx \in Nat /\ len \in 0 .. Capacity /\ len \in Nat /\ idx + len <= 2 * Capacity
      /\ Capacity \in Nat /\ chunk_state_remain_byte \in Nat
  BY TypesSay
<1>2. CASE due > len
  <2>1. /\ chunk_state_remain_byte' = due - len /\ forced_continue' = TRUE /\ pc' = "check"
        /\ idx' = 0 /\ len' = 0 /\ entering' = FALSE
    BY <1>2 DEF Consume, Interrupted, Goes
  <2>2. chunk_state_remain_byte' \in Nat
    BY <1>1, <1>2, <2>1
  <2>3. DecoderTypes'
    BY <1>1, <2>1, NoneLeft
  <2>4. PcTypes' /\ pc' # "parse"
    BY <2>1 DEF PcTypes
  <2>5. QED
    BY <2>1, <2>2, <2>3, <2>4
<1>3. CASE ~(due > len)
  <2>1. /\ chunk_state_remain_byte' = IF entering THEN 0 ELSE chunk_state_remain_byte
        /\ idx' = idx + due /\ len' = len - due /\ entering' = FALSE /\ pc' = after
        /\ UNCHANGED forced_continue
    BY <1>3 DEF Consume, Goes
  <2>2. chunk_state_remain_byte' \in Nat
    BY <1>1, <2>1
  <2>3. DecoderTypes'
    <3>1. idx + due \in Nat /\ len - due \in 0 .. Capacity /\ (idx + due) + (len - due) <= 2 * Capacity
      BY <1>1, <1>3
    <3>2. QED
      BY <2>1, <3>1 DEF DecoderTypes
  <2>4. PcTypes' /\ pc' # "parse"
    BY <2>1 DEF PcTypes
  <2>5. forced_continue' \in BOOLEAN
    BY <2>1 DEF TypeInv
  <2>6. QED
    BY <2>2, <2>3, <2>4, <2>5
<1>4. QED
  BY <1>2, <1>3

(* The decoder. *)
LEMMA DecoderStepTypes ==
  ASSUME TypeInv, Decoder
  PROVE  TypeInv'
<1>1. /\ Capacity \in Nat /\ read_len \in 0 .. Capacity
      /\ remain_index \in 0 .. Capacity /\ remain_len \in 0 .. Capacity
      /\ idx \in Nat /\ len \in 0 .. Capacity /\ len \in Nat /\ idx + len <= 2 * Capacity
      /\ chunk_size \in Nat /\ chunk_terminate_state \in 0 .. 3 /\ chunk_state_remain_byte \in Nat
  BY TypesSay
<1>2. CASE NothingRead
  <2>1. /\ UNCHANGED <<wireVars, state, remainVars, chunkVars, respVars, readVars>>
        /\ UNCHANGED <<body_len, delivered, prev, decoderVars, misread>>
        /\ forced_continue' = FALSE /\ pc' = "check"
    BY <1>2 DEF NothingRead, Goes
  <2>2. /\ WireTypes' /\ StateTypes' /\ RemainTypes' /\ ChunkTypes' /\ RespTypes' /\ ReadTypes'
        /\ DecoderTypes' /\ PrevTypes' /\ MisreadTypes'
    BY <2>1, SameTypes
  <2>3. LoopTypes'
    BY <2>1 DEF LoopTypes, TypeInv
  <2>4. PcTypes'
    BY <2>1 DEF PcTypes
  <2>5. QED
    BY <2>2, <2>3, <2>4, TypesTogether
<1>3. CASE EnterDecoder
  <2>1. /\ UNCHANGED <<wireVars, state, chunkVars, respVars, readVars, loopVars, prev>>
        /\ idx' = remain_index /\ len' = Unread /\ entering' = TRUE
        /\ remain_index' = 0 /\ remain_len' = 0
        /\ misread' = (misread \/ (remain_len = 0 /\ remain_index > 0))
        /\ pc' = Labels[chunk_terminate_state + 1]
    BY <1>3 DEF EnterDecoder, Goes
  <2>2. pc' \in {"size", "mid", "chunk", "end"}
    <3>1. chunk_terminate_state + 1 \in 1 .. 4
      BY <1>1
    <3>2. QED
      BY <2>1, <3>1, LabelNames
  <2>3. WireTypes' /\ StateTypes' /\ ChunkTypes' /\ RespTypes' /\ ReadTypes' /\ LoopTypes'
    BY <2>1, SameTypes
  <2>4. PrevTypes'
    BY <2>1, <2>2, SameTypes
  <2>5. RemainTypes'
    BY <1>1, <2>1 DEF RemainTypes
  <2>6. DecoderTypes'
    <3>1. Unread \in 0 .. Capacity
      BY <1>1 DEF Unread
    <3>2. remain_index \in Nat /\ remain_index + Unread <= 2 * Capacity
      BY <1>1, <3>1
    <3>3. QED
      BY <2>1, <3>1, <3>2 DEF DecoderTypes
  <2>7. PcTypes'
    BY <2>2 DEF PcTypes
  <2>8. MisreadTypes'
    BY <2>1 DEF MisreadTypes
  <2>9. QED
    BY <2>3, <2>4, <2>5, <2>6, <2>7, <2>8, TypesTogether
<1>4. CASE LastChunk
  <2>1. /\ UNCHANGED <<wireVars, state, remainVars, chunk_state_remain_byte, respVars>>
        /\ UNCHANGED <<readVars, body_len, delivered, prev>>
        /\ chunk_size_str' = <<"0">> /\ chunk_size' = 0 /\ chunk_terminate_state' = 0
        /\ forced_continue' = FALSE /\ pc' = "check"
        /\ idx' = 0 /\ len' = 0 /\ entering' = FALSE
        /\ misread' = (misread \/ Len(Have) + len < 3)
    BY <1>4 DEF LastChunk, Goes
  <2>2. WireTypes' /\ StateTypes' /\ RemainTypes' /\ RespTypes' /\ ReadTypes' /\ PrevTypes'
    BY <2>1, SameTypes
  <2>3. ChunkTypes'
    <3>1. "0" \in Bytes
      BY HexDigits DEF Bytes
    <3>2. <<"0">> \in Seq(Bytes) /\ Len(<<"0">>) = 1
      BY <3>1
    <3>3. QED
      BY <1>1, <2>1, <3>2 DEF ChunkTypes
  <2>4. LoopTypes'
    BY <2>1 DEF LoopTypes, TypeInv
  <2>5. DecoderTypes'
    BY <1>1, <2>1, NoneLeft
  <2>6. PcTypes'
    BY <2>1 DEF PcTypes
  <2>7. MisreadTypes'
    BY <2>1 DEF MisreadTypes
  <2>8. QED
    BY <2>2, <2>3, <2>4, <2>5, <2>6, <2>7, TypesTogether
<1>5. CASE PartOfSize
  <2>1. /\ UNCHANGED <<wireVars, state, remainVars, chunk_size, chunk_state_remain_byte>>
        /\ UNCHANGED <<respVars, readVars, body_len, delivered, prev>>
        /\ chunk_size_str' = CString(IF entering THEN SizeLine ELSE BytesAt(idx, len))
        /\ chunk_terminate_state' = 0 /\ forced_continue' = TRUE /\ pc' = "check"
        /\ idx' = 0 /\ len' = 0 /\ entering' = FALSE
        /\ misread' = (misread \/ entering) /\ len < Need
    BY <1>5 DEF PartOfSize, Interrupted, Goes
  <2>2. WireTypes' /\ StateTypes' /\ RemainTypes' /\ RespTypes' /\ ReadTypes' /\ PrevTypes'
    BY <2>1, SameTypes
  <2>3. ChunkTypes'
    <3> DEFINE s == IF entering THEN SizeLine ELSE BytesAt(idx, len)
    <3>1. s \in Seq(Bytes) /\ Len(s) \in 0 .. 4
      <4>1. SizeLine \in Seq(Bytes) /\ Len(SizeLine) = 4 /\ Need \in 0 .. 4
        BY SizeLineType
      <4>2. BytesAt(idx, len) \in Seq(Bytes) /\ Len(BytesAt(idx, len)) = len
        BY <1>1, BytesAtType
      <4>3. len \in 0 .. 4
        BY <1>1, <2>1, <4>1
      <4>4. QED
        BY <4>1, <4>2, <4>3
    <3> HIDE DEF s
    <3>2. CString(s) \in Seq(Bytes) /\ Len(CString(s)) \in 0 .. Len(s)
      BY <3>1, CStringType
    <3>3. Len(CString(s)) <= 4
      <4> DEFINE m == Len(s)
                 n == Len(CString(s))
      <4>1. m \in 0 .. 4 /\ n \in 0 .. m
        BY <3>1, <3>2
      <4> HIDE DEF m, n
      <4>2. n <= 4
        BY <4>1
      <4>3. QED
        BY <4>2 DEF n
    <3>4. chunk_size_str' = CString(s)
      BY <2>1 DEF s
    <3>5. QED
      BY <1>1, <2>1, <3>2, <3>3, <3>4 DEF ChunkTypes
  <2>4. LoopTypes'
    BY <2>1 DEF LoopTypes, TypeInv
  <2>5. DecoderTypes'
    BY <1>1, <2>1, NoneLeft
  <2>6. PcTypes'
    BY <2>1 DEF PcTypes
  <2>7. MisreadTypes'
    <3>1. misread \in BOOLEAN /\ entering \in BOOLEAN
      BY DEF TypeInv
    <3>2. QED
      BY <2>1, <3>1 DEF MisreadTypes
  <2>8. QED
    BY <2>2, <2>3, <2>4, <2>5, <2>6, <2>7, TypesTogether
<1>6. CASE Size
  <2>1. /\ UNCHANGED <<wireVars, state, remainVars, chunk_state_remain_byte, respVars>>
        /\ UNCHANGED <<readVars, loopVars, prev>>
        /\ chunk_size_str' = CString(SizeLine) /\ chunk_size' = Strtol(CString(SizeLine))
        /\ chunk_terminate_state' = 0
        /\ idx' = idx + Need /\ len' = len - Need /\ entering' = FALSE /\ pc' = "mid"
        /\ misread' = (misread \/ \E n \in 1 .. 4 : SizeLine[n] \notin Digits)
        /\ len >= Need
    BY <1>6 DEF Size, Goes
  <2>2. /\ WireTypes' /\ StateTypes' /\ RemainTypes' /\ RespTypes' /\ ReadTypes' /\ LoopTypes'
        /\ PrevTypes'
    BY <2>1, SameTypes
  <2>3. SizeLine \in Seq(Bytes) /\ Len(SizeLine) = 4 /\ Need \in 0 .. 4
    BY SizeLineType
  <2>4. ChunkTypes'
    <3>1. CString(SizeLine) \in Seq(Bytes) /\ Len(CString(SizeLine)) \in 0 .. 4
      BY <2>3, CStringType
    <3>2. Len(CString(SizeLine)) <= 4
      <4> DEFINE n == Len(CString(SizeLine))
      <4>1. n \in 0 .. 4
        BY <3>1
      <4> HIDE DEF n
      <4>2. n <= 4
        BY <4>1
      <4>3. QED
        BY <4>2 DEF n
    <3>3. Strtol(CString(SizeLine)) \in Nat
      BY <3>1, StrtolType
    <3>4. QED
      BY <1>1, <2>1, <3>1, <3>2, <3>3 DEF ChunkTypes
  <2>5. DecoderTypes'
    <3>1. idx + Need \in Nat /\ len - Need \in 0 .. Capacity /\ (idx + Need) + (len - Need) <= 2 * Capacity
      BY <1>1, <2>1, <2>3
    <3>2. QED
      BY <2>1, <3>1 DEF DecoderTypes
  <2>6. PcTypes'
    BY <2>1 DEF PcTypes
  <2>7. MisreadTypes'
    BY <2>1 DEF MisreadTypes
  <2>8. QED
    BY <2>2, <2>4, <2>5, <2>6, <2>7, TypesTogether
<1>7. CASE SeparatorMid \/ SeparatorEnd
  <2> DEFINE due == IF entering THEN chunk_state_remain_byte ELSE 2
  <2>1. PICK after \in {"chunk", "size"} :
          /\ Consume(due, after)
          /\ UNCHANGED <<wireVars, state, remainVars, chunk_size, chunk_size_str, respVars>>
          /\ UNCHANGED <<readVars, body_len, delivered, prev, misread>>
          /\ chunk_terminate_state' \in {1, 3}
    BY <1>7 DEF SeparatorMid, SeparatorEnd, Separator
  <2>2. due \in Nat /\ after \in {"size", "chunk", "end"}
    BY <1>1
  <2> HIDE DEF due
  <2>3. /\ DecoderTypes' /\ PcTypes' /\ pc' # "parse" /\ chunk_state_remain_byte' \in Nat
        /\ forced_continue' \in BOOLEAN
    BY <2>1, <2>2, ConsumeTypes
  <2>4. /\ WireTypes' /\ StateTypes' /\ RemainTypes' /\ RespTypes' /\ ReadTypes' /\ PrevTypes'
        /\ MisreadTypes'
    BY <2>1, <2>3, SameTypes
  <2>5. ChunkTypes'
    BY <2>1, <2>3 DEF ChunkTypes, TypeInv
  <2>6. LoopTypes'
    <3>1. body_len' \in Nat /\ delivered' \in Seq(Bytes)
      BY <2>1 DEF TypeInv
    <3>2. QED
      BY <2>3, <3>1 DEF LoopTypes
  <2>7. QED
    BY <2>3, <2>4, <2>5, <2>6, TypesTogether
<1>8. CASE ChunkData
  <2> DEFINE due == IF entering THEN chunk_state_remain_byte ELSE chunk_size
             n == Min({due, len})
  <2>1. /\ Consume(due, "end") /\ Deliver(idx, n)
        /\ UNCHANGED <<wireVars, state, remainVars, chunk_size, chunk_size_str, respVars>>
        /\ UNCHANGED <<readVars, prev, misread>>
        /\ chunk_terminate_state' = 2
    BY <1>8 DEF ChunkData
  <2>2. due \in Nat /\ "end" \in {"size", "chunk", "end"}
    BY <1>1
  <2> HIDE DEF due
  <2>3. n \in Nat
    BY <1>1, <2>2, MinIsLeast
  <2> HIDE DEF n
  <2>4. /\ DecoderTypes' /\ PcTypes' /\ pc' # "parse" /\ chunk_state_remain_byte' \in Nat
        /\ forced_continue' \in BOOLEAN
    BY <2>1, <2>2, ConsumeTypes
  <2>5. /\ WireTypes' /\ StateTypes' /\ RemainTypes' /\ RespTypes' /\ ReadTypes' /\ PrevTypes'
        /\ MisreadTypes'
    BY <2>1, <2>4, SameTypes
  <2>6. ChunkTypes'
    BY <2>1, <2>4 DEF ChunkTypes, TypeInv
  <2>7. delivered' \in Seq(Bytes) /\ body_len' \in Nat
    BY <1>1, <2>1, <2>3, DeliverType
  <2>8. LoopTypes'
    BY <2>4, <2>7 DEF LoopTypes
  <2>9. QED
    BY <2>4, <2>5, <2>6, <2>8, TypesTogether
<1>9. QED
  BY <1>2, <1>3, <1>4, <1>5, <1>6, <1>7, <1>8 DEF Decoder

(* Every step keeps the types. *)
LEMMA TypesKept ==
  ASSUME TypeInv, [Next]_vars
  PROVE  TypeInv'
<1>1. CASE UNCHANGED vars
  <2>1. /\ UNCHANGED <<wireVars, state, remainVars, chunkVars, respVars, readVars, loopVars, prev>>
        /\ UNCHANGED <<decoderVars, pc, misread, read_len>>
    BY <1>1 DEF vars, readVars
  <2>2. /\ WireTypes' /\ StateTypes' /\ RemainTypes' /\ ChunkTypes' /\ RespTypes' /\ ReadTypes'
        /\ LoopTypes' /\ DecoderTypes' /\ PrevTypes' /\ MisreadTypes'
    BY <2>1, SameTypes
  <2>3. PcTypes'
    BY <2>1, TypesAre DEF PcTypes
  <2>4. QED
    BY <2>2, <2>3, TypesTogether
<1>2. CASE Receive \/ ServerCloses \/ NextExchange
  BY <1>2, ReceiveTypes, ServerClosesTypes, NextExchangeTypes
<1>3. CASE Loop \/ Parser \/ Decoder
  BY <1>3, LoopStepTypes, ParserTypes, DecoderStepTypes
<1>4. QED
  BY <1>1, <1>2, <1>3 DEF Next

--------------------------------------------------------------------------------
(* The invariant and the types, of every behaviour.                             *)

(* An exchange stays the same, and misread, up to the next one. *)
LEMMA SameSession ==
  ASSUME Next, ~NextExchange
  PROVE  UNCHANGED <<session, nth>>
<1>1. ASSUME Receive PROVE UNCHANGED <<session, nth>>
  <2>1. PICK n : Read(n)
    BY <1>1 DEF Receive
  <2>2. QED
    BY <2>1 DEF Read
<1>2. ASSUME ServerCloses PROVE UNCHANGED <<session, nth>>
  BY <1>2 DEF ServerCloses
<1>3. ASSUME Loop PROVE UNCHANGED <<session, nth>>
  <2>1. ASSUME HeaderEnd PROVE UNCHANGED wireVars
    BY <2>1 DEF HeaderEnd
  <2>2. QED
    BY <1>3, <2>1 DEF Loop, ReadNothing, ReadFails, PlainBody, ReadMore, EndOfBody, wireVars
<1>4. ASSUME Parser PROVE UNCHANGED <<session, nth>>
  BY <1>4 DEF Parser, KeepRest, FirstLine, HeaderLine, BadLine, BlankLine, NextLine, wireVars
<1>5. ASSUME Decoder PROVE UNCHANGED <<session, nth>>
  BY <1>5 DEF Decoder, NothingRead, EnterDecoder, LastChunk, PartOfSize, Size, SeparatorMid,
              ChunkData, SeparatorEnd, Separator, wireVars
<1>6. QED
  BY <1>1, <1>2, <1>3, <1>4, <1>5 DEF Next

LEMMA OnceMisread ==
  ASSUME Next, ~NextExchange, misread
  PROVE  misread'
<1>1. ASSUME Receive PROVE misread'
  <2>1. PICK n : Read(n)
    BY <1>1 DEF Receive
  <2>2. misread' = (misread \/ remain_len > 0)
    BY <2>1 DEF Read
  <2>3. QED
    BY <2>2
<1>2. ASSUME ServerCloses PROVE misread'
  BY <1>2 DEF ServerCloses
<1>3. ASSUME Loop PROVE misread'
  <2>1. ASSUME HeaderEnd PROVE misread'
    <3>1. misread' = (misread \/ Inherits)
      BY <2>1 DEF HeaderEnd
    <3>2. QED
      BY <3>1
  <2>2. ASSUME ReadNothing PROVE misread'
    BY <2>2 DEF ReadNothing
  <2>3. ASSUME ReadFails \/ PlainBody \/ ReadMore \/ EndOfBody PROVE misread' = misread
    BY <2>3 DEF ReadFails, PlainBody, ReadMore, EndOfBody
  <2>4. QED
    BY <1>3, <2>1, <2>2, <2>3 DEF Loop
<1>4. ASSUME Parser PROVE misread'
  <2>1. misread' = misread
    BY <1>4 DEF Parser, KeepRest, FirstLine, HeaderLine, BadLine, BlankLine, NextLine
  <2>2. QED
    BY <2>1
<1>5. ASSUME Decoder PROVE misread'
  <2>1. ASSUME EnterDecoder PROVE misread'
    BY <2>1 DEF EnterDecoder
  <2>2. ASSUME LastChunk PROVE misread'
    BY <2>2 DEF LastChunk
  <2>3. ASSUME PartOfSize PROVE misread'
    BY <2>3 DEF PartOfSize
  <2>4. ASSUME Size PROVE misread'
    BY <2>4 DEF Size
  <2>5. ASSUME NothingRead \/ SeparatorMid \/ ChunkData \/ SeparatorEnd PROVE misread' = misread
    BY <2>5 DEF NothingRead, SeparatorMid, ChunkData, SeparatorEnd, Separator
  <2>6. QED
    BY <1>5, <2>1, <2>2, <2>3, <2>4, <2>5 DEF Decoder
<1>6. QED
  BY <1>1, <1>2, <1>3, <1>4, <1>5 DEF Next

(* As long as nothing is misread, every step keeps the invariant. *)
LEMMA StepKeeps ==
  ASSUME IInv, TypeInv', [Next]_vars, ~misread'
  PROVE  IInv'
<1>1. CASE UNCHANGED vars
  BY <1>1, StutterKeeps
<1>2. CASE Receive \/ ServerCloses \/ NextExchange
  <2>1. TypeInv
    BY DEF IInv
  <2>2. QED
    BY <1>2, <2>1, ReceiveKeeps, ServerClosesKeeps, NextExchangeKeeps
<1>3. CASE Loop
  BY <1>3, ReadNothingKeeps, ReadFailsKeeps, HeaderEndKeeps, PlainBodyKeeps, ReadMoreKeeps,
     EndOfBodyKeeps DEF Loop
<1>4. CASE Parser
  BY <1>4, KeepRestKeeps, FirstLineKeeps, HeaderLineKeeps, BadLineKeeps, BlankLineKeeps DEF Parser
<1>5. CASE Decoder
  BY <1>5, NothingReadKeeps, EnterDecoderKeeps, LastChunkKeeps, PartOfSizeKeeps, SizeKeeps,
     SeparatorMidKeeps, ChunkDataKeeps, SeparatorEndKeeps DEF Decoder
<1>6. QED
  BY <1>1, <1>2, <1>3, <1>4, <1>5 DEF Next

(* The types are kept always, the rest until something is misread, and again    *)
(* from the next exchange on.                                                   *)
FullInv == TypeInv /\ (misread \/ IInv)

LEMMA FullInvKept ==
  ASSUME FullInv, [Next]_vars
  PROVE  FullInv'
<1>1. TypeInv /\ (misread \/ IInv)
  BY DEF FullInv
<1>2. TypeInv'
  BY <1>1, TypesKept
<1>3. misread' \/ IInv'
  <2>1. CASE NextExchange
    BY <1>1, <1>2, <2>1, NextExchangeKeeps
  <2>2. CASE misread /\ ~NextExchange
    <3>1. misread'
      <4>1. CASE UNCHANGED vars
        BY <2>2, <4>1 DEF vars
      <4>2. CASE Next
        BY <2>2, <4>2, OnceMisread
      <4>3. QED
        BY <4>1, <4>2
    <3>2. QED
      BY <3>1
  <2>3. CASE IInv
    BY <1>2, <2>3, StepKeeps
  <2>4. QED
    BY <1>1, <2>1, <2>2, <2>3
<1>4. QED
  BY <1>2, <1>3 DEF FullInv

(* Wherever the worker is in the parser, the decoder or the loop around them, it *)
(* has given the callbacks exactly the part of the body that it has gone past,   *)
(* unless it has misread something of this response.                            *)
THEOREM Invariance == Spec => []FullInv
<1>1. Init => FullInv
  <2> SUFFICES ASSUME Init PROVE FullInv
    OBVIOUS
  <2>1. IInv
    BY InitKeeps
  <2>2. QED
    BY <2>1 DEF IInv, FullInv
<1>2. FullInv /\ [Next]_vars => FullInv'
  BY FullInvKept
<1>3. QED
  BY <1>1, <1>2, PTL DEF Spec

(* The variables keep their types, for every read and every response, and the   *)
(* decoder never looks beyond what has been read (http_chunked_response_body:    *)
(* idx and len stay within read_len), unless a step of this exchange has taken   *)
(* bytes or state for what they are not.                                        *)
THEOREM TypeCorrect == Spec => []TypeOK
<1>1. FullInv => TypeOK
  BY DEF FullInv, IInv, TypeOK
<1>2. QED
  BY <1>1, Invariance, PTL

--------------------------------------------------------------------------------
(* The refinement.                                                              *)

(* What a step shows the callbacks and the caller, as long as nothing is misread. *)
Shown == <<Payload(response), delivered, closed /\ pos < Len(stream), pc = "done">>
Promised == Reader!Deliver \/ Reader!BreakOff \/ Reader!End \/ UNCHANGED Shown

(* A step that neither delivers, nor breaks off, nor ends. *)
LEMMA Unseen ==
  ASSUME UNCHANGED wireVars, delivered' = delivered, pc # "done", pc' # "done"
  PROVE  Promised
<1>1. UNCHANGED <<session, nth, pos, closed>>
  BY DEF wireVars
<1>2. response' = response /\ stream' = stream
  BY <1>1, SameResponse
<1>3. UNCHANGED Payload(response) /\ UNCHANGED (closed /\ pos < Len(stream))
  BY <1>1, <1>2
<1>4. UNCHANGED (pc = "done")
  OBVIOUS
<1>5. QED
  BY <1>3, <1>4 DEF Promised, Shown

(* A step that hands bytes of the buffer to resp_body_func. *)
LEMMA Given ==
  ASSUME IInv, IInv', UNCHANGED wireVars, pc # "done", pc' # "done",
         NEW i \in Nat, NEW n \in Nat, delivered' = delivered \o BytesAt(i, n)
  PROVE  Promised
<1>1. UNCHANGED <<session, nth, pos, closed>>
  BY DEF wireVars
<1>2. response' = response /\ stream' = stream /\ payload' = payload
  BY <1>1, SameResponse
<1>3. TypeInv /\ Wire /\ Wire'
  BY DEF IInv
<1>4. /\ payload \in Seq(Letters) /\ Len(payload) \in Nat
      /\ delivered \in Seq(Bytes) /\ Len(delivered) \in Nat
  <2>1. payload \in Seq(Letters) /\ Len(payload) \in Nat
    BY <1>3, ResponseFacts
  <2>2. delivered \in Seq(Bytes)
    BY <1>3 DEF TypeInv
  <2>3. QED
    BY <2>1, <2>2
<1>5. Len(delivered') = Len(delivered) + n
  <2>1. BytesAt(i, n) \in Seq(Bytes) /\ Len(BytesAt(i, n)) = n
    BY <1>3, BytesAtType
  <2>2. QED
    BY <1>4, <2>1, ConcatBytes
<1>6. /\ delivered = First(Len(delivered))
      /\ delivered' = First(Len(delivered')) /\ Len(delivered') <= Len(payload)
  BY <1>2, <1>3 DEF Wire, First
<1>7. CASE n = 0
  <2>1. delivered' = delivered
    BY <1>4, <1>5, <1>6, <1>7
  <2>2. QED
    BY <2>1, Unseen
<1>8. CASE n # 0
  <2>1. Len(delivered') \in Len(delivered) + 1 .. Len(payload)
    BY <1>4, <1>5, <1>6, <1>8
  <2>2. UNCHANGED Payload(response) /\ UNCHANGED (closed /\ pos < Len(stream))
    BY <1>1, <1>2
  <2>3. ~(pc = "done") /\ UNCHANGED (pc = "done")
    OBVIOUS
  <2>4. Reader!Deliver
    <3>1. delivered' = SubSeq(Payload(response), 1, Len(delivered'))
      BY <1>6 DEF First, payload
    <3>2. Len(delivered') \in Len(delivered) + 1 .. Len(Payload(response))
      BY <2>1 DEF payload
    <3>3. \E m \in Len(delivered) + 1 .. Len(Payload(response)) :
            delivered' = SubSeq(Payload(response), 1, m)
      BY <3>1, <3>2
    <3>4. QED
      BY <2>2, <2>3, <3>3 DEF Reader!Deliver
  <2>5. QED
    BY <2>4 DEF Promised
<1>9. QED
  BY <1>7, <1>8

(* A step that returns to the caller. *)
LEMMA Ends ==
  ASSUME UNCHANGED wireVars, delivered' = delivered, pc # "done", pc' = "done",
         delivered = payload \/ Cut
  PROVE  Reader!End
<1>1. UNCHANGED <<session, nth, pos, closed>>
  BY DEF wireVars
<1>2. response' = response /\ stream' = stream
  BY <1>1, SameResponse
<1>3. UNCHANGED Payload(response) /\ UNCHANGED (closed /\ pos < Len(stream))
  BY <1>1, <1>2
<1>4. (pc = "done")' = TRUE /\ ~(pc = "done")
  OBVIOUS
<1>5. delivered = Payload(response) \/ (closed /\ pos < Len(stream))
  BY DEF Cut, payload
<1>6. QED
  BY <1>3, <1>4, <1>5 DEF Reader!End

(* A read changes nothing the callbacks see; nothing is read once the server   *)
(* has closed the connection, so it never makes up for one that has broken off. *)
LEMMA ReceiveUnseen ==
  ASSUME Receive
  PROVE  Promised
<1>1. /\ pc = "read" /\ ~closed /\ pc' # "done"
      /\ UNCHANGED <<session, nth, closed, delivered>>
  <2>1. PICK n : Read(n)
    BY DEF Receive
  <2>2. QED
    BY <2>1 DEF Receive, Read, Goes, loopVars
<1>2. response' = response
  BY <1>1, SameResponse
<1>3. UNCHANGED Payload(response)
  BY <1>2
<1>4. ~(closed /\ pos < Len(stream)) /\ ~(closed /\ pos < Len(stream))'
  BY <1>1
<1>5. ~(pc = "done") /\ ~(pc = "done")'
  BY <1>1
<1>6. QED
  BY <1>1, <1>3, <1>4, <1>5 DEF Promised, Shown

(* A server that closes behind the last byte does not break off. *)
LEMMA ClosesIs ==
  ASSUME ServerCloses
  PROVE  Promised
<1>1. /\ pc = "read" /\ ~closed /\ closed' = TRUE
      /\ UNCHANGED <<session, nth, pos, pc, delivered>>
  BY DEF ServerCloses, loopVars
<1>2. response' = response /\ stream' = stream
  BY <1>1, SameResponse
<1>3. UNCHANGED Payload(response) /\ UNCHANGED (pc = "done") /\ ~(pc = "done")
  BY <1>1, <1>2
<1>4. ~(closed /\ pos < Len(stream))
  BY <1>1
<1>5. CASE pos < Len(stream)
  <2>1. (closed /\ pos < Len(stream))' = TRUE
    BY <1>1, <1>2, <1>5
  <2>2. Reader!BreakOff
    BY <1>1, <1>3, <2>1 DEF Reader!BreakOff
  <2>3. QED
    BY <2>2 DEF Promised
<1>6. CASE ~(pos < Len(stream))
  <2>1. ~(closed /\ pos < Len(stream))'
    BY <1>1, <1>2, <1>6
  <2>2. UNCHANGED (closed /\ pos < Len(stream))
    BY <1>4, <2>1
  <2>3. QED
    BY <1>1, <1>3, <2>2 DEF Promised, Shown
<1>7. QED
  BY <1>5, <1>6

(* The slot is claimed again. *)
LEMMA NextExchangeIs ==
  ASSUME FullInv, NextExchange
  PROVE  Reader!Again
<1>1. /\ TypeInv /\ (misread \/ IInv) /\ pc \in {"done", "failed"} /\ nth < Len(session)
      /\ nth' = nth + 1 /\ closed' = FALSE /\ delivered' = <<>> /\ pc' = "read"
      /\ session' = session /\ misread' = FALSE
  BY DEF FullInv, NextExchange, Goes
<1>2. (pc = "done") \/ (closed /\ pos < Len(stream)) \/ misread
  BY <1>1 DEF IInv, Wire, Cut
<1>3. Payload(response)' \in UNION {{Payload(s[j]) : j \in 1 .. Len(s)} : s \in Sessions}
  <2>1. session \in Sessions /\ nth + 1 \in 1 .. Len(session)
    BY <1>1, SessionLength DEF TypeInv
  <2>2. Payload(response)' = Payload(session[nth + 1])
    BY <1>1 DEF response
  <2>3. QED
    BY <2>1, <2>2
<1>4. (closed /\ pos < Len(stream))' = FALSE /\ (pc = "done")' = FALSE
  BY <1>1
<1>5. QED
  BY <1>1, <1>2, <1>3, <1>4 DEF Reader!Again

(* A body that ends with the connection is complete then; any other is cut. *)
LEMMA ReadNothingIs ==
  ASSUME IInv, ReadNothing, ~misread'
  PROVE  Promised
<1>1. /\ TypeInv /\ Wire /\ Fields /\ AtRead
      /\ pc = "read" /\ (closed \/ remain_len = Capacity)
      /\ pc' = IF forced_continue THEN "body" ELSE "done"
      /\ UNCHANGED wireVars /\ delivered' = delivered
  BY DEF IInv, ReadNothing, Goes, loopVars
<1>2. closed
  BY DEF ReadNothing
<1>3. CASE forced_continue
  BY <1>1, <1>3, Unseen
<1>4. CASE ~forced_continue
  <2>1. delivered = payload \/ Cut
    <3>1. CASE pos < Len(stream)
      BY <1>2, <3>1 DEF Cut
    <3>2. CASE ~(pos < Len(stream))
      <4>1. /\ pos \in 0 .. Len(stream) /\ Len(stream) \in Nat /\ HL \in 10 .. 11
            /\ Len(stream) >= HL /\ payload \in Seq(Letters) /\ Len(payload) \in Nat
        <5>1. pos \in 0 .. Len(stream)
          BY <1>1 DEF TypeInv
        <5>2. QED
          BY <1>1, <5>1, ResponseFacts
      <4>2. pos = Len(stream) /\ ~(pos < HL) /\ pos \in Int
        BY <3>2, <4>1
      <4>3. BodyAt(pos)
        BY <1>1, <4>2 DEF AtRead
      <4> ~InChunks
        <5>1. ASSUME InChunks PROVE FALSE
          <6>1. DecoderAt(pos)
            BY <4>3, <5>1 DEF BodyAt
          <6>2. QED
            BY <1>1, <3>2, <4>2, <5>1, <6>1, DecoderShort
        <5>2. QED
          BY <5>1
      <4>4. PlainAt(pos)
        BY <4>3 DEF BodyAt
      <4>5. Len(stream) = HL + Len(payload)
        BY <1>1, PlainLayout
      <4>6. pos - HL = Len(payload)
        BY <4>1, <4>2, <4>5
      <4>7. delivered = First(Len(payload))
        BY <4>4, <4>6 DEF PlainAt
      <4>8. QED
        BY <4>1, <4>7 DEF First
    <3>3. QED
      BY <3>1, <3>2
  <2>2. Reader!End
    BY <1>1, <1>4, <2>1, Ends
  <2>3. QED
    BY <2>2 DEF Promised
<1>5. QED
  BY <1>3, <1>4

(* A read fails only when the server has broken off. *)
LEMMA ReadFailsIs ==
  ASSUME ReadFails
  PROVE  Promised
<1>1. /\ pc = "read" /\ Cut /\ pc' = IF forced_continue THEN "failed" ELSE "done"
      /\ UNCHANGED wireVars /\ delivered' = delivered
  BY DEF ReadFails, Goes, loopVars, Cut
<1>2. CASE forced_continue
  BY <1>1, <1>2, Unseen
<1>3. CASE ~forced_continue
  BY <1>1, <1>3, Ends DEF Promised
<1>4. QED
  BY <1>2, <1>3

(* The loop of http_internal_response. *)
LEMMA LoopIs ==
  ASSUME IInv, IInv', Loop, ~misread'
  PROVE  Promised
<1>1. TypeInv
  BY DEF IInv
<1>9. TypeInv'
  BY DEF IInv
<1>2. CASE ReadNothing
  BY <1>2, ReadNothingIs
<1>3. CASE ReadFails
  BY <1>3, ReadFailsIs
<1>4. CASE HeaderEnd
  <2>1. /\ pc = "header_end" /\ pc' \in {"body", "check"} /\ UNCHANGED wireVars
        /\ \/ delivered' = delivered
           \/ delivered' = delivered \o BytesAt(remain_index, remain_len)
    BY <1>4 DEF HeaderEnd, Goes, Deliver, loopVars
  <2>2. remain_index \in Nat /\ remain_len \in Nat
    BY <1>1, ResponseAssumption DEF TypeInv
  <2>3. QED
    BY <2>1, <2>2, Unseen, Given
<1>5. CASE PlainBody
  <2>1. /\ pc = "body" /\ pc' = "check" /\ UNCHANGED wireVars
        /\ \/ delivered' = delivered
           \/ delivered' = delivered \o BytesAt(0, read_len)
    BY <1>5 DEF PlainBody, Goes, Deliver
  <2>2. 0 \in Nat /\ read_len \in Nat
    BY <1>1, ResponseAssumption DEF TypeInv
  <2>3. QED
    BY <2>1, <2>2, Unseen, Given
<1>6. CASE ReadMore
  <2>1. pc = "check" /\ pc' = "read" /\ UNCHANGED wireVars /\ delivered' = delivered
    BY <1>6 DEF ReadMore, Goes, loopVars
  <2>2. QED
    BY <2>1, Unseen
<1>7. CASE EndOfBody
  <2>1. pc = "check" /\ UNCHANGED wireVars /\ delivered' = delivered
    BY <1>7 DEF EndOfBody, loopVars
  <2>2. pc' = "done" /\ delivered = payload
    BY <1>7, <1>9, EndOfBodyKeeps
  <2>3. QED
    BY <2>1, <2>2, Ends DEF Promised
<1>8. QED
  BY <1>2, <1>3, <1>4, <1>5, <1>6, <1>7 DEF Loop

(* The parser delivers nothing. *)
LEMMA ParserUnseen ==
  ASSUME Parser
  PROVE  Promised
<1>1. /\ pc = "parse" /\ pc' \in {"parse", "read", "crashed", "header_end"}
      /\ UNCHANGED wireVars /\ delivered' = delivered
  BY DEF Parser, KeepRest, FirstLine, HeaderLine, BadLine, BlankLine, NextLine, Goes, loopVars
<1>2. QED
  BY <1>1, Unseen

(* The decoder delivers the data of chunks, and nothing else. *)
LEMMA DecoderIs ==
  ASSUME IInv, IInv', Decoder
  PROVE  Promised
<1>1. TypeInv
  BY DEF IInv
<1>2. UNCHANGED wireVars
  BY DEF Decoder, NothingRead, EnterDecoder, LastChunk, PartOfSize, Size, SeparatorMid, ChunkData,
         SeparatorEnd, Separator
<1>3. CASE NothingRead \/ LastChunk \/ PartOfSize \/ Size
  <2>1. /\ pc \in {"body", "size"} /\ pc' \in {"check", "mid"} /\ delivered' = delivered
    BY <1>3 DEF NothingRead, LastChunk, PartOfSize, Size, Interrupted, Goes, loopVars
  <2>2. QED
    BY <1>2, <2>1, Unseen
<1>4. CASE EnterDecoder
  <2>1. pc = "body" /\ delivered' = delivered
    BY <1>4 DEF EnterDecoder, loopVars
  <2>2. pc' # "done"
    <3>1. pc' = Labels[chunk_terminate_state + 1]
      BY <1>4 DEF EnterDecoder, Goes
    <3>2. chunk_terminate_state + 1 \in 1 .. 4
      BY <1>1 DEF TypeInv
    <3>3. pc' \in {"size", "mid", "chunk", "end"}
      BY <3>1, <3>2, LabelNames
    <3>4. QED
      BY <3>3
  <2>3. QED
    BY <1>2, <2>1, <2>2, Unseen
<1>5. CASE SeparatorMid \/ SeparatorEnd
  <2>1. /\ pc \in {"mid", "end"} /\ pc' \in {"check", "chunk", "size"} /\ delivered' = delivered
    BY <1>5 DEF SeparatorMid, SeparatorEnd, Separator, Consume, Interrupted, Goes
  <2>2. QED
    BY <1>2, <2>1, Unseen
<1>6. CASE ChunkData
  <2> DEFINE n == Min({IF entering THEN chunk_state_remain_byte ELSE chunk_size, len})
  <2>1. /\ pc = "chunk" /\ pc' \in {"check", "end"}
        /\ delivered' = delivered \o BytesAt(idx, n)
    BY <1>6 DEF ChunkData, Consume, Interrupted, Goes, Deliver
  <2>2. idx \in Nat /\ len \in Nat /\ chunk_size \in Nat /\ chunk_state_remain_byte \in Nat
    BY <1>1, ResponseAssumption DEF TypeInv
  <2>3. n \in Nat
    BY <2>2, MinIsLeast
  <2> HIDE DEF n
  <2>4. QED
    BY <1>2, <2>1, <2>2, <2>3, Given
<1>7. QED
  BY <1>3, <1>4, <1>5, <1>6 DEF Decoder

(* What the steps of an exchange that has not gone astray show. *)
LEMMA StepPromised ==
  ASSUME IInv, IInv', Next, ~NextExchange, ~misread'
  PROVE  Promised
<1>1. CASE Receive
  BY <1>1, ReceiveUnseen
<1>2. CASE ServerCloses
  BY <1>2, ClosesIs
<1>3. CASE Loop
  BY <1>3, LoopIs
<1>4. CASE Parser
  BY <1>4, ParserUnseen
<1>5. CASE Decoder
  BY <1>5, DecoderIs
<1>6. QED
  BY <1>1, <1>2, <1>3, <1>4, <1>5 DEF Next

LEMMA StepIs ==
  ASSUME FullInv, FullInv', [Next]_vars
  PROVE  [Reader!Next]_(Reader!vars)
<1>1. misread \in BOOLEAN /\ misread' \in BOOLEAN
  BY DEF FullInv, TypeInv
<1>2. CASE UNCHANGED vars
  <2>1. UNCHANGED <<session, nth, pos, closed, delivered, pc, misread>>
    BY <1>2 DEF vars, wireVars, loopVars
  <2>2. response' = response /\ stream' = stream
    BY <2>1, SameResponse
  <2>3. /\ UNCHANGED Payload(response) /\ UNCHANGED (closed /\ pos < Len(stream))
        /\ UNCHANGED (pc = "done")
    BY <2>1, <2>2
  <2>4. QED
    BY <2>1, <2>3 DEF Reader!vars
<1>3. CASE NextExchange
  BY <1>3, NextExchangeIs DEF Reader!Next
<1>4. CASE Next /\ ~NextExchange /\ misread'
  <2>1. UNCHANGED Payload(response)
    BY <1>4, SameSession, SameResponse
  <2>2. Reader!GoAstray
    BY <1>4, <2>1 DEF Reader!GoAstray
  <2>3. QED
    BY <2>2 DEF Reader!Next
<1>5. CASE Next /\ ~NextExchange /\ ~misread'
  <2>1. ~misread
    BY <1>5, OnceMisread
  <2>2. IInv /\ IInv'
    BY <1>5, <2>1 DEF FullInv
  <2>3. Promised
    BY <1>5, <2>2, StepPromised
  <2>4. CASE UNCHANGED Shown
    <3>1. UNCHANGED misread
      BY <1>1, <1>5, <2>1
    <3>2. QED
      BY <2>4, <3>1 DEF Shown, Reader!vars
  <2>5. CASE Reader!Deliver \/ Reader!BreakOff \/ Reader!End
    BY <1>5, <2>1, <2>5 DEF Reader!Next
  <2>6. QED
    BY <2>3, <2>4, <2>5 DEF Promised
<1>6. QED
  BY <1>2, <1>3, <1>4, <1>5

(* The callbacks get the body in order and complete, and the exchange ends     *)
(* without an error only then, or when the server has broken off, up to the    *)
(* steps that set misread: Response implements Transfer, for all sessions,     *)
(* every size of the buffer and however the stream is cut into reads.          *)
THEOREM Transfers == Spec => ImplementsTransfer
<1>1. Init => Reader!Init
  <2> SUFFICES ASSUME Init PROVE Reader!Init
    OBVIOUS
  <2>1. /\ session \in Sessions /\ nth = 1 /\ closed = FALSE /\ pc = "read" /\ delivered = <<>>
        /\ misread = FALSE
    BY DEF Init
  <2>2. 1 \in 1 .. Len(session) /\ Payload(response) = Payload(session[1])
    BY <2>1, SessionLength DEF response
  <2>3. Payload(response) \in UNION {{Payload(s[j]) : j \in 1 .. Len(s)} : s \in Sessions}
    BY <2>1, <2>2
  <2>4. (closed /\ pos < Len(stream)) = FALSE /\ (pc = "done") = FALSE
    BY <2>1
  <2>5. QED
    BY <2>1, <2>3, <2>4 DEF Reader!Init
<1>2. FullInv /\ FullInv' /\ [Next]_vars => [Reader!Next]_(Reader!vars)
  BY StepIs
<1>3. QED
  BY <1>1, <1>2, Invariance, PTL DEF Spec, ImplementsTransfer, Reader!Spec
=================================================================================
