---------------------------- MODULE CanTxProofs ----------------------------
(***************************************************************************)
(* Proofs about the transmit side of the DroneCAN node, for a pool, a      *)
(* reserve, transfers, budgets and delays of any size the assumption       *)
(* allows: its inductive invariant, and that blocks are accounted for, the *)
(* queue is ordered, telemetry is whole, the reserve is kept and           *)
(* backpressure is reported.                                               *)
(***************************************************************************)
EXTENDS CanTx, RingProofs, FiniteSetTheorems

(* The frames of one stream in a line of frames. *)

\* In a line, i and j hold frames of the stream with none in between; 0 stands for
\* what the receiver has, and the place past the end for what is still to come.
Neighbours(line, s, i, j) ==
  /\ i < j
  /\ i # 0 => line[i].stream = s
  /\ j # Len(line) + 1 => line[j].stream = s
  /\ \A k \in i + 1 .. j - 1 : line[k].stream # s

\* How far into its transfer the stream is after place i; the receiver has g.
Reached(line, g, i) == IF i = 0 THEN g ELSE line[i].index

\* Each frame of the stream goes on with the transfer of the one before it, and
\* the last one completes it; except, with c, after a transfer cut off.
Chain(line, s, g, c) ==
  \A i \in 0 .. Len(line), j \in 1 .. Len(line) + 1 :
    Neighbours(line, s, i, j) =>
      IF j = Len(line) + 1
        THEN Reached(line, g, i) % Frames[s] = 0 \/ c
        ELSE \/ line[j].index = (Reached(line, g, i) % Frames[s]) + 1
             \/ line[j].index = 1 /\ c

\* Some frames have been put into the line at place p.
Inserted(old, new, frames, p) ==
  /\ p \in 1 .. Len(old) + 1
  /\ Len(new) = Len(old) + Len(frames)
  /\ \A k \in 1 .. p - 1 : new[k] = old[k]
  /\ \A k \in 1 .. Len(frames) : new[k + p - 1] = frames[k]
  /\ \A k \in p .. Len(old) : new[k + Len(frames)] = old[k]

\* Some frames have been taken out of the line; f is where the others were, and
\* takes both ends to both ends.
Thinned(old, new, f) ==
  /\ f \in [0 .. Len(new) + 1 -> 0 .. Len(old) + 1]
  /\ f[0] = 0 /\ f[Len(new) + 1] = Len(old) + 1
  /\ \A k, l \in 0 .. Len(new) + 1 : k < l => f[k] < f[l]
  /\ \A k \in 1 .. Len(new) : new[k] = old[f[k]]

\* The places of the frames taken out.
Gone(old, new, f) == {x \in 1 .. Len(old) : \A k \in 1 .. Len(new) : f[k] # x}

-----------------------------------------------------------------------------
(* The inductive invariant. *)

\* No frame is past the end of its transfer.
InRange(line) == \A i \in 1 .. Len(line) : line[i].index <= Frames[line[i].stream]

FramesInRange ==
  InRange(mailbox) /\ InRange(tx_queue) /\ \A s \in Broadcasts : got[s] < Frames[s]

\* The queue is in the order of the identifiers.
Sorted(queue) ==
  \A i, j \in 1 .. Len(queue) : i <= j => CanId[queue[i].stream] <= CanId[queue[j].stream]

\* The measurements of a stream expire in their order, each as a whole.
Rising(queue, s) ==
  /\ \A j \in 1 .. Len(queue) : queue[j].stream = s => queue[j].left <= TX_DEADLINE
  /\ \A i, j \in 1 .. Len(queue) :
       i <= j /\ queue[i].stream = s /\ queue[j].stream = s => queue[i].left <= queue[j].left
  /\ \A i, j \in 1 .. Len(queue) :
       Neighbours(queue, s, i, j) => queue[j].index = 1 \/ queue[i].left = queue[j].left

DeadlinesRise == \A s \in Telemetry : Rising(tx_queue, s)

\* From the receiver through the mailboxes to the end of the queue.
ChainsHold == \A s \in Telemetry : Chain(Line, s, got[s], s \in cut)

\* From the iteration that starts the wait for a reset, no telemetry is queued, and
\* what there is will have expired and been thrown away when the wait ends.
ExpiresFirst ==
  recovery.active /\ (pc \in {"flow", "range", "recover"} => off) =>
    \A i \in 1 .. Len(tx_queue) : tx_queue[i].stream \in Telemetry =>
      IF tx_queue[i].left > 0 THEN tx_queue[i].left + CLEANUP <= recovery.left
                              ELSE cleanup < recovery.left

\* Time passes only after a cleanup has set its next time.
CleanupIsSet ==
  /\ pc \in {"receive", "answer", "status", "transmit", "report"} => cleanup > 0
  /\ pc = "sample" => cleanup > 0 \/ tx_queue = <<>>

\* One of the longer transfers of telemetry.
Longest == IF Frames["range"] > Frames["flow"] THEN "range" ELSE "flow"

\* Telemetry is at the end of the queue: what it takes up there is less than the
\* pool without the reserve, and one transfer.
InTail(queue) ==
  \A i \in 1 .. Len(queue) : queue[i].stream \in Telemetry =>
    Len(queue) - i + 1 < CAPACITY - RESERVE + Frames[Longest]

\* What it says of the frames on their way to the bus.
QueueInv ==
  FramesInRange /\ Sorted(tx_queue) /\ DeadlinesRise /\ ChainsHold /\ InTail(tx_queue)

\* The blocks of the receive states can be counted.
BlocksInv == BlocksAreAccounted /\ IsFiniteSet(RxBlocks(rx_states))

IInv ==
  /\ TypeOK /\ BlocksInv /\ QueueInv /\ TelemetryIsWhole
  /\ ExpiresFirst /\ CleanupIsSet

-----------------------------------------------------------------------------
(* Arithmetic and frames. *)

\* The parts of a frame.
LEMMA FrameParts ==
  ASSUME NEW line \in Seq(Frame)
  PROVE  /\ Len(line) \in Nat /\ DOMAIN line = 1 .. Len(line)
         /\ \A k \in 1 .. Len(line) :
              /\ line[k] \in Frame /\ line[k].stream \in Streams
              /\ line[k].index \in Nat /\ line[k].index > 0 /\ line[k].left \in Nat
<1>1. \A k \in 1 .. Len(line) : line[k] \in Frame
  BY ElementOfSeq
<1> QED
  BY <1>1, LenProperties DEF Frame

\* What has reached the end starts over.
LEMMA Wraps ==
  ASSUME NEW n \in Nat, n > 0, NEW a \in 0 .. n
  PROVE  /\ a % n = IF a = n THEN 0 ELSE a
         /\ (a % n) % n = a % n
<1>1. CASE a = n
  <2>1. n = n * 1 + 0 /\ 0 = n * 0 + 0
    BY <1>1
  <2>2. n % n = 0 /\ 0 % n = 0
    BY <2>1, RemainderIsUnique
  <2> QED
    BY <1>1, <2>2
<1>2. CASE a < n
  <2>1. a = n * 0 + a
    BY <1>2
  <2>2. a % n = a
    BY <1>2, <2>1, RemainderIsUnique
  <2> QED
    BY <1>2, <2>2
<1> QED
  BY <1>1, <1>2

-----------------------------------------------------------------------------
(* Frames put in. *)

\* Two sequences of known lengths, one after the other.
LEMMA Concatenation ==
  ASSUME NEW S, NEW s \in Seq(S), NEW t \in Seq(S), NEW a, NEW b, Len(s) = a, Len(t) = b
  PROVE  /\ s \o t \in Seq(S) /\ Len(s \o t) = a + b
         /\ \A k \in 1 .. a + b : (s \o t)[k] = IF k <= a THEN s[k] ELSE t[k - a]
BY ConcatProperties

\* pushTxQueue puts the frames side by side behind all it does not beat, and
\* before one it does.
LEMMA PushInserts ==
  ASSUME NEW queue \in Seq(Frame), NEW frames \in Seq(Frame), Len(frames) > 0
  PROVE  /\ Push(queue, frames) \in Seq(Frame)
         /\ \E p \in 1 .. Len(queue) + 1 :
              /\ Inserted(queue, Push(queue, frames), frames, p)
              /\ \A k \in 1 .. p - 1 : ~Behind(queue[k], frames[1])
              /\ p <= Len(queue) => Behind(queue[p], frames[1])
<1> DEFINE beaten == {i \in DOMAIN queue : Behind(queue[i], frames[1])}
           place  == IF beaten = {} THEN Len(queue) + 1
                     ELSE CHOOSE i \in beaten : \A j \in beaten : i <= j
           n == Len(queue)
           m == Len(frames)
           pre == SubSeq(queue, 1, place - 1)
           post == SubSeq(queue, place, n)
<1>1. /\ n \in Nat /\ m \in Nat /\ DOMAIN queue = 1 .. n
      /\ \A k \in 1 .. n : queue[k] \in Frame
  BY LenProperties, ElementOfSeq
<1>2. /\ place \in 1 .. n + 1
      /\ \A k \in 1 .. place - 1 : ~Behind(queue[k], frames[1])
      /\ place <= n => Behind(queue[place], frames[1])
  <2>1. CASE beaten = {}
    BY <1>1, <2>1
  <2>2. CASE beaten # {}
    <3>1. beaten \in SUBSET Nat
      BY <1>1
    <3>2. \E i \in beaten : \A j \in beaten : i <= j
      <4> HIDE DEF beaten
      <4> QED
        BY <2>2, <3>1, LeastElement
    <3>3. place \in beaten /\ \A j \in beaten : place <= j
      <4> HIDE DEF beaten
      <4> QED
        BY <2>2, <3>2
    <3>4. place \in 1 .. n /\ Behind(queue[place], frames[1])
      BY <1>1, <3>3
    <3>5. ASSUME NEW k \in 1 .. place - 1
          PROVE  ~Behind(queue[k], frames[1])
      <4>1. k \in 1 .. n /\ ~(place <= k)
        BY <1>1, <3>4
      <4>2. k \notin beaten
        BY <3>3, <4>1
      <4> QED
        BY <1>1, <4>1, <4>2
    <3> QED
      BY <1>1, <3>4, <3>5
  <2> QED
    BY <2>1, <2>2
<1> HIDE DEF place, n, m
<1>3. /\ pre \in Seq(Frame) /\ Len(pre) = place - 1
      /\ \A k \in 1 .. place - 1 : pre[k] = queue[k]
  <2>1. \A k \in 1 .. place - 1 : queue[k] \in Frame
    BY <1>1, <1>2
  <2> QED
    BY <1>1, <1>2, <2>1, SubSeqProperties
<1>4. /\ post \in Seq(Frame) /\ Len(post) = n - place + 1
      /\ \A k \in 1 .. n - place + 1 : post[k] = queue[place + k - 1]
  <2>1. \A k \in place .. n : queue[k] \in Frame
    BY <1>1, <1>2
  <2> QED
    BY <1>1, <1>2, <2>1, SubSeqProperties
<1> HIDE DEF pre, post
<1>5. /\ pre \o frames \in Seq(Frame) /\ Len(pre \o frames) = place - 1 + m
      /\ \A k \in 1 .. place - 1 + m :
           (pre \o frames)[k] = IF k <= place - 1 THEN pre[k] ELSE frames[k - (place - 1)]
  <2>1. Len(frames) = m
    BY DEF m
  <2> QED
    BY <1>3, <2>1, Concatenation
<1> DEFINE both == pre \o frames
           new == both \o post
<1>6. /\ new \in Seq(Frame) /\ Len(new) = n + m
      /\ \A k \in 1 .. n + m :
           new[k] = IF k <= place - 1 + m THEN both[k] ELSE post[k - (place - 1 + m)]
  <2>1. place - 1 + m + (n - place + 1) = n + m
    BY <1>1, <1>2
  <2> HIDE DEF both
  <2>2. both \in Seq(Frame) /\ Len(both) = place - 1 + m
    BY <1>5 DEF both
  <2> QED
    BY <1>4, <2>1, <2>2, Concatenation
<1>7. Push(queue, frames) = new
  BY DEF Push, place, pre, post, n
<1>8. ASSUME NEW k \in 1 .. place - 1
      PROVE  new[k] = queue[k]
  <2>1. k \in 1 .. n + m /\ k \in 1 .. place - 1 + m
    BY <1>1, <1>2
  <2> HIDE DEF new
  <2> QED
    BY <1>3, <1>5, <1>6, <2>1
<1>9. ASSUME NEW k \in 1 .. m
      PROVE  new[k + place - 1] = frames[k]
  <2> DEFINE l == k + place - 1
  <2>1. /\ l \in 1 .. n + m /\ l \in 1 .. place - 1 + m
        /\ ~(l <= place - 1) /\ l - (place - 1) = k /\ l <= place - 1 + m
    BY <1>1, <1>2
  <2> HIDE DEF new, l
  <2>2. new[l] = both[l]
    BY <1>6, <2>1
  <2>3. both[l] = frames[k]
    BY <1>5, <2>1
  <2> QED
    BY <2>2, <2>3 DEF l
<1>10. ASSUME NEW k \in place .. n
       PROVE  new[k + m] = queue[k]
  <2> DEFINE l == k + m
             x == k - place + 1
  <2>1. /\ l \in 1 .. n + m /\ ~(l <= place - 1 + m) /\ l - (place - 1 + m) = x
        /\ x \in 1 .. n - place + 1 /\ place + x - 1 = k
    BY <1>1, <1>2
  <2> HIDE DEF new, l, x
  <2>2. new[l] = post[x]
    BY <1>6, <2>1
  <2>3. post[x] = queue[k]
    BY <1>4, <2>1
  <2> QED
    BY <2>2, <2>3 DEF l
<1>11. Inserted(queue, new, frames, place)
  BY <1>2, <1>6, <1>8, <1>9, <1>10 DEF Inserted, n, m
<1> QED
  BY <1>2, <1>6, <1>7, <1>11 DEF n

-----------------------------------------------------------------------------
(* Frames taken out. *)

\* The rank of a place counts the places up to it: that numbers the places, in
\* their order.
LEMMA Ranks ==
  ASSUME NEW n \in Nat, NEW places \in SUBSET (1 .. n)
  PROVE  LET rank(i) == Cardinality({j \in places : j <= i})
             m == Cardinality(places)
         IN  /\ m \in 0 .. n
             /\ Cardinality((1 .. n) \ places) = n - m
             /\ \A i \in places : rank(i) \in 1 .. m
             /\ \A i, j \in places : i < j => rank(i) < rank(j)
             /\ \A k \in 1 .. m : \E i \in places : rank(i) = k
<1> DEFINE low(i) == {j \in places : j <= i}
           rank == [i \in places |-> Cardinality(low(i))]
           m == Cardinality(places)
<1>1. /\ IsFiniteSet(1 .. n) /\ Cardinality(1 .. n) = n
      /\ IsFiniteSet(places) /\ m \in Nat /\ m <= n
  <2>1. IsFiniteSet(1 .. n) /\ Cardinality(1 .. n) = n
    BY FS_Interval
  <2>2. IsFiniteSet(places) /\ m <= Cardinality(1 .. n)
    BY <2>1, FS_Subset
  <2> QED
    BY <2>1, <2>2, FS_CardinalityType
<1>2. Cardinality((1 .. n) \ places) = n - m
  <2>1. (1 .. n) \cap places = places
    OBVIOUS
  <2>2. Cardinality((1 .. n) \ places) = Cardinality(1 .. n) - Cardinality((1 .. n) \cap places)
    BY <1>1, FS_Difference, Zenon
  <2>3. Cardinality((1 .. n) \cap places) = m
    BY <2>1, Zenon
  <2> QED
    BY <1>1, <2>2, <2>3
<1>3. ASSUME NEW i \in places
      PROVE  /\ low(i) \in SUBSET places /\ IsFiniteSet(low(i))
             /\ rank[i] \in 1 .. m /\ rank[i] = Cardinality(low(i))
  <2>1. i \in Int /\ i \in low(i)
    OBVIOUS
  <2>2. low(i) \in SUBSET places
    OBVIOUS
  <2>3. /\ IsFiniteSet(low(i)) /\ Cardinality(low(i)) <= m
        /\ Cardinality(low(i)) \in Nat
    BY <1>1, <2>2, FS_Subset, FS_CardinalityType
  <2>4. Cardinality(low(i)) # 0
    BY <2>1, <2>3, FS_EmptySet
  <2> QED
    BY <1>1, <2>2, <2>3, <2>4
<1>4. ASSUME NEW i \in places, NEW j \in places, i < j
      PROVE  rank[i] < rank[j]
  <2>1. i \in Int /\ j \in Int
    OBVIOUS
  <2>2. low(i) \in SUBSET low(j) /\ j \in low(j) /\ j \notin low(i)
    <3>1. ASSUME NEW x \in low(i)
          PROVE  x \in low(j)
      <4>1. x \in places /\ x \in Int /\ x <= i
        OBVIOUS
      <4> QED
        BY <1>4, <2>1, <4>1
    <3>2. j <= j /\ ~(j <= i)
      BY <1>4, <2>1
    <3>3. j \in low(j) /\ j \notin low(i)
      BY <3>2
    <3> HIDE DEF low
    <3> QED
      BY <3>1, <3>3
  <2>3. Cardinality(low(i)) <= Cardinality(low(j)) /\ Cardinality(low(i)) # Cardinality(low(j))
    <3> HIDE DEF low
    <3> QED
      BY <1>3, <2>2, FS_Subset
  <2> HIDE DEF low, rank
  <2> QED
    BY <1>1, <1>3, <2>3
<1> HIDE DEF low, rank
<1>5. rank \in Injection(places, 1 .. m)
  <2>1. rank \in [places -> 1 .. m]
    <3>1. DOMAIN rank = places /\ rank = [i \in DOMAIN rank |-> rank[i]]
      BY DEF rank
    <3> QED
      BY <1>3, <3>1
  <2>2. ASSUME NEW i \in places, NEW j \in places, rank[i] = rank[j]
        PROVE  i = j
    <3>1. i \in Int /\ j \in Int /\ rank[i] \in Int
      BY <1>1, <1>3
    <3> QED
      BY <1>4, <2>2, <3>1
  <2> QED
    BY <2>1, <2>2 DEF Injection, IsInjective
<1>6. rank \in Surjection(places, 1 .. m)
  <2>1. IsFiniteSet(1 .. m) /\ Cardinality(1 .. m) = m
    BY <1>1, FS_Interval
  <2> QED
    BY <1>5, <2>1, FS_Injection
<1>7. \A k \in 1 .. m : \E i \in places : rank[i] = k
  BY <1>6 DEF Surjection
<1>8. \A i \in places : rank[i] = Cardinality({j \in places : j <= i})
  BY <1>3 DEF low
<1> HIDE DEF m
<1>9. /\ m \in 0 .. n
      /\ \A i \in places : rank[i] \in 1 .. m
      /\ \A i, j \in places : i < j => rank[i] < rank[j]
  BY <1>1, <1>3, <1>4
<1> QED
  BY <1>2, <1>7, <1>8, <1>9 DEF m

\* Keeping the frames at some places takes out the others and no more.
LEMMA KeptThins ==
  ASSUME NEW queue \in Seq(Frame), NEW places \in SUBSET (1 .. Len(queue))
  PROVE  /\ Kept(queue, places) \in Seq(Frame)
         /\ Len(Kept(queue, places)) = Len(queue) - Cardinality((1 .. Len(queue)) \ places)
         /\ \E f : /\ Thinned(queue, Kept(queue, places), f)
                   /\ Gone(queue, Kept(queue, places), f) = (1 .. Len(queue)) \ places
<1> DEFINE n == Len(queue)
           m == Cardinality(places)
           rank == [i \in places |-> Cardinality({j \in places : j <= i})]
           pick(k) == CHOOSE i \in places : Cardinality({j \in places : j <= i}) = k
           g == [k \in 1 .. m |-> pick(k)]
           new == Kept(queue, places)
           f == [k \in 0 .. m + 1 |-> IF k = 0 THEN 0 ELSE IF k = m + 1 THEN n + 1 ELSE g[k]]
<1>0. n \in Nat /\ \A i \in 1 .. n : queue[i] \in Frame
  BY LenProperties, ElementOfSeq
<1>1. /\ m \in 0 .. n
      /\ Cardinality((1 .. n) \ places) = n - m
      /\ \A i \in places : rank[i] \in 1 .. m
      /\ \A i, j \in places : i < j => rank[i] < rank[j]
      /\ \A k \in 1 .. m : \E i \in places : rank[i] = k
  <2>1. \A i \in places : rank[i] = Cardinality({j \in places : j <= i})
    OBVIOUS
  <2>2. /\ m \in 0 .. n
        /\ Cardinality((1 .. n) \ places) = n - m
        /\ \A i \in places : Cardinality({j \in places : j <= i}) \in 1 .. m
        /\ \A i, j \in places : i < j => Cardinality({x \in places : x <= i})
                                           < Cardinality({x \in places : x <= j})
        /\ \A k \in 1 .. m : \E i \in places : Cardinality({j \in places : j <= i}) = k
    BY <1>0, Ranks
  <2> HIDE DEF rank, m, n
  <2> QED
    BY <2>1, <2>2
<1>2. new = [k \in 1 .. m |-> queue[pick(k)]]
  BY DEF Kept
<1>3. ASSUME NEW k \in 1 .. m
      PROVE  g[k] \in places /\ rank[g[k]] = k
  <2>1. PICK i \in places : rank[i] = k
    BY <1>1
  <2>2. Cardinality({j \in places : j <= i}) = k
    BY <2>1
  <2>3. pick(k) \in places /\ Cardinality({j \in places : j <= pick(k)}) = k
    BY <2>2
  <2>4. g[k] = pick(k)
    OBVIOUS
  <2> HIDE DEF pick, g
  <2> QED
    BY <2>3, <2>4
<1>4. \A k \in 1 .. m : new[k] = queue[g[k]]
  <2> HIDE DEF pick
  <2> QED
    BY <1>2
<1> HIDE DEF m, rank, pick, g, new, n
<1>5. /\ places \subseteq 1 .. n
      /\ \A i \in places : i \in 1 .. n /\ i \in Int /\ rank[i] \in Int
  BY <1>0, <1>1 DEF n
<1>6. new \in Seq(Frame) /\ Len(new) = m
  <2>1. \A k \in 1 .. m : queue[pick(k)] \in Frame
    BY <1>0, <1>3, <1>5 DEF g
  <2>2. m \in Nat
    BY <1>0, <1>1
  <2> QED
    BY <1>2, <2>1, <2>2, IsASeq
<1>7. ASSUME NEW k \in 1 .. m, NEW l \in 1 .. m, k < l
      PROVE  g[k] < g[l]
  <2>1. /\ g[k] \in places /\ g[l] \in places /\ rank[g[k]] = k /\ rank[g[l]] = l
        /\ g[k] \in Int /\ g[l] \in Int
    BY <1>3, <1>5
  <2>2. CASE g[l] < g[k]
    BY <1>1, <1>7, <2>1, <2>2
  <2>3. CASE g[l] = g[k]
    BY <1>7, <2>1, <2>3
  <2> QED
    BY <2>1, <2>2, <2>3
<1>8. Thinned(queue, new, f)
  <2>1. m \in Nat /\ n \in Nat /\ \A k \in 1 .. m : g[k] \in 1 .. n
    <3>1. \A k \in 1 .. m : g[k] \in 1 .. n
      BY <1>3, <1>5, Zenon
    <3> QED
      BY <1>0, <1>1, <3>1
  <2>2. f \in [0 .. m + 1 -> 0 .. n + 1]
    BY <2>1
  <2>3. f[0] = 0 /\ f[m + 1] = n + 1
    BY <2>1
  <2>4. \A k \in 1 .. m : f[k] = g[k]
    BY <2>1
  <2>5. ASSUME NEW k \in 0 .. m + 1, NEW l \in 0 .. m + 1, k < l
        PROVE  f[k] < f[l]
    <3>1. CASE k = 0
      BY <2>1, <2>3, <2>4, <2>5, <3>1
    <3>2. CASE l = m + 1
      BY <2>1, <2>3, <2>4, <2>5, <3>2
    <3>3. CASE k # 0 /\ l # m + 1
      <4>1. k \in 1 .. m /\ l \in 1 .. m
        BY <2>1, <2>5, <3>3
      <4> QED
        BY <1>7, <2>4, <2>5, <4>1
    <3> QED
      BY <3>1, <3>2, <3>3
  <2>6. \A k \in 1 .. m : new[k] = queue[f[k]]
    BY <1>4, <2>4
  <2> HIDE DEF f
  <2> QED
    BY <1>6, <2>2, <2>3, <2>5, <2>6 DEF Thinned, n
<1>9. Gone(queue, new, f) = (1 .. n) \ places
  <2>1. ASSUME NEW x \in 1 .. n
        PROVE  (\A k \in 1 .. m : f[k] # x) <=> x \notin places
    <3>1. \A k \in 1 .. m : f[k] = g[k]
      BY <1>0, <1>1
    <3>2. ASSUME x \in places
          PROVE  \E k \in 1 .. m : f[k] = x
      <4>1. rank[x] \in 1 .. m
        BY <1>1, <3>2
      <4>2. g[rank[x]] \in places /\ rank[g[rank[x]]] = rank[x] /\ g[rank[x]] \in Int /\ x \in Int
        BY <1>3, <1>5, <3>2, <4>1
      <4>3. g[rank[x]] = x
        <5>1. CASE g[rank[x]] < x
          BY <1>1, <1>5, <3>2, <4>2, <5>1
        <5>2. CASE x < g[rank[x]]
          BY <1>1, <1>5, <3>2, <4>2, <5>2
        <5> QED
          BY <4>2, <5>1, <5>2
      <4> QED
        BY <3>1, <4>1, <4>3
    <3> HIDE DEF f
    <3> QED
      BY <1>3, <3>1, <3>2
  <2> HIDE DEF f
  <2> QED
    BY <1>6, <2>1 DEF Gone, n
<1>10. Cardinality((1 .. n) \ places) \in Int /\ m = n - Cardinality((1 .. n) \ places)
  BY <1>0, <1>1
<1> HIDE DEF f
<1> QED
  BY <1>6, <1>8, <1>9, <1>10 DEF new, n

-----------------------------------------------------------------------------
(* Chains. *)

\* Every place of a stream has a neighbour before it.
LEMMA NeighbourBefore ==
  ASSUME NEW line \in Seq(Frame), NEW s \in Streams, NEW j \in 1 .. Len(line) + 1,
         j # Len(line) + 1 => line[j].stream = s
  PROVE  \E i \in 0 .. j - 1 : Neighbours(line, s, i, j)
<1> DEFINE T == {i \in 1 .. j - 1 : line[i].stream = s}
<1>0. Len(line) \in Nat /\ j \in Nat /\ j >= 1
  BY LenProperties
<1>1. CASE T = {}
  <2>1. Neighbours(line, s, 0, j)
    BY <1>0, <1>1 DEF Neighbours
  <2>2. 0 \in 0 .. j - 1
    BY <1>0
  <2> QED
    BY <2>1, <2>2
<1>2. CASE T # {}
  <2>1. T \in SUBSET Nat /\ \A i \in T : i <= j
    BY <1>0
  <2>2. PICK i \in T : \A x \in T : x <= i
    <3> HIDE DEF T
    <3> QED
      BY <1>0, <1>2, <2>1, GreatestElement
  <2>3. i \in 1 .. j - 1 /\ line[i].stream = s
    BY <2>2
  <2>4. ASSUME NEW k \in i + 1 .. j - 1
        PROVE  line[k].stream # s
    <3>1. k \in 1 .. j - 1 /\ ~(k <= i)
      BY <1>0, <2>3
    <3>2. k \notin T
      BY <2>2, <3>1
    <3> QED
      BY <3>1, <3>2
  <2>5. Neighbours(line, s, i, j)
    BY <1>0, <2>3, <2>4 DEF Neighbours
  <2> QED
    BY <1>0, <2>3, <2>5
<1> QED
  BY <1>1, <1>2

\* And, within a line, one after it.
LEMMA NeighbourAfter ==
  ASSUME NEW line \in Seq(Frame), NEW s \in Streams, NEW i \in 0 .. Len(line),
         i # 0 => line[i].stream = s
  PROVE  \E j \in i + 1 .. Len(line) + 1 : Neighbours(line, s, i, j)
<1> DEFINE T == {j \in i + 1 .. Len(line) : line[j].stream = s}
<1>0. Len(line) \in Nat /\ i \in Nat
  BY LenProperties
<1>1. CASE T = {}
  <2>1. Neighbours(line, s, i, Len(line) + 1)
    BY <1>0, <1>1 DEF Neighbours
  <2>2. Len(line) + 1 \in i + 1 .. Len(line) + 1
    BY <1>0
  <2> QED
    BY <2>1, <2>2
<1>2. CASE T # {}
  <2>1. T \in SUBSET Nat
    BY <1>0
  <2>2. PICK j \in T : \A x \in T : j <= x
    <3> HIDE DEF T
    <3> QED
      BY <1>2, <2>1, LeastElement
  <2>3. j \in i + 1 .. Len(line) /\ line[j].stream = s
    BY <2>2
  <2>4. ASSUME NEW k \in i + 1 .. j - 1
        PROVE  line[k].stream # s
    <3>1. k \in i + 1 .. Len(line) /\ ~(j <= k)
      BY <1>0, <2>3
    <3>2. k \notin T
      BY <2>2, <3>1
    <3> QED
      BY <3>1, <3>2
  <2>5. Neighbours(line, s, i, j)
    BY <1>0, <2>3, <2>4 DEF Neighbours
  <2> QED
    BY <1>0, <2>3, <2>5
<1> QED
  BY <1>1, <1>2

\* A chain is about the streams and the indices alone.
LEMMA ChainOfSame ==
  ASSUME NEW line \in Seq(Frame), NEW new \in Seq(Frame), NEW s \in Streams, NEW g, NEW c,
         Len(new) = Len(line),
         \A k \in 1 .. Len(line) : new[k].stream = line[k].stream /\ new[k].index = line[k].index,
         Chain(line, s, g, c)
  PROVE  Chain(new, s, g, c)
<1>0. Len(line) \in Nat
  BY LenProperties
<1> SUFFICES ASSUME NEW i \in 0 .. Len(new), NEW j \in 1 .. Len(new) + 1,
                    Neighbours(new, s, i, j)
             PROVE  IF j = Len(new) + 1
                      THEN Reached(new, g, i) % Frames[s] = 0 \/ c
                      ELSE \/ new[j].index = (Reached(new, g, i) % Frames[s]) + 1
                           \/ new[j].index = 1 /\ c
  BY DEF Chain
<1>1. /\ i \in 0 .. Len(line) /\ j \in 1 .. Len(line) + 1
      /\ i # 0 => i \in 1 .. Len(line)
      /\ j # Len(line) + 1 => j \in 1 .. Len(line)
  BY <1>0
<1>2. Neighbours(line, s, i, j)
  <2>1. \A k \in i + 1 .. j - 1 : k \in 1 .. Len(line)
    BY <1>0, <1>1
  <2> QED
    BY <1>1, <2>1 DEF Neighbours
<1>3. Reached(new, g, i) = Reached(line, g, i)
  BY <1>1 DEF Reached
<1> QED
  BY <1>1, <1>2, <1>3 DEF Chain

\* The receiver takes the first frame.
LEMMA ChainOfTail ==
  ASSUME NEW line \in Seq(Frame), NEW s \in Streams, NEW g \in Nat, NEW h \in Nat, NEW c,
         line # <<>>, Frames[s] \in Nat, Frames[s] > 0,
         IF line[1].stream = s THEN h = line[1].index % Frames[s] ELSE h = g,
         line[1].index <= Frames[line[1].stream],
         Chain(line, s, g, c)
  PROVE  Chain(Tail(line), s, h, c)
<1> DEFINE new == Tail(line)
<1>0. /\ Len(line) \in Nat /\ Len(line) >= 1 /\ line[1] \in Frame /\ line[1].index \in Nat
      /\ new \in Seq(Frame) /\ Len(new) = Len(line) - 1
      /\ \A k \in 1 .. Len(line) - 1 : new[k] = line[k + 1]
  <2>1. Len(line) \in Nat /\ Len(line) >= 1
    BY EmptySeq, LenProperties
  <2>2. line[1] \in Frame /\ line[1].index \in Nat
    BY <2>1, FrameParts
  <2>3. new \in Seq(Frame) /\ Len(new) = Len(line) - 1
    BY HeadTailProperties
  <2>4. \A k \in 1 .. Len(new) : new[k] = line[k + 1]
    BY HeadTailProperties
  <2> HIDE DEF new
  <2> QED
    BY <2>1, <2>2, <2>3, <2>4
<1> HIDE DEF new
<1> SUFFICES ASSUME NEW i \in 0 .. Len(new), NEW j \in 1 .. Len(new) + 1,
                    Neighbours(new, s, i, j)
             PROVE  IF j = Len(new) + 1
                      THEN Reached(new, h, i) % Frames[s] = 0 \/ c
                      ELSE \/ new[j].index = (Reached(new, h, i) % Frames[s]) + 1
                           \/ new[j].index = 1 /\ c
  BY DEF Chain, new
<1> DEFINE i1 == IF i = 0 /\ line[1].stream # s THEN 0 ELSE i + 1
           j1 == j + 1
<1>1. /\ i1 \in 0 .. Len(line) /\ j1 \in 1 .. Len(line) + 1 /\ i1 \in Int /\ j1 \in Int
      /\ j1 = Len(line) + 1 <=> j = Len(new) + 1
      /\ i # 0 => i1 = i + 1 /\ new[i] = line[i1]
      /\ j # Len(new) + 1 => new[j] = line[j1]
  <2>1. i \in Int /\ j \in Int /\ i < j
    BY <1>0 DEF Neighbours
  <2>2. i1 \in 0 .. Len(line) /\ j1 \in 1 .. Len(line) + 1 /\ i1 \in Int /\ j1 \in Int
    BY <1>0, <2>1
  <2>3. j1 = Len(line) + 1 <=> j = Len(new) + 1
    BY <1>0, <2>1
  <2>4. i # 0 => i1 = i + 1 /\ new[i] = line[i + 1]
    <3>1. i # 0 => i \in 1 .. Len(line) - 1
      BY <1>0, <2>1
    <3> QED
      BY <1>0, <2>1, <3>1
  <2>5. j # Len(new) + 1 => new[j] = line[j1]
    BY <1>0, <2>1
  <2> QED
    BY <2>2, <2>3, <2>4, <2>5
<1>2. Neighbours(line, s, i1, j1)
  <2>1. i1 < j1
    BY <1>0 DEF Neighbours
  <2>2. i1 # 0 => line[i1].stream = s
    BY <1>0, <1>1 DEF Neighbours
  <2>3. j1 # Len(line) + 1 => line[j1].stream = s
    BY <1>1 DEF Neighbours
  <2>4. ASSUME NEW k \in i1 + 1 .. j1 - 1
        PROVE  line[k].stream # s
    <3>1. CASE k = 1
      BY <1>0, <3>1
    <3>2. CASE k # 1
      <4>1. k - 1 \in i + 1 .. j - 1 /\ k - 1 \in 1 .. Len(line) - 1 /\ (k - 1) + 1 = k
        BY <1>0, <1>1, <3>2
      <4>2. new[k - 1] = line[k]
        <5> DEFINE l == k - 1
        <5> HIDE DEF l
        <5>1. l \in 1 .. Len(line) - 1 /\ l + 1 = k
          BY <4>1 DEF l
        <5>2. new[l] = line[k]
          BY <1>0, <5>1
        <5> QED
          BY <5>2 DEF l
      <4> QED
        BY <4>1, <4>2 DEF Neighbours
    <3> QED
      BY <3>1, <3>2
  <2> HIDE DEF i1, j1
  <2> QED
    BY <2>1, <2>2, <2>3, <2>4 DEF Neighbours
<1>3. Reached(new, h, i) % Frames[s] = Reached(line, g, i1) % Frames[s]
  <2>1. CASE i # 0
    BY <1>1, <2>1, <1>0 DEF Reached
  <2>2. CASE i = 0 /\ line[1].stream # s
    BY <2>2 DEF Reached
  <2>3. CASE i = 0 /\ line[1].stream = s
    <3>1. Reached(new, h, i) = line[1].index % Frames[s] /\ Reached(line, g, i1) = line[1].index
      BY <2>3 DEF Reached
    <3>2. (line[1].index % Frames[s]) % Frames[s] = line[1].index % Frames[s]
      <4>1. line[1].index \in 0 .. Frames[s]
        BY <1>0, <2>3
      <4> QED
        BY <4>1, Wraps
    <3> QED
      BY <3>1, <3>2
  <2> QED
    BY <2>1, <2>2, <2>3
<1> HIDE DEF i1, j1
<1>4. IF j1 = Len(line) + 1
        THEN Reached(line, g, i1) % Frames[s] = 0 \/ c
        ELSE \/ line[j1].index = (Reached(line, g, i1) % Frames[s]) + 1
             \/ line[j1].index = 1 /\ c
  BY <1>1, <1>2 DEF Chain
<1> QED
  BY <1>1, <1>3, <1>4

\* These frames are a whole transfer of the stream.
Transfer(frames, s) ==
  /\ Len(frames) = Frames[s]
  /\ \A k \in 1 .. Frames[s] : frames[k].stream = s /\ frames[k].index = k

\* From place p on there is no frame of the stream.
NoneFrom(line, s, p) == \A k \in p .. Len(line) : line[k].stream # s

\* Where the frames of a line with some put in come from.
Origins(old, new, frames, p) ==
  \A x \in 1 .. Len(new) :
    \/ x < p /\ x \in 1 .. Len(old) /\ new[x] = old[x]
    \/ /\ p <= x /\ x < p + Len(frames)
       /\ x - p + 1 \in 1 .. Len(frames) /\ new[x] = frames[x - p + 1]
    \/ /\ p + Len(frames) <= x
       /\ x - Len(frames) \in p .. Len(old) /\ new[x] = old[x - Len(frames)]

LEMMA InsertedPlaces ==
  ASSUME NEW old \in Seq(Frame), NEW new \in Seq(Frame), NEW frames \in Seq(Frame), NEW p \in Int,
         Inserted(old, new, frames, p)
  PROVE  /\ p \in 1 .. Len(old) + 1 /\ Len(new) = Len(old) + Len(frames)
         /\ Origins(old, new, frames, p)
<1> DEFINE m == Len(frames)
<1>0. Len(old) \in Nat /\ m \in Nat /\ p \in 1 .. Len(old) + 1 /\ Len(new) = Len(old) + m
  BY LenProperties DEF Inserted
<1>1. ASSUME NEW x \in 1 .. Len(new), x < p
      PROVE  x \in 1 .. Len(old) /\ new[x] = old[x]
  BY <1>0, <1>1 DEF Inserted
<1>2. ASSUME NEW x \in 1 .. Len(new), p <= x, x < p + m
      PROVE  x - p + 1 \in 1 .. m /\ new[x] = frames[x - p + 1]
  <2> DEFINE k == x - p + 1
  <2>1. k \in 1 .. m /\ k + p - 1 = x
    BY <1>0, <1>2
  <2> HIDE DEF k
  <2>2. new[k + p - 1] = frames[k]
    BY <2>1 DEF Inserted
  <2> QED
    BY <2>1, <2>2 DEF k
<1>3. ASSUME NEW x \in 1 .. Len(new), p + m <= x
      PROVE  x - m \in p .. Len(old) /\ new[x] = old[x - m]
  <2> DEFINE k == x - m
  <2>1. k \in p .. Len(old) /\ k + m = x
    BY <1>0, <1>3
  <2> HIDE DEF k
  <2>2. new[k + m] = old[k]
    BY <2>1 DEF Inserted
  <2> QED
    BY <2>1, <2>2 DEF k
<1>4. ASSUME NEW x \in 1 .. Len(new)
      PROVE  \/ x < p
             \/ p <= x /\ x < p + m
             \/ p + m <= x
  BY <1>0
<1>5. Origins(old, new, frames, p)
  BY <1>1, <1>2, <1>3, <1>4 DEF Origins
<1> QED
  BY <1>0, <1>5

\* Where a frame was before others were put in, and that frames of other streams
\* keep neighbours neighbours.
Back(p, m, x) == IF x < p THEN x ELSE x - m

LEMMA NeighboursOfOthers ==
  ASSUME NEW old \in Seq(Frame), NEW new \in Seq(Frame), NEW frames \in Seq(Frame), NEW p \in Int,
         Inserted(old, new, frames, p), NEW s \in Streams,
         \A k \in 1 .. Len(frames) : frames[k].stream # s
  PROVE  LET back(x) == Back(p, Len(frames), x)
         IN  /\ \A x \in 1 .. Len(new) : new[x].stream = s =>
                  back(x) \in 1 .. Len(old) /\ new[x] = old[back(x)]
             /\ \A x, y \in 1 .. Len(new) :
                  new[x].stream = s /\ new[y].stream = s /\ x <= y => back(x) <= back(y)
             /\ \A i \in 0 .. Len(new), j \in 1 .. Len(new) + 1 :
                  Neighbours(new, s, i, j) =>
                    /\ back(i) \in 0 .. Len(old) /\ back(j) \in 1 .. Len(old) + 1
                    /\ i = 0 <=> back(i) = 0
                    /\ j = Len(new) + 1 <=> back(j) = Len(old) + 1
                    /\ i # 0 => new[i] = old[back(i)]
                    /\ j # Len(new) + 1 => new[j] = old[back(j)]
                    /\ Neighbours(old, s, back(i), back(j))
<1> DEFINE m == Len(frames)
           back(x) == Back(p, m, x)
<1>0. /\ Len(old) \in Nat /\ m \in Nat /\ p \in 1 .. Len(old) + 1 /\ Len(new) = Len(old) + m
      /\ p \in Int
  BY LenProperties DEF Inserted
<1>9. Origins(old, new, frames, p)
  BY InsertedPlaces
<1>9a. \A x \in 1 .. Len(new) :
         \/ x < p /\ x \in 1 .. Len(old) /\ new[x] = old[x]
         \/ /\ p <= x /\ x < p + m
            /\ x - p + 1 \in 1 .. m /\ new[x] = frames[x - p + 1]
         \/ /\ p + m <= x
            /\ x - m \in p .. Len(old) /\ new[x] = old[x - m]
  BY <1>9 DEF Origins
<1> HIDE DEF m
<1>1. \A x \in 1 .. Len(new) :
         \/ x < p /\ x \in 1 .. Len(old) /\ new[x] = old[x]
         \/ p <= x /\ x < p + m /\ new[x].stream # s
         \/ p + m <= x /\ x - m \in p .. Len(old) /\ new[x] = old[x - m]
  <2> \A k \in 1 .. m : frames[k].stream # s
    BY DEF m
  <2> QED
    BY <1>9a
<1>5. \A x \in 1 .. Len(new) : new[x].stream = s => x < p \/ p + m <= x
  BY <1>1
<1> USE DEF Back
<1>2. ASSUME NEW x \in 1 .. Len(new), new[x].stream = s
      PROVE  back(x) \in 1 .. Len(old) /\ new[x] = old[back(x)]
  BY <1>0, <1>1, <1>2 DEF Back
<1>3. ASSUME NEW x \in 1 .. Len(new), NEW y \in 1 .. Len(new),
             new[x].stream = s, new[y].stream = s, x <= y
      PROVE  back(x) <= back(y)
  <2>1. x \in Int /\ y \in Int /\ p \in Int /\ m \in Int /\ m >= 0
    BY <1>0
  <2>2. (x < p \/ p + m <= x) /\ (y < p \/ p + m <= y)
    BY <1>3, <1>5
  <2> QED
    BY ONLY <1>3, <2>1, <2>2 DEF Back
<1>4. ASSUME NEW i \in 0 .. Len(new), NEW j \in 1 .. Len(new) + 1,
             Neighbours(new, s, i, j)
      PROVE  /\ back(i) \in 0 .. Len(old) /\ back(j) \in 1 .. Len(old) + 1
             /\ i = 0 <=> back(i) = 0
             /\ j = Len(new) + 1 <=> back(j) = Len(old) + 1
             /\ i # 0 => new[i] = old[back(i)]
             /\ j # Len(new) + 1 => new[j] = old[back(j)]
             /\ Neighbours(old, s, back(i), back(j))
  <2>2. /\ i \in Int /\ j \in Int /\ i < j
        /\ i # 0 => i \in 1 .. Len(new) /\ new[i].stream = s
        /\ j # Len(new) + 1 => j \in 1 .. Len(new) /\ new[j].stream = s
        /\ \A k \in i + 1 .. j - 1 : new[k].stream # s
    <3>1. i \in Int /\ j \in Int /\ Len(new) \in Nat
      BY <1>0
    <3>2. /\ i < j
          /\ i # 0 => new[i].stream = s
          /\ j # Len(new) + 1 => new[j].stream = s
          /\ \A k \in i + 1 .. j - 1 : new[k].stream # s
      BY <1>4, Zenon DEF Neighbours
    <3>3. /\ i # 0 => i \in 1 .. Len(new)
          /\ j # Len(new) + 1 => j \in 1 .. Len(new)
      BY <3>1
    <3> QED
      BY <3>1, <3>2, <3>3
  <2>3. /\ back(i) \in 0 .. Len(old)
        /\ i = 0 <=> back(i) = 0
        /\ i # 0 => back(i) \in 1 .. Len(old) /\ new[i] = old[back(i)]
        /\ i < p \/ i >= p + m
    <3>1. CASE i = 0
      BY <1>0, <2>2, <3>1
    <3>2. CASE i # 0
      BY <1>0, <1>1, <2>2, <3>2
    <3> QED
      BY <3>1, <3>2
  <2>4. /\ back(j) \in 1 .. Len(old) + 1
        /\ j = Len(new) + 1 <=> back(j) = Len(old) + 1
        /\ j # Len(new) + 1 => back(j) \in 1 .. Len(old) /\ new[j] = old[back(j)]
        /\ j < p \/ j >= p + m
    <3>1. CASE j = Len(new) + 1
      BY <1>0, <2>2, <3>1
    <3>2. CASE j # Len(new) + 1
      BY <1>0, <1>1, <2>2, <3>2
    <3> QED
      BY <3>1, <3>2
  <2>5. back(i) < back(j)
    BY <1>0, <2>2, <2>3, <2>4
  <2>6. ASSUME NEW k \in back(i) + 1 .. back(j) - 1
        PROVE  old[k].stream # s
    <3>0. k \in Int /\ k \in 1 .. Len(old)
      BY <1>0, <2>3, <2>4
    <3>1. CASE k < p
      <4>1. k \in i + 1 .. j - 1 /\ k \in 1 .. Len(new) /\ ~(p <= k) /\ ~(p + m <= k)
        BY <1>0, <2>2, <2>3, <2>4, <3>0, <3>1
      <4> QED
        BY <1>1, <2>2, <4>1
    <3>2. CASE k >= p
      <4> DEFINE l == k + m
      <4>1. l \in i + 1 .. j - 1 /\ l \in 1 .. Len(new) /\ ~(l < p) /\ ~(l < p + m) /\ l - m = k
        BY <1>0, <2>2, <2>3, <2>4, <3>0, <3>2
      <4> HIDE DEF l
      <4>2. new[l] = old[l - m] /\ new[l].stream # s
        BY <1>1, <2>2, <4>1
      <4> QED
        BY <4>1, <4>2
    <3> QED
      BY <1>0, <3>0, <3>1, <3>2
  <2> HIDE DEF back
  <2>7. Neighbours(old, s, back(i), back(j))
    BY <2>2, <2>3, <2>4, <2>5, <2>6 DEF Neighbours
  <2> QED
    BY <2>3, <2>4, <2>7
<1> HIDE DEF back
<1> QED
  BY <1>2, <1>3, <1>4 DEF m, back

\* Frames of other streams do not touch a chain.
LEMMA ChainOfOthers ==
  ASSUME NEW old \in Seq(Frame), NEW new \in Seq(Frame), NEW frames \in Seq(Frame), NEW p \in Int,
         Inserted(old, new, frames, p), NEW s \in Streams, NEW g, NEW c,
         \A k \in 1 .. Len(frames) : frames[k].stream # s,
         Chain(old, s, g, c)
  PROVE  Chain(new, s, g, c)
<1> DEFINE back(x) == Back(p, Len(frames), x)
<1> SUFFICES ASSUME NEW i \in 0 .. Len(new), NEW j \in 1 .. Len(new) + 1,
                    Neighbours(new, s, i, j)
             PROVE  IF j = Len(new) + 1
                      THEN Reached(new, g, i) % Frames[s] = 0 \/ c
                      ELSE \/ new[j].index = (Reached(new, g, i) % Frames[s]) + 1
                           \/ new[j].index = 1 /\ c
  BY DEF Chain
<1>1. /\ back(i) \in 0 .. Len(old) /\ back(j) \in 1 .. Len(old) + 1
      /\ i = 0 <=> back(i) = 0
      /\ j = Len(new) + 1 <=> back(j) = Len(old) + 1
      /\ i # 0 => new[i] = old[back(i)]
      /\ j # Len(new) + 1 => new[j] = old[back(j)]
      /\ Neighbours(old, s, back(i), back(j))
  BY NeighboursOfOthers
<1> HIDE DEF back
<1>2. Reached(new, g, i) = Reached(old, g, back(i))
  BY <1>1 DEF Reached
<1>3. IF back(j) = Len(old) + 1
        THEN Reached(old, g, back(i)) % Frames[s] = 0 \/ c
        ELSE \/ old[back(j)].index = (Reached(old, g, back(i)) % Frames[s]) + 1
             \/ old[back(j)].index = 1 /\ c
  BY <1>1 DEF Chain
<1> QED
  BY <1>1, <1>2, <1>3

\* A whole transfer behind all frames of its stream goes on with the chain.
LEMMA ChainOfTransfer ==
  ASSUME NEW old \in Seq(Frame), NEW new \in Seq(Frame), NEW frames \in Seq(Frame), NEW p \in Int,
         Inserted(old, new, frames, p), NEW s \in Streams, NEW g \in Nat, NEW c,
         Frames[s] \in Nat, Frames[s] > 0, Transfer(frames, s),
         NoneFrom(old, s, p),
         Chain(old, s, g, c)
  PROVE  Chain(new, s, g, c)
<1> DEFINE m == Len(frames)
<1>0. /\ Len(old) \in Nat /\ m \in Nat /\ m >= 1 /\ p \in 1 .. Len(old) + 1
      /\ Len(new) = Len(old) + m /\ p \in Int
  BY LenProperties DEF Inserted, Transfer
<1>8. m = Frames[s]
  BY DEF Transfer
<1>9. Origins(old, new, frames, p)
  BY InsertedPlaces
<1>9a. \A x \in 1 .. Len(new) :
         \/ x < p /\ x \in 1 .. Len(old) /\ new[x] = old[x]
         \/ /\ p <= x /\ x < p + m
            /\ x - p + 1 \in 1 .. m /\ new[x] = frames[x - p + 1]
         \/ /\ p + m <= x
            /\ x - m \in p .. Len(old) /\ new[x] = old[x - m]
  BY <1>9 DEF Origins
<1> HIDE DEF m
<1>1. \A x \in 1 .. Len(new) :
         \/ x < p /\ x \in 1 .. Len(old) /\ new[x] = old[x]
         \/ /\ p <= x /\ x < p + m
            /\ new[x].stream = s /\ new[x].index = x - p + 1
         \/ p + m <= x /\ new[x].stream # s
  <2>1. \A k \in 1 .. m : frames[k].stream = s /\ frames[k].index = k
    BY <1>8 DEF Transfer
  <2>2. \A k \in p .. Len(old) : old[k].stream # s
    BY DEF NoneFrom
  <2> TAKE x \in 1 .. Len(new)
  <2>3. \A k : k \in 1 .. m /\ new[x] = frames[k] => new[x].stream = s /\ new[x].index = k
    BY <2>1
  <2>4. \A k : k \in p .. Len(old) /\ new[x] = old[k] => new[x].stream # s
    BY <2>2
  <2> QED
    BY <1>9a, <2>3, <2>4, Zenon
<1> SUFFICES ASSUME NEW i \in 0 .. Len(new), NEW j \in 1 .. Len(new) + 1,
                    Neighbours(new, s, i, j)
             PROVE  IF j = Len(new) + 1
                      THEN Reached(new, g, i) % Frames[s] = 0 \/ c
                      ELSE \/ new[j].index = (Reached(new, g, i) % Frames[s]) + 1
                           \/ new[j].index = 1 /\ c
  BY DEF Chain
<1>2. /\ i \in Int /\ j \in Int /\ i < j
      /\ i # 0 => i \in 1 .. Len(new) /\ new[i].stream = s
      /\ j # Len(new) + 1 => j \in 1 .. Len(new) /\ new[j].stream = s
      /\ \A k \in i + 1 .. j - 1 : new[k].stream # s
  <2>1. i \in Int /\ j \in Int /\ Len(new) \in Nat
    BY <1>0
  <2>2. /\ i < j
        /\ i # 0 => new[i].stream = s
        /\ j # Len(new) + 1 => new[j].stream = s
        /\ \A k \in i + 1 .. j - 1 : new[k].stream # s
    BY Zenon DEF Neighbours
  <2>3. /\ i # 0 => i \in 1 .. Len(new)
        /\ j # Len(new) + 1 => j \in 1 .. Len(new)
    BY <2>1
  <2> QED
    BY <2>1, <2>2, <2>3
<1>6. i \in Int /\ j \in Int /\ i < j
  BY <1>2
<1>3. i < p + m
  BY <1>0, <1>1, <1>2
<1>4. CASE j <= p
  <2>1. /\ i \in 0 .. Len(old) /\ i < p
        /\ i # 0 => i \in 1 .. Len(old) /\ new[i] = old[i]
    BY <1>0, <1>1, <1>2, <1>4
  <2>2. \A k \in i + 1 .. j - 1 : old[k].stream # s
    <3> TAKE k \in i + 1 .. j - 1
    <3>1. k \in 1 .. Len(new) /\ ~(p <= k) /\ ~(p + m <= k)
      BY <1>0, <1>4, <1>6
    <3> QED
      BY <1>1, <1>2, <3>1
  <2>3. Reached(new, g, i) = Reached(old, g, i)
    BY <2>1 DEF Reached
  <2>4. j \in 1 .. Len(new) /\ j # Len(new) + 1
    BY <1>0, <1>4
  <2>5. CASE j < p
    <3>1. j \in 1 .. Len(old) /\ new[j] = old[j] /\ j # Len(old) + 1
      <4>1. j \in 1 .. Len(old) /\ j # Len(old) + 1 /\ ~(p <= j) /\ ~(p + m <= j)
        BY <1>0, <1>6, <2>4, <2>5
      <4> QED
        BY <1>1, <2>4, <4>1
    <3>2. Neighbours(old, s, i, j)
      BY <1>2, <2>1, <2>2, <2>4, <3>1 DEF Neighbours
    <3>3. \/ old[j].index = (Reached(old, g, i) % Frames[s]) + 1
          \/ old[j].index = 1 /\ c
      BY <2>1, <3>1, <3>2 DEF Chain
    <3> QED
      BY <2>3, <2>4, <3>1, <3>3
  <2>6. CASE j = p
    <3>1. \A k \in i + 1 .. Len(old) : old[k].stream # s
      <4> TAKE k \in i + 1 .. Len(old)
      <4>1. k \in i + 1 .. j - 1 \/ k \in p .. Len(old)
        BY <1>0, <1>2, <2>6
      <4> QED
        BY <2>2, <4>1 DEF NoneFrom
    <3>2. Neighbours(old, s, i, Len(old) + 1)
      <4>1. i < Len(old) + 1 /\ (Len(old) + 1) - 1 = Len(old)
        BY <1>0, <2>1
      <4> QED
        BY <1>2, <2>1, <3>1, <4>1 DEF Neighbours
    <3>3. Reached(old, g, i) % Frames[s] = 0 \/ c
      <4>1. Len(old) + 1 \in 1 .. Len(old) + 1
        BY <1>0
      <4> QED
        BY <2>1, <3>2, <4>1 DEF Chain
    <3>4. new[j].index = 1
      BY <1>0, <1>1, <2>4, <2>6
    <3> QED
      BY <2>3, <2>4, <3>3, <3>4
  <2> QED
    BY <1>0, <1>4, <1>6, <2>5, <2>6
<1>5. CASE j > p
  <2>1. i >= p
    <3>1. p \in 1 .. Len(new) /\ p <= p /\ p < p + m
      BY <1>0
    <3>2. new[p].stream = s
      BY <1>0, <1>1, <3>1
    <3>3. ~(p \in i + 1 .. j - 1)
      BY <1>2, <3>2
    <3> QED
      BY <1>0, <1>2, <1>5, <3>3
  <2>2. i # 0 /\ Reached(new, g, i) = i - p + 1
    BY <1>0, <1>1, <1>2, <1>3, <2>1 DEF Reached
  <2>3. j = i + 1 \/ i = p + m - 1
    <3>1. i + 1 < p + m => i + 1 \in 1 .. Len(new) /\ new[i + 1].stream = s
      <4>1. i + 1 < p + m => i + 1 \in 1 .. Len(new) /\ ~(i + 1 < p) /\ ~(p + m <= i + 1)
        BY <1>0, <1>6, <2>1
      <4> QED
        BY <1>1, <4>1
    <3>2. i + 1 < p + m => ~(i + 1 \in i + 1 .. j - 1)
      BY <1>2, <3>1
    <3>3. i \in Int /\ j \in Int /\ p \in Int /\ m \in Int /\ i < j /\ i < p + m
      BY <1>0, <1>2, <1>3
    <3>4. i + 1 < p + m => ~(i + 1 <= j - 1)
      BY <3>2, <3>3
    <3> QED
      BY ONLY <3>3, <3>4
  <2>4. CASE i = p + m - 1
    <3>1. Reached(new, g, i) = m
      BY <1>0, <2>2, <2>4
    <3>2. m % Frames[s] = 0
      <4>1. m \in 0 .. Frames[s]
        BY <1>0, <1>8
      <4> QED
        BY <1>8, <4>1, Wraps
    <3>3. j = Len(new) + 1
      BY <1>0, <1>1, <1>2, <2>4
    <3> QED
      BY <3>1, <3>2, <3>3
  <2>5. CASE i < p + m - 1
    <3>1. j = i + 1 /\ j \in 1 .. Len(new) /\ new[j].index = i - p + 2 /\ j # Len(new) + 1
      BY <1>0, <1>1, <1>2, <2>1, <2>3, <2>5
    <3>2. (i - p + 1) % Frames[s] = i - p + 1
      <4>1. i - p + 1 \in 0 .. m /\ i - p + 1 # m
        BY <1>0, <1>2, <2>1, <2>5
      <4> QED
        BY <1>0, <1>8, <4>1, Wraps
    <3>3. (i - p + 1) + 1 = i - p + 2
      BY <1>0, <1>2
    <3> QED
      BY <2>2, <3>1, <3>2, <3>3
  <2>6. i = p + m - 1 \/ i < p + m - 1
    BY <1>0, <1>3, <1>6
  <2> QED
    BY <2>4, <2>5, <2>6
<1> QED
  BY <1>0, <1>4, <1>5, <1>6

\* The places that are kept, both ends among them, are found by f, and what lies
\* between two of them lies between their numbers.
LEMMA ThinnedPlaces ==
  ASSUME NEW old \in Seq(Frame), NEW new \in Seq(Frame), NEW f, Thinned(old, new, f)
  PROVE  /\ Len(old) \in Nat /\ Len(new) \in Nat
         /\ \A k \in 0 .. Len(new) + 1 : f[k] \in 0 .. Len(old) + 1 /\ f[k] \in Int
         /\ \A k \in 1 .. Len(new) : f[k] \in 1 .. Len(old) /\ new[k] = old[f[k]]
         /\ \A k, l \in 0 .. Len(new) + 1 : k < l <=> f[k] < f[l]
         /\ \A k \in 1 .. Len(new) : f[k] \notin Gone(old, new, f)
         /\ \A x \in 1 .. Len(old) : x \notin Gone(old, new, f) =>
              \E k \in 1 .. Len(new) : f[k] = x
<1>0. Len(old) \in Nat /\ Len(new) \in Nat
  BY LenProperties
<1>1. \A k \in 0 .. Len(new) + 1 : f[k] \in 0 .. Len(old) + 1 /\ f[k] \in Int
  BY <1>0 DEF Thinned
<1>2. ASSUME NEW k \in 0 .. Len(new) + 1, NEW l \in 0 .. Len(new) + 1
      PROVE  k < l <=> f[k] < f[l]
  <2>1. k \in Int /\ l \in Int /\ f[k] \in Int /\ f[l] \in Int
    BY <1>0, <1>1
  <2>2. (k < l => f[k] < f[l]) /\ (l < k => f[l] < f[k])
    BY DEF Thinned
  <2>3. k = l => f[k] = f[l]
    OBVIOUS
  <2> QED
    BY <2>1, <2>2, <2>3
<1>3. ASSUME NEW k \in 1 .. Len(new)
      PROVE  f[k] \in 1 .. Len(old) /\ new[k] = old[f[k]]
  <2>1. /\ k \in 0 .. Len(new) + 1 /\ 0 \in 0 .. Len(new) + 1
        /\ Len(new) + 1 \in 0 .. Len(new) + 1 /\ 0 < k /\ k < Len(new) + 1
    BY <1>0
  <2>2. f[0] < f[k] /\ f[k] < f[Len(new) + 1]
    BY <1>2, <2>1
  <2>3. f[0] = 0 /\ f[Len(new) + 1] = Len(old) + 1 /\ new[k] = old[f[k]]
    BY DEF Thinned
  <2> QED
    BY <1>0, <1>1, <2>1, <2>2, <2>3
<1>4. \A k \in 1 .. Len(new) : f[k] \notin Gone(old, new, f)
  BY DEF Gone
<1>5. \A x \in 1 .. Len(old) : x \notin Gone(old, new, f) =>
        \E k \in 1 .. Len(new) : f[k] = x
  BY DEF Gone
<1> QED
  BY <1>0, <1>1, <1>2, <1>3, <1>4, <1>5

LEMMA ThinnedFrames ==
  ASSUME NEW old \in Seq(Frame), NEW new \in Seq(Frame), NEW f, Thinned(old, new, f)
  PROVE  \A k \in 1 .. Len(new) :
           f[k] \in 1 .. Len(old) /\ new[k] = old[f[k]] /\ f[k] \notin Gone(old, new, f)
<1>1. \A k \in 1 .. Len(new) : f[k] \in 1 .. Len(old) /\ new[k] = old[f[k]]
  BY ThinnedPlaces
<1>2. \A k \in 1 .. Len(new) : f[k] \notin Gone(old, new, f)
  BY ThinnedPlaces
<1> QED
  BY <1>1, <1>2

\* Where frames of the stream are lost, the first of them began a transfer, or a
\* cut has been noted, and what follows them begins one.
Mendable(line, s, gone, d) ==
  /\ \A i \in 0 .. Len(line), x \in gone :
       Neighbours(line, s, i, x) /\ i \notin gone => line[x].index = 1 \/ d
  /\ \A x \in gone, j \in 1 .. Len(line) :
       Neighbours(line, s, x, j) /\ j \notin gone => line[j].index = 1

\* A chain outlives that, since where nothing was lost between neighbours they
\* still are.
LEMMA ChainOfThinned ==
  ASSUME NEW old \in Seq(Frame), NEW new \in Seq(Frame), NEW f, Thinned(old, new, f),
         NEW s \in Streams, NEW g \in Nat, NEW c, NEW d, c => d,
         Frames[s] \in Nat, Frames[s] > 0,
         Mendable(old, s, Gone(old, new, f), d),
         Chain(old, s, g, c)
  PROVE  Chain(new, s, g, d)
<1> DEFINE gone == Gone(old, new, f)
<1>0. /\ Len(old) \in Nat /\ Len(new) \in Nat
      /\ \A k \in 0 .. Len(new) + 1 : f[k] \in 0 .. Len(old) + 1 /\ f[k] \in Int
      /\ \A k \in 1 .. Len(new) : f[k] \in 1 .. Len(old) /\ new[k] = old[f[k]]
      /\ \A k, l \in 0 .. Len(new) + 1 : k < l <=> f[k] < f[l]
      /\ \A k \in 1 .. Len(new) : f[k] \notin gone
      /\ \A x \in 1 .. Len(old) : x \notin gone => \E k \in 1 .. Len(new) : f[k] = x
  BY ThinnedPlaces
<1>1. f[0] = 0 /\ f[Len(new) + 1] = Len(old) + 1
  BY DEF Thinned
<1>2. gone \subseteq 1 .. Len(old)
  BY DEF Gone
<1>3. \A i \in 0 .. Len(old), x \in gone :
        Neighbours(old, s, i, x) /\ i \notin gone => old[x].index = 1 \/ d
  BY DEF Mendable
<1>4. \A x \in gone, j \in 1 .. Len(old) :
        Neighbours(old, s, x, j) /\ j \notin gone => old[j].index = 1
  BY DEF Mendable
<1> HIDE DEF gone
<1> SUFFICES ASSUME NEW i \in 0 .. Len(new), NEW j \in 1 .. Len(new) + 1,
                    Neighbours(new, s, i, j)
             PROVE  IF j = Len(new) + 1
                      THEN Reached(new, g, i) % Frames[s] = 0 \/ d
                      ELSE \/ new[j].index = (Reached(new, g, i) % Frames[s]) + 1
                           \/ new[j].index = 1 /\ d
  BY DEF Chain
<1> DEFINE I == f[i]
           J == f[j]
           b == Reached(old, g, I) % Frames[s]
<1>5. /\ i \in Int /\ j \in Int /\ i < j
      /\ i # 0 => i \in 1 .. Len(new) /\ new[i].stream = s
      /\ j # Len(new) + 1 => j \in 1 .. Len(new) /\ new[j].stream = s
      /\ \A k \in i + 1 .. j - 1 : new[k].stream # s
  <2>1. i \in Int /\ j \in Int /\ Len(new) \in Nat
    BY <1>0
  <2>2. /\ i < j
        /\ i # 0 => new[i].stream = s
        /\ j # Len(new) + 1 => new[j].stream = s
        /\ \A k \in i + 1 .. j - 1 : new[k].stream # s
    BY Zenon DEF Neighbours
  <2>3. /\ i # 0 => i \in 1 .. Len(new)
        /\ j # Len(new) + 1 => j \in 1 .. Len(new)
    BY <2>1
  <2> QED
    BY <2>1, <2>2, <2>3
<1>6. /\ i \in 0 .. Len(new) + 1 /\ j \in 0 .. Len(new) + 1
      /\ I \in Int /\ J \in Int /\ I < J /\ I \in 0 .. Len(old) /\ J \in 1 .. Len(old) + 1
  <2>1. i \in 0 .. Len(new) + 1 /\ j \in 0 .. Len(new) + 1
    BY <1>0
  <2>2. I \in 0 .. Len(old) + 1 /\ J \in 0 .. Len(old) + 1 /\ I < J
    BY <1>0, <1>5, <2>1
  <2> HIDE DEF I, J
  <2> QED
    BY <1>0, <2>1, <2>2
<1>7. /\ i = 0 <=> I = 0
      /\ i # 0 => new[i] = old[I] /\ old[I].stream = s
      /\ I \notin gone
  <2>1. CASE i = 0
    BY <1>1, <1>2, <2>1
  <2>2. CASE i # 0
    BY <1>0, <1>5, <2>2
  <2> QED
    BY <2>1, <2>2
<1>8. /\ j = Len(new) + 1 <=> J = Len(old) + 1
      /\ j # Len(new) + 1 => new[j] = old[J] /\ old[J].stream = s /\ J \notin gone /\ J \in 1 .. Len(old)
  <2>1. CASE j = Len(new) + 1
    BY <1>1, <2>1
  <2>2. CASE j # Len(new) + 1
    BY <1>0, <1>5, <2>2
  <2> QED
    BY <2>1, <2>2
<1>9. ASSUME NEW x \in I + 1 .. J - 1, old[x].stream = s
      PROVE  x \in gone
  <2>0. x \in Int /\ x \in 1 .. Len(old) /\ I < x /\ x < J
    <3>1. Len(old) \in Nat
      BY <1>0
    <3> HIDE DEF I, J
    <3> QED
      BY <1>6, <3>1
  <2> SUFFICES ASSUME x \notin gone
               PROVE  FALSE
    OBVIOUS
  <2>1. PICK k \in 1 .. Len(new) : f[k] = x
    BY <1>0, <2>0
  <2>2. k \in 0 .. Len(new) + 1 /\ k \in Int
    BY <1>0
  <2>3. i < k /\ k < j
    BY <1>0, <1>6, <2>0, <2>1, <2>2
  <2>4. k \in i + 1 .. j - 1
    BY <1>5, <2>2, <2>3
  <2>5. new[k] = old[x]
    BY <1>0, <2>1
  <2> QED
    BY <1>5, <1>9, <2>4, <2>5
<1>10. Reached(new, g, i) % Frames[s] = b
  <2>1. Reached(new, g, i) = Reached(old, g, I)
    BY <1>7 DEF Reached
  <2> QED
    BY <2>1
<1> HIDE DEF I, J, b
<1>11. CASE \A x \in I + 1 .. J - 1 : old[x].stream # s
  <2>1. Neighbours(old, s, I, J)
    BY <1>5, <1>6, <1>7, <1>8, <1>11 DEF Neighbours
  <2>2. IF J = Len(old) + 1
          THEN b = 0 \/ c
          ELSE \/ old[J].index = b + 1
               \/ old[J].index = 1 /\ c
    BY <1>6, <2>1 DEF Chain, b
  <2> QED
    BY <1>8, <1>10, <2>2
<1>12. ASSUME NEW y \in I + 1 .. J - 1, old[y].stream = s
       PROVE  IF j = Len(new) + 1
                THEN b = 0 \/ d
                ELSE \/ new[j].index = b + 1
                     \/ new[j].index = 1 /\ d
  <2>0. y \in Int /\ I < y /\ y < J /\ y \in 1 .. Len(old)
    BY <1>0, <1>6
  <2>1. PICK x \in I + 1 .. Len(old) + 1 : Neighbours(old, s, I, x)
    BY <1>6, <1>7, NeighbourAfter
  <2>2. /\ x \in Int /\ I < x /\ x <= y /\ x \in 1 .. Len(old) /\ x \in gone
        /\ x # Len(old) + 1
    <3>1. x \in Int /\ I < x
      BY <1>0, <1>6
    <3>2. x <= y
      <4>1. ~(y \in I + 1 .. x - 1)
        BY <1>12, <2>1 DEF Neighbours
      <4> QED
        BY <1>6, <2>0, <3>1, <4>1
    <3>3. x \in I + 1 .. J - 1 /\ x # Len(old) + 1 /\ x \in 1 .. Len(old)
      BY <1>0, <1>6, <2>0, <3>1, <3>2
    <3>4. old[x].stream = s
      BY <2>1, <3>3 DEF Neighbours
    <3> QED
      BY <1>9, <3>1, <3>2, <3>3, <3>4
  <2>3. old[x].index = 1 \/ d
    BY <1>3, <1>6, <1>7, <2>1, <2>2
  <2>4. \/ old[x].index = b + 1
        \/ old[x].index = 1 /\ c
    BY <1>6, <2>1, <2>2 DEF Chain, b
  <2>5. b \in Nat
    <3>1. Reached(old, g, I) \in Nat
      <4>1. I # 0 => I \in 1 .. Len(old)
        BY <1>0, <1>6
      <4>2. I # 0 => old[I].index \in Nat
        BY <4>1, FrameParts
      <4> QED
        BY <4>2 DEF Reached
    <3>2. \A a \in Nat : a % Frames[s] \in 0 .. Frames[s] - 1
      <4>1. \A m \in Nat : m > 0 => \A a \in Nat : a % m \in 0 .. m - 1
        BY Remainder
      <4> QED
        BY <4>1
    <3>3. b \in 0 .. Frames[s] - 1
      BY <3>1, <3>2, Zenon DEF b
    <3> QED
      BY <3>3
  <2>6. b = 0 \/ d
    BY <2>3, <2>4, <2>5
  <2>7. CASE j = Len(new) + 1
    BY <2>6, <2>7
  <2>8. CASE j # Len(new) + 1
    <3>1. PICK z \in 0 .. J - 1 : Neighbours(old, s, z, J)
      BY <1>8, <1>6, <2>8, NeighbourBefore
    <3>2. z \in Int /\ y <= z /\ z \in I + 1 .. J - 1 /\ z # 0
      <4>1. ~(y \in z + 1 .. J - 1)
        BY <1>12, <3>1 DEF Neighbours
      <4>2. z \in Int /\ z <= J - 1
        BY <1>6
      <4> QED
        BY <1>6, <2>0, <4>1, <4>2
    <3>3. z \in gone
      BY <1>9, <3>1, <3>2 DEF Neighbours
    <3>4. new[j].index = 1
      BY <1>4, <1>8, <2>8, <3>1, <3>3
    <3> QED
      BY <2>5, <2>6, <2>8, <3>4
  <2> QED
    BY <2>7, <2>8
<1> QED
  BY <1>10, <1>11, <1>12

-----------------------------------------------------------------------------
(* What the invariant says of a queue, when frames are put in. *)

\* The constants.
LEMMA Constants ==
  /\ \A s \in Streams : Frames[s] \in Nat /\ Frames[s] > 0
  /\ \A s \in Telemetry : s \in Streams /\ Frames[s] <= RESERVE + 1 /\ Frames[s] <= Frames[Longest]
  /\ Telemetry \in SUBSET Broadcasts /\ Broadcasts \in SUBSET Streams
  /\ Longest \in Telemetry /\ Frames[Longest] \in Nat /\ Frames["status"] = 1
  /\ CAPACITY \in Nat /\ RESERVE \in Nat /\ RESERVE < CAPACITY
  /\ MAILBOXES \in Nat /\ RX_RING \in Nat /\ RX_BUDGET \in Nat /\ TX_BUDGET \in Nat
  /\ RX_BUDGET > 0 /\ TX_BUDGET > 0
  /\ TX_DEADLINE \in Nat /\ HIGH_DEADLINE \in Nat /\ CLEANUP \in Nat /\ RECOVERY \in Nat
  /\ TX_DEADLINE > 0 /\ CLEANUP > 0 /\ TX_DEADLINE + CLEANUP <= RECOVERY
  /\ RX_TIMEOUT \in Nat /\ STATUS_PERIOD \in Nat
<1> USE CanTxAssumption
<1>1. \A s \in Streams : Frames[s] \in Nat /\ Frames[s] > 0
  OBVIOUS
<1>2. \A s \in Telemetry : s \in Streams /\ Frames[s] <= RESERVE + 1
  BY DEF Telemetry, Streams
<1>3. /\ Longest \in Telemetry
      /\ \A s \in Telemetry : Frames[s] <= Frames[Longest]
  <2>1. /\ Frames["range"] \in Nat /\ Frames["flow"] \in Nat
    BY DEF Streams
  <2>2. CASE Frames["range"] > Frames["flow"]
    BY <2>1, <2>2 DEF Longest, Telemetry
  <2>3. CASE ~(Frames["range"] > Frames["flow"])
    BY <2>1, <2>3 DEF Longest, Telemetry
  <2> QED
    BY <2>2, <2>3
<1>4. Frames[Longest] \in Nat
  BY <1>1, <1>2, <1>3
<1>5. Frames["status"] = 1
  OBVIOUS
<1>6. /\ CAPACITY \in Nat /\ RESERVE \in Nat /\ RESERVE < CAPACITY
      /\ MAILBOXES \in Nat /\ RX_RING \in Nat /\ RX_BUDGET \in Nat /\ TX_BUDGET \in Nat
      /\ RX_BUDGET > 0 /\ TX_BUDGET > 0 /\ RX_TIMEOUT \in Nat
  OBVIOUS
<1>7. /\ TX_DEADLINE \in Nat /\ HIGH_DEADLINE \in Nat /\ CLEANUP \in Nat /\ RECOVERY \in Nat
      /\ TX_DEADLINE > 0 /\ CLEANUP > 0 /\ TX_DEADLINE + CLEANUP <= RECOVERY
      /\ STATUS_PERIOD \in Nat
  OBVIOUS
<1>8. Telemetry \in SUBSET Broadcasts /\ Broadcasts \in SUBSET Streams
  BY DEF Telemetry, Broadcasts, Streams
<1> QED
  BY <1>1, <1>2, <1>3, <1>4, <1>5, <1>6, <1>7, <1>8

\* The identifiers: telemetry loses against the rest, and no two streams share one.
LEMMA Identifiers ==
  /\ \A s \in Streams : CanId[s] \in Nat
  /\ \A s, t \in Streams : CanId[s] = CanId[t] => s = t
  /\ \A s \in Telemetry, t \in Streams \ Telemetry : CanId[t] < CanId[s]
BY DEF Streams, Telemetry, CanId

\* The order of the queue.
LEMMA SortedOfInserted ==
  ASSUME NEW old \in Seq(Frame), NEW new \in Seq(Frame), NEW frames \in Seq(Frame), NEW p \in Int,
         Inserted(old, new, frames, p), NEW s \in Streams,
         \A k \in 1 .. Len(frames) : frames[k].stream = s,
         \A k \in 1 .. p - 1 : CanId[old[k].stream] <= CanId[s],
         p <= Len(old) => CanId[s] < CanId[old[p].stream],
         Sorted(old)
  PROVE  /\ Sorted(new)
         /\ NoneFrom(old, s, p)
<1> DEFINE m == Len(frames)
           id(x) == CanId[x.stream]
<1>0. /\ p \in 1 .. Len(old) + 1 /\ Len(old) \in Nat /\ m \in Nat /\ Len(new) = Len(old) + m
  BY LenProperties, InsertedPlaces
<1>9. \A x \in 1 .. Len(new) :
         \/ x < p /\ x \in 1 .. Len(old) /\ new[x] = old[x]
         \/ /\ p <= x /\ x < p + m
            /\ x - p + 1 \in 1 .. m /\ new[x] = frames[x - p + 1]
         \/ /\ p + m <= x
            /\ x - m \in p .. Len(old) /\ new[x] = old[x - m]
  BY InsertedPlaces DEF Origins
<1>1. /\ \A k \in 1 .. Len(old) : id(old[k]) \in Nat
      /\ CanId[s] \in Nat
  BY FrameParts, Identifiers
<1>2. \A k \in 1 .. m : id(frames[k]) = CanId[s]
  OBVIOUS
<1>3. \A k \in 1 .. p - 1 : id(old[k]) <= CanId[s]
  OBVIOUS
<1>4. \A i, j \in 1 .. Len(old) : i <= j => id(old[i]) <= id(old[j])
  BY DEF Sorted
<1>5. p <= Len(old) => CanId[s] < id(old[p])
  OBVIOUS
<1> HIDE DEF id, m
<1>6. \A k \in p .. Len(old) : CanId[s] < id(old[k])
  <2> TAKE k \in p .. Len(old)
  <2>1. p \in 1 .. Len(old) /\ k \in 1 .. Len(old) /\ p <= k /\ p <= Len(old)
    BY <1>0
  <2>2. id(old[p]) <= id(old[k]) /\ CanId[s] < id(old[p])
    BY <1>4, <1>5, <2>1
  <2> QED
    BY <1>1, <2>1, <2>2
<1>7. NoneFrom(old, s, p)
  <2>1. \A k \in p .. Len(old) : k \in 1 .. Len(old)
    BY <1>0
  <2>2. \A k \in p .. Len(old) : CanId[old[k].stream] # CanId[s]
    BY <1>1, <1>6, <2>1 DEF id
  <2> QED
    BY <2>2 DEF NoneFrom
<1>8. ASSUME NEW i \in 1 .. Len(new), NEW j \in 1 .. Len(new), i <= j
      PROVE  id(new[i]) <= id(new[j])
  <2>0. i \in Int /\ j \in Int
    OBVIOUS
  <2>1. CASE i < p /\ j < p
    <3>1. new[i] = old[i] /\ i \in 1 .. Len(old) /\ new[j] = old[j] /\ j \in 1 .. Len(old)
      BY <1>0, <1>9, <2>0, <2>1
    <3> QED
      BY <1>4, <1>8, <3>1
  <2>2. CASE i < p /\ p <= j /\ j < p + m
    <3>1. new[i] = old[i] /\ i \in 1 .. p - 1
      BY <1>0, <1>9, <2>0, <2>2
    <3>2. id(new[j]) = CanId[s]
      <4>1. j - p + 1 \in 1 .. m /\ new[j] = frames[j - p + 1]
        BY <1>0, <1>9, <2>0, <2>2
      <4> QED
        BY <1>2, <4>1
    <3> QED
      BY <1>3, <3>1, <3>2
  <2>3. CASE i < p /\ p + m <= j
    <3>1. new[i] = old[i] /\ i \in 1 .. p - 1 /\ i \in 1 .. Len(old)
      BY <1>0, <1>9, <2>0, <2>3
    <3>2. new[j] = old[j - m] /\ j - m \in p .. Len(old)
      BY <1>0, <1>9, <2>0, <2>3
    <3>3. id(new[i]) <= CanId[s] /\ CanId[s] < id(new[j])
      BY <1>3, <1>6, <3>1, <3>2
    <3>4. id(new[i]) \in Nat /\ id(new[j]) \in Nat /\ CanId[s] \in Nat
      <4>1. j - m \in 1 .. Len(old)
        BY <1>0, <3>2
      <4> QED
        BY <1>1, <3>1, <3>2, <4>1
    <3> QED
      BY <3>3, <3>4
  <2>4. CASE p <= i /\ i < p + m /\ p <= j /\ j < p + m
    <3>1. id(new[i]) = CanId[s] /\ id(new[j]) = CanId[s]
      BY <1>0, <1>2, <1>9, <2>0, <2>4
    <3> QED
      BY <1>1, <3>1
  <2>5. CASE p <= i /\ i < p + m /\ p + m <= j
    <3>1. id(new[i]) = CanId[s]
      BY <1>0, <1>2, <1>9, <2>0, <2>5
    <3>2. new[j] = old[j - m] /\ j - m \in p .. Len(old) /\ j - m \in 1 .. Len(old)
      BY <1>0, <1>9, <2>0, <2>5
    <3> QED
      BY <1>1, <1>6, <3>1, <3>2
  <2>6. CASE p + m <= i
    <3>1. /\ new[i] = old[i - m] /\ i - m \in 1 .. Len(old)
          /\ new[j] = old[j - m] /\ j - m \in 1 .. Len(old)
          /\ i - m <= j - m
      BY <1>0, <1>8, <1>9, <2>0, <2>6
    <3> QED
      BY <1>4, <3>1
  <2>7. p \in Int /\ m \in Int
    BY <1>0
  <2> QED
    BY <1>8, <2>0, <2>1, <2>2, <2>3, <2>4, <2>5, <2>6, <2>7
<1> QED
  BY <1>7, <1>8 DEF Sorted, id

\* No frame is past the end of its transfer.
LEMMA InRangeOfInserted ==
  ASSUME NEW old \in Seq(Frame), NEW new \in Seq(Frame), NEW frames \in Seq(Frame), NEW p \in Int,
         Inserted(old, new, frames, p), InRange(old), InRange(frames)
  PROVE  InRange(new)
<1> SUFFICES ASSUME NEW x \in 1 .. Len(new)
             PROVE  new[x].index <= Frames[new[x].stream]
  BY DEF InRange
<1>1. \/ x \in 1 .. Len(old) /\ new[x] = old[x]
      \/ x - p + 1 \in 1 .. Len(frames) /\ new[x] = frames[x - p + 1]
      \/ x - Len(frames) \in p .. Len(old) /\ new[x] = old[x - Len(frames)]
  BY InsertedPlaces DEF Origins
<1>2. x - Len(frames) \in p .. Len(old) => x - Len(frames) \in 1 .. Len(old)
  BY LenProperties, InsertedPlaces
<1> QED
  BY <1>1, <1>2, Zenon DEF InRange

\* Deadlines: frames of other streams.
LEMMA RisingOfOthers ==
  ASSUME NEW old \in Seq(Frame), NEW new \in Seq(Frame), NEW frames \in Seq(Frame), NEW p \in Int,
         Inserted(old, new, frames, p), NEW s \in Streams,
         \A k \in 1 .. Len(frames) : frames[k].stream # s,
         Rising(old, s)
  PROVE  Rising(new, s)
<1> DEFINE back(x) == Back(p, Len(frames), x)
<1>1. /\ \A x \in 1 .. Len(new) : new[x].stream = s =>
           back(x) \in 1 .. Len(old) /\ new[x] = old[back(x)]
      /\ \A x, y \in 1 .. Len(new) :
           new[x].stream = s /\ new[y].stream = s /\ x <= y => back(x) <= back(y)
      /\ \A i \in 0 .. Len(new), j \in 1 .. Len(new) + 1 :
           Neighbours(new, s, i, j) =>
             /\ i # 0 => new[i] = old[back(i)]
             /\ j # Len(new) + 1 => new[j] = old[back(j)]
             /\ Neighbours(old, s, back(i), back(j))
  BY NeighboursOfOthers
<1> HIDE DEF back
<1>5. \A i, j \in 1 .. Len(old) :
        i <= j /\ old[i].stream = s /\ old[j].stream = s => old[i].left <= old[j].left
  BY DEF Rising
<1>2. ASSUME NEW j \in 1 .. Len(new), new[j].stream = s
      PROVE  new[j].left <= TX_DEADLINE
  BY <1>1, <1>2 DEF Rising
<1>3. ASSUME NEW i \in 1 .. Len(new), NEW j \in 1 .. Len(new),
             i <= j, new[i].stream = s, new[j].stream = s
      PROVE  new[i].left <= new[j].left
  <2>1. /\ back(i) \in 1 .. Len(old) /\ new[i] = old[back(i)]
        /\ back(j) \in 1 .. Len(old) /\ new[j] = old[back(j)]
        /\ back(i) <= back(j)
    BY <1>1, <1>3
  <2> QED
    BY <1>3, <1>5, <2>1
<1>4. ASSUME NEW i \in 1 .. Len(new), NEW j \in 1 .. Len(new), Neighbours(new, s, i, j)
      PROVE  new[j].index = 1 \/ new[i].left = new[j].left
  <2>1. i \in 0 .. Len(new) /\ j \in 1 .. Len(new) + 1 /\ i # 0 /\ j # Len(new) + 1
    BY LenProperties
  <2>2. new[i].stream = s /\ new[j].stream = s
    BY <1>4, <2>1 DEF Neighbours
  <2>3. /\ back(i) \in 1 .. Len(old) /\ new[i] = old[back(i)]
        /\ back(j) \in 1 .. Len(old) /\ new[j] = old[back(j)]
        /\ Neighbours(old, s, back(i), back(j))
    BY <1>1, <1>4, <2>1, <2>2
  <2> QED
    BY <2>3 DEF Rising
<1> QED
  BY <1>2, <1>3, <1>4 DEF Rising

\* Deadlines: a whole transfer behind all frames of its stream, with the latest
\* deadline there is.
LEMMA RisingOfTransfer ==
  ASSUME NEW old \in Seq(Frame), NEW new \in Seq(Frame), NEW frames \in Seq(Frame), NEW p \in Int,
         Inserted(old, new, frames, p), NEW s \in Streams,
         Transfer(frames, s), NoneFrom(old, s, p),
         \A k \in 1 .. Len(frames) : frames[k].left = TX_DEADLINE,
         Rising(old, s)
  PROVE  Rising(new, s)
<1> DEFINE m == Len(frames)
<1>0. /\ p \in 1 .. Len(old) + 1 /\ Len(old) \in Nat /\ m \in Nat /\ Len(new) = Len(old) + m
  BY LenProperties, InsertedPlaces
<1>9. \A x \in 1 .. Len(new) :
         \/ x < p /\ x \in 1 .. Len(old) /\ new[x] = old[x]
         \/ /\ p <= x /\ x < p + m
            /\ x - p + 1 \in 1 .. m /\ new[x] = frames[x - p + 1]
         \/ /\ p + m <= x
            /\ x - m \in p .. Len(old) /\ new[x] = old[x - m]
  BY InsertedPlaces DEF Origins
<1>1. \A k \in 1 .. m : /\ frames[k].stream = s /\ frames[k].index = k
                        /\ frames[k].left = TX_DEADLINE
  BY DEF Transfer
<1>2. \A k \in p .. Len(old) : old[k].stream # s
  BY DEF NoneFrom
<1> HIDE DEF m
<1>3. \A x \in 1 .. Len(new) : new[x].stream = s =>
        \/ x < p /\ x \in 1 .. Len(old) /\ new[x] = old[x]
        \/ /\ p <= x /\ x < p + m
           /\ new[x].index = x - p + 1 /\ new[x].left = TX_DEADLINE
  <2> TAKE x \in 1 .. Len(new)
  <2>1. \A k : k \in 1 .. m /\ new[x] = frames[k] => new[x].index = k /\ new[x].left = TX_DEADLINE
    BY <1>1
  <2>2. \A k : k \in p .. Len(old) /\ new[x] = old[k] => new[x].stream # s
    BY <1>2
  <2> QED
    BY <1>9, <2>1, <2>2, Zenon
<1>4. /\ TX_DEADLINE \in Nat /\ p \in Int /\ m \in Int
      /\ \A x \in 1 .. Len(old) : old[x].left \in Nat
  BY <1>0, Constants, FrameParts
<1>5. /\ \A j \in 1 .. Len(old) : old[j].stream = s => old[j].left <= TX_DEADLINE
      /\ \A i, j \in 1 .. Len(old) :
           i <= j /\ old[i].stream = s /\ old[j].stream = s => old[i].left <= old[j].left
      /\ \A i, j \in 1 .. Len(old) :
           Neighbours(old, s, i, j) => old[j].index = 1 \/ old[i].left = old[j].left
  BY DEF Rising
<1>6. ASSUME NEW j \in 1 .. Len(new), new[j].stream = s
      PROVE  new[j].left <= TX_DEADLINE
  BY <1>3, <1>4, <1>5, <1>6
<1>7. ASSUME NEW i \in 1 .. Len(new), NEW j \in 1 .. Len(new),
             i <= j, new[i].stream = s, new[j].stream = s
      PROVE  new[i].left <= new[j].left
  <2>1. CASE j < p
    <3>1. i < p
      BY <1>4, <1>7, <2>1
    <3>2. /\ i \in 1 .. Len(old) /\ new[i] = old[i]
          /\ j \in 1 .. Len(old) /\ new[j] = old[j]
      BY <1>3, <1>4, <1>7, <2>1, <3>1
    <3> QED
      BY <1>5, <1>7, <3>2
  <2>2. CASE ~(j < p)
    <3>1. new[j].left = TX_DEADLINE
      BY <1>3, <1>7, <2>2
    <3> QED
      BY <1>6, <1>7, <3>1
  <2> QED
    BY <2>1, <2>2
<1>8. ASSUME NEW i \in 1 .. Len(new), NEW j \in 1 .. Len(new), Neighbours(new, s, i, j)
      PROVE  new[j].index = 1 \/ new[i].left = new[j].left
  <2>0. i \in Int /\ j \in Int /\ i # 0 /\ j # Len(new) + 1
    BY <1>0
  <2>1. i < j /\ new[i].stream = s /\ new[j].stream = s /\ \A k \in i + 1 .. j - 1 : new[k].stream # s
    BY <1>8, <2>0 DEF Neighbours
  <2>2. CASE j < p
    <3>1. i < p
      BY <1>4, <2>0, <2>1, <2>2
    <3>2. /\ i \in 1 .. Len(old) /\ new[i] = old[i]
          /\ j \in 1 .. Len(old) /\ new[j] = old[j]
      BY <1>3, <1>4, <2>1, <2>2, <3>1
    <3>3. \A k \in i + 1 .. j - 1 : old[k].stream # s
      <4> TAKE k \in i + 1 .. j - 1
      <4>1. k \in 1 .. Len(new) /\ k < p /\ ~(p <= k) /\ ~(p + m <= k)
        BY <1>0, <2>0, <2>2
      <4>2. new[k] = old[k]
        BY <1>9, <4>1
      <4> QED
        BY <2>1, <4>2
    <3>4. Neighbours(old, s, i, j)
      BY <2>1, <3>2, <3>3 DEF Neighbours
    <3> QED
      BY <1>5, <3>2, <3>4
  <2>3. CASE j = p
    BY <1>3, <1>4, <2>1, <2>3
  <2>4. CASE j > p
    <3>1. new[j].left = TX_DEADLINE
      BY <1>3, <1>4, <2>0, <2>1, <2>4
    <3>2. p \in 1 .. Len(new) /\ p <= p /\ p < p + m
      <4>1. j < p + m
        BY <1>3, <1>4, <2>0, <2>1, <2>4
      <4> QED
        BY <1>0, <1>4, <2>0, <2>4, <4>1
    <3>3. new[p].stream = s
      <4>1. p - p + 1 = 1 /\ 1 \in 1 .. m /\ ~(p < p) /\ ~(p + m <= p)
        BY <1>4, <3>2
      <4>2. new[p] = frames[p - p + 1]
        BY <1>9, <3>2, <4>1
      <4> QED
        BY <1>1, <4>1, <4>2
    <3>4. ~(p \in i + 1 .. j - 1)
      BY <2>1, <3>3
    <3>5. ~(i < p)
      BY <1>4, <2>0, <2>4, <3>4
    <3>6. new[i].left = TX_DEADLINE
      BY <1>3, <2>1, <3>5
    <3> QED
      BY <3>1, <3>6
  <2> QED
    BY <1>4, <2>0, <2>2, <2>3, <2>4
<1> QED
  BY <1>6, <1>7, <1>8 DEF Rising

\* The tail: telemetry that leaves the reserve alone.
LEMMA InTailOfTelemetry ==
  ASSUME NEW new \in Seq(Frame), Len(new) < CAPACITY - RESERVE + Frames[Longest]
  PROVE  InTail(new)
BY LenProperties, Constants DEF InTail

\* The tail: frames that go before all telemetry.
LEMMA InTailOfOthers ==
  ASSUME NEW old \in Seq(Frame), NEW new \in Seq(Frame), NEW frames \in Seq(Frame), NEW p \in Int,
         Inserted(old, new, frames, p),
         \A k \in 1 .. Len(frames) : frames[k].stream \notin Telemetry,
         \A k \in 1 .. p - 1 : old[k].stream \notin Telemetry,
         InTail(old)
  PROVE  InTail(new)
<1> DEFINE m == Len(frames)
<1> SUFFICES ASSUME NEW i \in 1 .. Len(new), new[i].stream \in Telemetry
             PROVE  Len(new) - i + 1 < CAPACITY - RESERVE + Frames[Longest]
  BY DEF InTail
<1>1. /\ Len(old) \in Nat /\ m \in Nat /\ Len(new) = Len(old) + m
  BY LenProperties, InsertedPlaces
<1>9. Origins(old, new, frames, p)
  BY InsertedPlaces
<1>2. \/ i < p /\ i \in 1 .. Len(old) /\ new[i] = old[i]
      \/ i - p + 1 \in 1 .. m /\ new[i] = frames[i - p + 1]
      \/ i - m \in p .. Len(old) /\ new[i] = old[i - m]
  BY <1>9 DEF Origins
<1> DEFINE x == i - m
<1>3. x \in p .. Len(old) /\ new[i] = old[x] /\ x \in Int
  <2>1. i < p => i \in 1 .. p - 1
    OBVIOUS
  <2> QED
    BY <1>1, <1>2, <2>1
<1>4. x \in 1 .. Len(old)
  BY <1>3, InsertedPlaces, <1>1
<1>5. Len(old) - x + 1 = Len(new) - i + 1
  BY <1>1
<1> HIDE DEF x, m
<1>6. Len(old) - x + 1 < CAPACITY - RESERVE + Frames[Longest]
  BY <1>3, <1>4 DEF InTail
<1> QED
  BY <1>5, <1>6

-----------------------------------------------------------------------------
(* What the invariant says of a queue, when frames are taken out. *)

\* The head is taken out.
LEMMA TailThins ==
  ASSUME NEW queue \in Seq(Frame), queue # <<>>
  PROVE  /\ Tail(queue) \in Seq(Frame) /\ Len(Tail(queue)) = Len(queue) - 1
         /\ \E f : Thinned(queue, Tail(queue), f) /\ Gone(queue, Tail(queue), f) = {1}
<1> DEFINE n == Len(queue)
           new == Tail(queue)
           f == [k \in 0 .. Len(new) + 1 |-> IF k = 0 THEN 0 ELSE k + 1]
<1>1. n \in Nat /\ n >= 1
  BY EmptySeq, LenProperties
<1>2. new \in Seq(Frame) /\ Len(new) = n - 1 /\ \A k \in 1 .. n - 1 : new[k] = queue[k + 1]
  BY HeadTailProperties
<1> HIDE DEF new, n
<1>3. \A k \in 0 .. n : f[k] = IF k = 0 THEN 0 ELSE k + 1
  BY <1>1, <1>2
<1>4. f \in [0 .. Len(new) + 1 -> 0 .. n + 1]
  BY <1>1, <1>2
<1> HIDE DEF f
<1>5. f[0] = 0 /\ f[Len(new) + 1] = n + 1
  BY <1>1, <1>2, <1>3
<1>6. \A k, l \in 0 .. Len(new) + 1 : k < l => f[k] < f[l]
  <2>1. Len(new) + 1 = n
    BY <1>1, <1>2
  <2> SUFFICES ASSUME NEW k \in 0 .. n, NEW l \in 0 .. n, k < l PROVE f[k] < f[l]
    BY <2>1
  <2>2. f[l] = l + 1 /\ (f[k] = 0 \/ f[k] = k + 1)
    BY <1>1, <1>3
  <2> QED
    BY <1>1, <2>2
<1>7. \A k \in 1 .. Len(new) : new[k] = queue[f[k]]
  BY <1>1, <1>2, <1>3
<1>8. Thinned(queue, new, f)
  BY <1>4, <1>5, <1>6, <1>7 DEF Thinned, n
<1>9. Gone(queue, new, f) = {1}
  <2>1. ASSUME NEW x \in 1 .. n
        PROVE  (\A k \in 1 .. Len(new) : f[k] # x) <=> x = 1
    <3>1. x # 1 => x - 1 \in 1 .. Len(new) /\ f[x - 1] = x
      BY <1>1, <1>2, <1>3
    <3>2. \A k \in 1 .. Len(new) : f[k] # 1
      BY <1>1, <1>2, <1>3
    <3> QED
      BY <3>1, <3>2
  <2>2. 1 \in 1 .. n
    BY <1>1
  <2> QED
    BY <2>1, <2>2 DEF Gone, n
<1> QED
  BY <1>2, <1>8, <1>9 DEF new, n

\* All frames are taken out.
LEMMA EmptyThins ==
  ASSUME NEW queue \in Seq(Frame)
  PROVE  /\ <<>> \in Seq(Frame) /\ Len(<<>>) = 0
         /\ \E f : Thinned(queue, <<>>, f) /\ Gone(queue, <<>>, f) = 1 .. Len(queue)
<1> DEFINE f == [k \in 0 .. 1 |-> IF k = 0 THEN 0 ELSE Len(queue) + 1]
<1>1. Len(queue) \in Nat /\ <<>> \in Seq(Frame) /\ Len(<<>>) = 0
  BY LenProperties, EmptySeq
<1>2. f \in [0 .. 1 -> 0 .. Len(queue) + 1] /\ f[0] = 0 /\ f[1] = Len(queue) + 1
  BY <1>1
<1> HIDE DEF f
<1>3. \A k, l \in 0 .. 1 : k < l => f[k] < f[l]
  <2>1. \A k, l \in 0 .. 1 : k < l => k = 0 /\ l = 1
    OBVIOUS
  <2> QED
    BY <1>1, <1>2, <2>1
<1>4. Thinned(queue, <<>>, f)
  BY <1>1, <1>2, <1>3 DEF Thinned
<1>5. Gone(queue, <<>>, f) = 1 .. Len(queue)
  BY <1>1 DEF Gone
<1> QED
  BY <1>1, <1>4, <1>5

\* Behind a place, no frame is added.
LEMMA ThinnedTail ==
  ASSUME NEW old \in Seq(Frame), NEW new \in Seq(Frame), NEW f, Thinned(old, new, f),
         NEW k \in 1 .. Len(new)
  PROVE  Len(new) - k <= Len(old) - f[k]
<1> DEFINE S == k .. Len(new)
           T == f[k] .. Len(old)
           h == [x \in S |-> f[x]]
<1>0. /\ Len(old) \in Nat /\ Len(new) \in Nat /\ k \in Int
      /\ \A l \in 1 .. Len(new) : f[l] \in 1 .. Len(old) /\ f[l] \in Int
      /\ \A i, j \in 1 .. Len(new) : i < j <=> f[i] < f[j]
  BY ThinnedPlaces
<1>1. \A x \in S : x \in 1 .. Len(new) /\ x \in Int /\ k <= x
  BY <1>0
<1>2. ASSUME NEW x \in S
      PROVE  f[x] \in T
  <2>1. x \in 1 .. Len(new) /\ x \in Int /\ (k < x \/ k = x) /\ k \in 1 .. Len(new)
    BY <1>0, <1>1
  <2>2. f[k] \in Int /\ f[x] \in Int /\ f[x] <= Len(old) /\ (f[k] < f[x] \/ f[k] = f[x])
    BY <1>0, <2>1
  <2> QED
    BY <1>0, <2>2
<1>3. h \in Injection(S, T)
  <2>1. h \in [S -> T]
    BY <1>2
  <2>2. ASSUME NEW x \in S, NEW y \in S, h[x] = h[y]
        PROVE  x = y
    <3>1. f[x] = f[y] /\ x \in 1 .. Len(new) /\ y \in 1 .. Len(new) /\ x \in Int /\ y \in Int
      BY <1>1, <2>2
    <3>2. ~(f[x] < f[y]) /\ ~(f[y] < f[x])
      BY <1>0, <3>1
    <3>3. ~(x < y) /\ ~(y < x)
      BY <1>0, <3>1, <3>2
    <3> QED
      BY <3>1, <3>3
  <2> HIDE DEF h, S, T
  <2> QED
    BY <2>1, <2>2 DEF Injection, IsInjective
<1>4. f[k] \in Int /\ f[k] <= Len(old)
  BY <1>0
<1>5. /\ Cardinality(S) = Len(new) - k + 1
      /\ IsFiniteSet(T) /\ Cardinality(T) = Len(old) - f[k] + 1
  <2>1. Cardinality(S) = Len(new) - k + 1
    BY <1>0, FS_Interval
  <2>2. IsFiniteSet(T) /\ Cardinality(T) = IF f[k] > Len(old) THEN 0 ELSE Len(old) - f[k] + 1
    <3>1. \A a, b \in Int :
            IsFiniteSet(a .. b) /\ Cardinality(a .. b) = IF a > b THEN 0 ELSE b - a + 1
      BY FS_Interval
    <3>2. Len(old) \in Int
      BY <1>0
    <3> QED
      BY <1>4, <3>1, <3>2, Zenon
  <2> QED
    BY <1>0, <1>4, <2>1, <2>2
<1>6. Cardinality(S) <= Cardinality(T)
  <2> HIDE DEF S, T, h
  <2> QED
    BY <1>3, <1>5, FS_Injection
<1> QED
  BY <1>0, <1>4, <1>5, <1>6

\* No frame is past the end of its transfer; the order of the queue; the tail.
LEMMA ThinnedKeeps ==
  ASSUME NEW old \in Seq(Frame), NEW new \in Seq(Frame), NEW f, Thinned(old, new, f)
  PROVE  /\ InRange(old) => InRange(new)
         /\ Sorted(old) => Sorted(new)
         /\ InTail(old) => InTail(new)
<1>0. /\ Len(old) \in Nat /\ Len(new) \in Nat
      /\ \A k \in 1 .. Len(new) : f[k] \in 1 .. Len(old) /\ new[k] = old[f[k]] /\ f[k] \in Int
      /\ \A i, j \in 1 .. Len(new) : i < j => f[i] < f[j]
  <2>1. /\ Len(old) \in Nat /\ Len(new) \in Nat
        /\ \A k \in 1 .. Len(new) : f[k] \in 1 .. Len(old) /\ new[k] = old[f[k]]
        /\ \A k, l \in 0 .. Len(new) + 1 : k < l <=> f[k] < f[l]
    BY ThinnedPlaces
  <2>2. \A k \in 1 .. Len(new) : k \in 0 .. Len(new) + 1
    BY <2>1
  <2> QED
    BY <2>1, <2>2
<1>1. ASSUME InRange(old)
      PROVE  InRange(new)
  BY <1>0, <1>1 DEF InRange
<1>2. ASSUME Sorted(old)
      PROVE  Sorted(new)
  <2> SUFFICES ASSUME NEW i \in 1 .. Len(new), NEW j \in 1 .. Len(new), i <= j
               PROVE  CanId[new[i].stream] <= CanId[new[j].stream]
    BY DEF Sorted
  <2>1. i = j \/ i < j
    OBVIOUS
  <2>2. f[i] <= f[j]
    BY <1>0, <2>1
  <2> QED
    BY <1>0, <1>2, <2>2 DEF Sorted
<1>3. ASSUME InTail(old)
      PROVE  InTail(new)
  <2> SUFFICES ASSUME NEW i \in 1 .. Len(new), new[i].stream \in Telemetry
               PROVE  Len(new) - i + 1 < CAPACITY - RESERVE + Frames[Longest]
    BY DEF InTail
  <2>1. Len(new) - i <= Len(old) - f[i]
    BY ThinnedTail
  <2>2. Len(old) - f[i] + 1 < CAPACITY - RESERVE + Frames[Longest]
    BY <1>0, <1>3 DEF InTail
  <2> QED
    BY <1>0, <2>1, <2>2, Constants
<1> QED
  BY <1>1, <1>2, <1>3

\* Neighbours stay neighbours when what is lost of the stream comes first.
LEMMA NeighboursOfThinned ==
  ASSUME NEW old \in Seq(Frame), NEW new \in Seq(Frame), NEW f, Thinned(old, new, f),
         NEW s \in Streams,
         \A x \in Gone(old, new, f), i \in 1 .. Len(old) :
           i < x /\ old[i].stream = s /\ old[x].stream = s => i \in Gone(old, new, f),
         NEW i \in 1 .. Len(new), NEW j \in 1 .. Len(new), Neighbours(new, s, i, j)
  PROVE  Neighbours(old, s, f[i], f[j])
<1> DEFINE gone == Gone(old, new, f)
           I == f[i]
           J == f[j]
<1>0. /\ Len(old) \in Nat /\ Len(new) \in Nat
      /\ \A k \in 1 .. Len(new) : f[k] \in 1 .. Len(old) /\ new[k] = old[f[k]]
      /\ \A k, l \in 0 .. Len(new) + 1 : k < l <=> f[k] < f[l]
      /\ \A k \in 1 .. Len(new) : f[k] \notin gone
      /\ \A x \in 1 .. Len(old) : x \notin gone => \E k \in 1 .. Len(new) : f[k] = x
  BY ThinnedPlaces
<1>1. \A x \in gone, y \in 1 .. Len(old) :
        y < x /\ old[y].stream = s /\ old[x].stream = s => y \in gone
  OBVIOUS
<1> HIDE DEF gone
<1>2. /\ i \in Int /\ j \in Int /\ i # 0 /\ j # Len(new) + 1
      /\ i \in 0 .. Len(new) + 1 /\ j \in 0 .. Len(new) + 1
  BY <1>0
<1>3. /\ i < j /\ new[i].stream = s /\ new[j].stream = s
      /\ \A k \in i + 1 .. j - 1 : new[k].stream # s
  BY <1>2 DEF Neighbours
<1>4. /\ I \in 1 .. Len(old) /\ J \in 1 .. Len(old) /\ I < J /\ I \notin gone
      /\ old[I].stream = s /\ old[J].stream = s
  BY <1>0, <1>2, <1>3
<1>5. ASSUME NEW x \in I + 1 .. J - 1, old[x].stream = s
      PROVE  FALSE
  <2>1. x \in 1 .. Len(old) /\ x \in Int /\ I < x /\ x < J
    <3>1. Len(old) \in Nat
      BY <1>0
    <3> HIDE DEF I, J
    <3> QED
      BY <1>4, <3>1
  <2>2. x \notin gone
    BY <1>1, <1>4, <1>5, <2>1
  <2>3. PICK k \in 1 .. Len(new) : f[k] = x
    BY <1>0, <2>1, <2>2
  <2>4. k \in 0 .. Len(new) + 1 /\ k \in Int /\ i < k /\ k < j
    <3>1. k \in 0 .. Len(new) + 1 /\ k \in Int
      BY <1>0
    <3>2. f[i] < f[k] /\ f[k] < f[j]
      BY <2>1, <2>3
    <3> QED
      BY <1>0, <1>2, <3>1, <3>2
  <2>5. k \in i + 1 .. j - 1 /\ new[k] = old[x]
    BY <1>0, <1>2, <2>3, <2>4
  <2> QED
    BY <1>3, <1>5, <2>5
<1>6. I # 0 /\ J # Len(old) + 1
  BY <1>0, <1>4
<1> HIDE DEF I, J
<1>7. Neighbours(old, s, I, J)
  BY <1>4, <1>5, <1>6 DEF Neighbours
<1> QED
  BY <1>7 DEF I, J

\* Deadlines, when what is lost of the stream comes first.
LEMMA RisingOfThinned ==
  ASSUME NEW old \in Seq(Frame), NEW new \in Seq(Frame), NEW f, Thinned(old, new, f),
         NEW s \in Streams,
         \A x \in Gone(old, new, f), i \in 1 .. Len(old) :
           i < x /\ old[i].stream = s /\ old[x].stream = s => i \in Gone(old, new, f),
         Rising(old, s)
  PROVE  Rising(new, s)
<1>0. /\ Len(old) \in Nat /\ Len(new) \in Nat
      /\ \A k \in 1 .. Len(new) : f[k] \in 1 .. Len(old) /\ new[k] = old[f[k]] /\ f[k] \in Int
      /\ \A i, j \in 1 .. Len(new) : i < j => f[i] < f[j]
  <2>1. /\ Len(old) \in Nat /\ Len(new) \in Nat
        /\ \A k \in 1 .. Len(new) : f[k] \in 1 .. Len(old) /\ new[k] = old[f[k]]
        /\ \A k, l \in 0 .. Len(new) + 1 : k < l <=> f[k] < f[l]
    BY ThinnedPlaces
  <2>2. \A k \in 1 .. Len(new) : k \in 0 .. Len(new) + 1
    BY <2>1
  <2> QED
    BY <2>1, <2>2
<1>4. \A i, j \in 1 .. Len(old) :
        i <= j /\ old[i].stream = s /\ old[j].stream = s => old[i].left <= old[j].left
  BY DEF Rising
<1>5. \A i, j \in 1 .. Len(old) :
        Neighbours(old, s, i, j) => old[j].index = 1 \/ old[i].left = old[j].left
  BY DEF Rising
<1>1. ASSUME NEW j \in 1 .. Len(new), new[j].stream = s
      PROVE  new[j].left <= TX_DEADLINE
  BY <1>0, <1>1 DEF Rising
<1>2. ASSUME NEW i \in 1 .. Len(new), NEW j \in 1 .. Len(new),
             i <= j, new[i].stream = s, new[j].stream = s
      PROVE  new[i].left <= new[j].left
  <2>1. i = j \/ i < j
    BY <1>2
  <2>2. f[i] <= f[j]
    BY <1>0, <2>1
  <2>3. /\ f[i] \in 1 .. Len(old) /\ new[i] = old[f[i]]
        /\ f[j] \in 1 .. Len(old) /\ new[j] = old[f[j]]
    BY <1>0
  <2> QED
    BY <1>2, <1>4, <2>2, <2>3
<1>3. ASSUME NEW i \in 1 .. Len(new), NEW j \in 1 .. Len(new), Neighbours(new, s, i, j)
      PROVE  new[j].index = 1 \/ new[i].left = new[j].left
  <2>1. Neighbours(old, s, f[i], f[j])
    BY <1>3, NeighboursOfThinned
  <2>2. /\ f[i] \in 1 .. Len(old) /\ new[i] = old[f[i]]
        /\ f[j] \in 1 .. Len(old) /\ new[j] = old[f[j]]
    BY <1>0
  <2> QED
    BY <1>5, <2>1, <2>2
<1> QED
  BY <1>1, <1>2, <1>3 DEF Rising

-----------------------------------------------------------------------------
(* The queue behind the mailboxes. *)

\* The frames of a queue behind some others.
LEMMA Behinds ==
  ASSUME NEW first \in Seq(Frame), NEW queue \in Seq(Frame)
  PROVE  LET a == Len(first)
             n == Len(queue)
             line == first \o queue
         IN  /\ a \in Nat /\ n \in Nat /\ line \in Seq(Frame) /\ Len(line) = a + n
             /\ \A k \in 1 .. a : line[k] = first[k]
             /\ \A k \in 1 .. n : line[a + k] = queue[k]
             /\ \A k \in a + 1 .. a + n : line[k] = queue[k - a] /\ k - a \in 1 .. n
<1> DEFINE a == Len(first)
           n == Len(queue)
           line == first \o queue
<1>1. a \in Nat /\ n \in Nat
  BY LenProperties
<1>2. /\ line \in Seq(Frame) /\ Len(line) = a + n
      /\ \A k \in 1 .. a + n : line[k] = IF k <= a THEN first[k] ELSE queue[k - a]
  BY Concatenation
<1> HIDE DEF line, a, n
<1>3. \A k \in 1 .. a : line[k] = first[k]
  <2> TAKE k \in 1 .. a
  <2>1. k \in 1 .. a + n /\ k <= a
    BY <1>1
  <2> QED
    BY <1>2, <2>1
<1>4. ASSUME NEW k \in a + 1 .. a + n
      PROVE  line[k] = queue[k - a] /\ k - a \in 1 .. n
  BY <1>1, <1>2
<1>5. ASSUME NEW k \in 1 .. n
      PROVE  line[a + k] = queue[k]
  <2>1. a + k \in a + 1 .. a + n /\ (a + k) - a = k
    BY <1>1
  <2>2. line[a + k] = queue[(a + k) - a]
    BY <1>4, <2>1
  <2> QED
    BY <2>1, <2>2
<1> QED
  BY <1>1, <1>2, <1>3, <1>4, <1>5 DEF line, a, n

\* Frames put into the queue are put into the line.
LEMMA InsertedBehind ==
  ASSUME NEW first \in Seq(Frame), NEW old \in Seq(Frame), NEW new \in Seq(Frame),
         NEW frames \in Seq(Frame), NEW p \in Int, Inserted(old, new, frames, p)
  PROVE  /\ Inserted(first \o old, first \o new, frames, Len(first) + p)
         /\ \A s \in Streams : NoneFrom(old, s, p) => NoneFrom(first \o old, s, Len(first) + p)
<1> DEFINE a == Len(first)
           n == Len(old)
           m == Len(frames)
           lold == first \o old
           lnew == first \o new
<1>1. /\ a \in Nat /\ n \in Nat /\ Len(lold) = a + n
      /\ \A k \in 1 .. a : lold[k] = first[k]
      /\ \A k \in 1 .. n : lold[a + k] = old[k]
      /\ \A k \in a + 1 .. a + n : lold[k] = old[k - a] /\ k - a \in 1 .. n
  BY Behinds
<1>2. /\ Len(new) \in Nat /\ Len(lnew) = a + Len(new)
      /\ \A k \in 1 .. a : lnew[k] = first[k]
      /\ \A k \in 1 .. Len(new) : lnew[a + k] = new[k]
      /\ \A k \in a + 1 .. a + Len(new) : lnew[k] = new[k - a] /\ k - a \in 1 .. Len(new)
  BY Behinds
<1>3. /\ p \in 1 .. n + 1 /\ Len(new) = n + m /\ m \in Nat
      /\ \A k \in 1 .. p - 1 : new[k] = old[k]
      /\ \A k \in 1 .. m : new[k + p - 1] = frames[k]
      /\ \A k \in p .. n : new[k + m] = old[k]
  BY LenProperties DEF Inserted
<1> HIDE DEF a, n, m, lold, lnew
<1>4. a + p \in 1 .. Len(lold) + 1 /\ Len(lnew) = Len(lold) + m
  BY <1>1, <1>2, <1>3
<1>5. ASSUME NEW k \in 1 .. (a + p) - 1
      PROVE  lnew[k] = lold[k]
  <2>1. CASE k <= a
    BY <1>1, <1>2, <2>1
  <2>2. CASE k > a
    <3>1. /\ k \in a + 1 .. a + n /\ k \in a + 1 .. a + Len(new)
          /\ k - a \in 1 .. p - 1
      BY <1>1, <1>2, <1>3, <2>2
    <3>2. lnew[k] = new[k - a] /\ lold[k] = old[k - a]
      BY <1>1, <1>2, <3>1
    <3>3. new[k - a] = old[k - a]
      BY <1>3, <3>1
    <3> QED
      BY <3>2, <3>3
  <2> QED
    BY <1>1, <2>1, <2>2
<1>6. ASSUME NEW k \in 1 .. m
      PROVE  lnew[k + (a + p) - 1] = frames[k]
  <2> DEFINE x == k + p - 1
  <2>1. x \in 1 .. Len(new) /\ a + x = k + (a + p) - 1
    BY <1>1, <1>3
  <2>2. new[x] = frames[k]
    BY <1>3
  <2> HIDE DEF x
  <2>3. lnew[a + x] = new[x]
    BY <1>2, <2>1
  <2> QED
    BY <2>1, <2>2, <2>3
<1>7. ASSUME NEW k \in a + p .. Len(lold)
      PROVE  lnew[k + m] = lold[k]
  <2> DEFINE x == k - a
  <2>1. x \in p .. n /\ k \in a + 1 .. a + n /\ x + m \in 1 .. Len(new) /\ a + (x + m) = k + m
    BY <1>1, <1>3
  <2>2. lold[k] = old[x]
    BY <1>1, <2>1
  <2> HIDE DEF x
  <2>3. new[x + m] = old[x]
    BY <1>3, <2>1
  <2>4. lnew[a + (x + m)] = new[x + m]
    BY <1>2, <2>1
  <2> QED
    BY <2>1, <2>2, <2>3, <2>4
<1>8. Inserted(lold, lnew, frames, a + p)
  BY <1>4, <1>5, <1>6, <1>7 DEF Inserted, m
<1>9. ASSUME NEW s \in Streams, NoneFrom(old, s, p)
      PROVE  NoneFrom(lold, s, a + p)
  <2> SUFFICES ASSUME NEW k \in a + p .. Len(lold)
               PROVE  lold[k].stream # s
    BY DEF NoneFrom
  <2>1. k \in a + 1 .. a + n /\ k - a \in p .. n
    BY <1>1, <1>3
  <2>2. lold[k] = old[k - a]
    BY <1>1, <2>1
  <2>3. old[k - a].stream # s
    BY <1>9, <2>1 DEF NoneFrom, n
  <2> QED
    BY <2>2, <2>3
<1> QED
  BY <1>8, <1>9 DEF a, lold, lnew

\* Frames taken out of the queue are taken out of the line.
LEMMA ThinnedBehind ==
  ASSUME NEW first \in Seq(Frame), NEW old \in Seq(Frame), NEW new \in Seq(Frame),
         NEW f, Thinned(old, new, f)
  PROVE  \E h :
           /\ Thinned(first \o old, first \o new, h)
           /\ \A x \in 1 .. Len(first \o old) :
                x \in Gone(first \o old, first \o new, h) <=>
                  x > Len(first) /\ x - Len(first) \in Gone(old, new, f)
<1> DEFINE a == Len(first)
           n == Len(old)
           m == Len(new)
           lold == first \o old
           lnew == first \o new
           h == [k \in 0 .. a + m + 1 |-> IF k <= a THEN k ELSE a + f[k - a]]
<1>1. /\ a \in Nat /\ n \in Nat /\ Len(lold) = a + n
      /\ \A k \in 1 .. a : lold[k] = first[k]
      /\ \A k \in 1 .. n : lold[a + k] = old[k]
  BY Behinds
<1>2. /\ m \in Nat /\ Len(lnew) = a + m
      /\ \A k \in 1 .. a : lnew[k] = first[k]
      /\ \A k \in a + 1 .. a + m : lnew[k] = new[k - a] /\ k - a \in 1 .. m
  BY Behinds
<1>3. /\ \A k \in 0 .. m + 1 : f[k] \in 0 .. n + 1 /\ f[k] \in Int
      /\ \A k \in 1 .. m : f[k] \in 1 .. n /\ new[k] = old[f[k]]
      /\ \A k, l \in 0 .. m + 1 : k < l <=> f[k] < f[l]
  BY ThinnedPlaces
<1>4. f[0] = 0 /\ f[m + 1] = n + 1
  BY DEF Thinned
<1> HIDE DEF a, n, m, lold, lnew
<1>5. \A k \in 0 .. a + m + 1 :
        /\ k <= a => h[k] = k
        /\ k >= a => k - a \in 0 .. m + 1 /\ h[k] = a + f[k - a]
  <2> TAKE k \in 0 .. a + m + 1
  <2>1. k - a \in Int /\ k \in Int /\ h[k] = IF k <= a THEN k ELSE a + f[k - a]
    BY <1>1, <1>2
  <2>2. CASE k < a
    BY <1>1, <2>1, <2>2
  <2>3. CASE k = a
    <3>1. k - a = 0 /\ f[k - a] = 0
      BY <1>1, <1>4, <2>3
    <3> QED
      BY <1>1, <1>2, <2>1, <2>3, <3>1
  <2>4. CASE k > a
    BY <1>1, <1>2, <2>1, <2>4
  <2> QED
    BY <1>1, <2>1, <2>2, <2>3, <2>4
<1>6. h \in [0 .. a + m + 1 -> 0 .. a + n + 1]
  <2>1. ASSUME NEW k \in 0 .. a + m + 1
        PROVE  h[k] \in 0 .. a + n + 1
    <3>1. CASE k <= a
      BY <1>1, <1>5, <3>1
    <3>2. CASE k > a
      <4>1. k - a \in 0 .. m + 1 /\ h[k] = a + f[k - a]
        BY <1>1, <1>5, <3>2
      <4>2. f[k - a] \in 0 .. n + 1
        BY <1>3, <4>1
      <4>3. a \in Nat /\ n \in Nat
        BY <1>1
      <4> QED
        BY <4>1, <4>2, <4>3
    <3> QED
      BY <1>1, <3>1, <3>2
  <2>2. h = [k \in 0 .. a + m + 1 |-> h[k]]
    OBVIOUS
  <2> HIDE DEF h
  <2> QED
    BY <2>1, <2>2
<1> HIDE DEF h
<1>7. h[0] = 0 /\ h[a + m + 1] = a + n + 1
  <2>1. 0 \in 0 .. a + m + 1 /\ 0 <= a /\ a + m + 1 \in 0 .. a + m + 1 /\ a + m + 1 >= a
        /\ (a + m + 1) - a = m + 1
    BY <1>1, <1>2
  <2>2. h[a + m + 1] = a + f[m + 1]
    BY <1>5, <2>1
  <2> QED
    BY <1>1, <1>4, <1>5, <2>1, <2>2
<1>8. ASSUME NEW k \in 0 .. a + m + 1, NEW l \in 0 .. a + m + 1, k < l
      PROVE  h[k] < h[l]
  <2>0. k \in Int /\ l \in Int /\ a \in Int
    BY <1>1
  <2>1. CASE l <= a
    BY <1>5, <1>8, <2>0, <2>1
  <2>2. CASE k <= a /\ l > a
    <3>1. h[k] = k /\ h[l] = a + f[l - a] /\ l - a \in 0 .. m + 1 /\ 0 \in 0 .. m + 1 /\ 0 < l - a
      BY <1>2, <1>5, <2>0, <2>2
    <3>2. f[0] < f[l - a]
      BY <1>3, <3>1
    <3>3. f[l - a] \in Int
      BY <1>3, <3>1
    <3> QED
      BY <1>4, <2>0, <2>2, <3>1, <3>2, <3>3
  <2>3. CASE k > a
    <3>1. /\ h[k] = a + f[k - a] /\ k - a \in 0 .. m + 1
          /\ h[l] = a + f[l - a] /\ l - a \in 0 .. m + 1 /\ k - a < l - a
      BY <1>5, <1>8, <2>0, <2>3
    <3>2. f[k - a] < f[l - a] /\ f[k - a] \in Int /\ f[l - a] \in Int
      BY <1>3, <3>1
    <3> QED
      BY <2>0, <3>1, <3>2
  <2> QED
    BY <1>8, <2>0, <2>1, <2>2, <2>3
<1>9. ASSUME NEW k \in 1 .. a + m
      PROVE  lnew[k] = lold[h[k]]
  <2>0. k \in Int /\ k \in 0 .. a + m + 1
    BY <1>1, <1>2
  <2>1. CASE k <= a
    BY <1>1, <1>2, <1>5, <2>0, <2>1
  <2>2. CASE k > a
    <3>1. k \in a + 1 .. a + m /\ h[k] = a + f[k - a]
      BY <1>1, <1>2, <1>5, <2>0, <2>2
    <3>2. lnew[k] = new[k - a] /\ k - a \in 1 .. m
      BY <1>2, <3>1
    <3>3. f[k - a] \in 1 .. n /\ new[k - a] = old[f[k - a]]
      BY <1>3, <3>2
    <3>4. lold[a + f[k - a]] = old[f[k - a]]
      BY <1>1, <3>3
    <3> QED
      BY <3>1, <3>2, <3>3, <3>4
  <2> QED
    BY <1>1, <2>0, <2>1, <2>2
<1>10. Thinned(lold, lnew, h)
  <2>1. Len(lold) = a + n /\ Len(lnew) = a + m
    BY <1>1, <1>2
  <2> QED
    BY <1>6, <1>7, <1>8, <1>9, <2>1 DEF Thinned
<1>11. ASSUME NEW x \in 1 .. a + n
       PROVE  x \in Gone(lold, lnew, h) <=> x > a /\ x - a \in Gone(old, new, f)
  <2>0. x \in Int /\ a \in Int
    BY <1>1
  <2>1. x \in Gone(lold, lnew, h) <=> \A k \in 1 .. a + m : h[k] # x
    BY <1>1, <1>2 DEF Gone
  <2>2. CASE x <= a
    <3>1. x \in 1 .. a + m /\ x \in 0 .. a + m + 1
      BY <1>1, <1>2, <2>2
    <3>2. h[x] = x
      BY <1>5, <2>2, <3>1
    <3> QED
      BY <2>0, <2>1, <2>2, <3>1, <3>2
  <2>3. CASE x > a
    <3>0. x - a \in 1 .. n
      BY <1>1, <2>3
    <3>1. x - a \in Gone(old, new, f) <=> \A k \in 1 .. m : f[k] # x - a
      BY <3>0 DEF Gone, n, m
    <3>2. ASSUME NEW k \in 1 .. m, f[k] = x - a
          PROVE  \E l \in 1 .. a + m : h[l] = x
      <4>1. a + k \in 1 .. a + m /\ a + k \in 0 .. a + m + 1 /\ a + k >= a /\ (a + k) - a = k
        BY <1>1, <1>2
      <4>2. h[a + k] = a + f[k]
        BY <1>5, <4>1
      <4>3. a + (x - a) = x
        BY <2>0
      <4> QED
        BY <3>2, <4>1, <4>2, <4>3
    <3>3. ASSUME NEW l \in 1 .. a + m, h[l] = x
          PROVE  \E k \in 1 .. m : f[k] = x - a
      <4>1. l \in 0 .. a + m + 1 /\ l \in Int
        BY <1>1, <1>2
      <4>2. l > a
        BY <1>5, <2>0, <2>3, <3>3, <4>1
      <4>3. l - a \in 0 .. m + 1 /\ h[l] = a + f[l - a] /\ l - a \in 1 .. m
        BY <1>1, <1>2, <1>5, <4>1, <4>2
      <4>4. f[l - a] \in Int
        BY <1>3, <4>3
      <4>5. f[l - a] = x - a
        BY <2>0, <3>3, <4>3, <4>4
      <4> QED
        BY <4>3, <4>5
    <3> QED
      BY <2>1, <2>3, <3>1, <3>2, <3>3
  <2> QED
    BY <2>0, <2>2, <2>3
<1> QED
  BY <1>1, <1>10, <1>11 DEF a, lold, lnew

-----------------------------------------------------------------------------
(* Frames thrown away. *)

\* The first frame of a stream that is thrown away begins a transfer, or the cut
\* is noted.
LEMMA CutsAreNoted ==
  ASSUME NEW queue \in Seq(Frame), NEW places \in SUBSET (1 .. Len(queue)), NEW s \in Broadcasts,
         NEW x \in places, queue[x].stream = s,
         \A j \in places : j < x => queue[j].stream # s
  PROVE  queue[x].index = 1 \/ s \in CutBy(queue, places)
<1>1. queue[x].index \in Nat /\ queue[x].index > 0
  BY FrameParts
<1> QED
  BY <1>1 DEF CutBy

\* The frames of a stream that are thrown away come first, and what is left begins
\* with a transfer.
Spoilt(queue, s, places) ==
  /\ \A x \in places, i \in 1 .. Len(queue) :
       i < x /\ queue[i].stream = s /\ queue[x].stream = s => i \in places
  /\ \A x \in places, j \in 1 .. Len(queue) :
       Neighbours(queue, s, x, j) /\ j \notin places => queue[j].index = 1

\* Frames lost from the queue keep the chain from the receiver on.
LEMMA ChainOfLoss ==
  ASSUME NEW first \in Seq(Frame), NEW old \in Seq(Frame), NEW new \in Seq(Frame),
         NEW f, Thinned(old, new, f),
         NEW s \in Broadcasts, NEW g \in Nat, NEW c, NEW d, Frames[s] \in Nat, Frames[s] > 0,
         Spoilt(old, s, Gone(old, new, f)),
         c => d, s \in CutBy(old, Gone(old, new, f)) => d,
         Chain(first \o old, s, g, c)
  PROVE  Chain(first \o new, s, g, d)
<1> DEFINE a == Len(first)
           n == Len(old)
           P == Gone(old, new, f)
           line == first \o old
           rest == first \o new
<1>1. PICK h : /\ Thinned(line, rest, h)
               /\ \A x \in 1 .. Len(line) : x \in Gone(line, rest, h) <=> x > a /\ x - a \in P
  BY ThinnedBehind
<1> DEFINE G == Gone(line, rest, h)
<1>2. /\ a \in Nat /\ n \in Nat /\ line \in Seq(Frame) /\ rest \in Seq(Frame) /\ Len(line) = a + n
      /\ \A k \in a + 1 .. a + n : line[k] = old[k - a] /\ k - a \in 1 .. n
      /\ \A k \in 1 .. n : line[a + k] = old[k]
  BY Behinds
<1>3. P \in SUBSET (1 .. n) /\ G \in SUBSET (1 .. a + n)
  BY <1>2 DEF Gone
<1>4. \A x \in 1 .. a + n : x \in G <=> x > a /\ x - a \in P
  BY <1>1, <1>2
<1>11. s \in CutBy(old, P) => d
  OBVIOUS
<1>12. a \in Nat /\ n \in Nat
  BY <1>2
<1>5. /\ \A x \in P, i \in 1 .. n :
           i < x /\ old[i].stream = s /\ old[x].stream = s => i \in P
      /\ \A x \in P, j \in 1 .. n : Neighbours(old, s, x, j) /\ j \notin P => old[j].index = 1
  BY DEF Spoilt
<1> HIDE DEF P, G, a, n, line, rest
<1>6. ASSUME NEW i \in 0 .. a + n, NEW x \in G, Neighbours(line, s, i, x), i \notin G
      PROVE  line[x].index = 1 \/ d
  <2>1. x \in 1 .. a + n /\ x > a /\ x - a \in P /\ line[x] = old[x - a] /\ x - a \in 1 .. n
    <3>1. x \in 1 .. a + n /\ x > a /\ x - a \in P
      BY <1>3, <1>4
    <3>2. x \in a + 1 .. a + n
      BY <1>2, <3>1
    <3> QED
      BY <1>2, <3>1, <3>2
  <2>2. x # a + n + 1
    BY <2>1, <1>2
  <2>3. /\ i < x /\ line[x].stream = s
        /\ i # 0 => line[i].stream = s
        /\ \A k \in i + 1 .. x - 1 : line[k].stream # s
    BY <1>6, <1>2, <2>2 DEF Neighbours
  <2>4. ASSUME NEW j \in P, j < x - a PROVE old[j].stream # s
    <3>1. SUFFICES ASSUME old[j].stream = s PROVE FALSE
      OBVIOUS
    <3> DEFINE y == a + j
    <3>2. j \in 1 .. n /\ y \in 1 .. a + n /\ line[y] = old[j] /\ y > a /\ y - a = j /\ y < x
      BY <1>2, <1>3, <2>1, <2>4
    <3> HIDE DEF y
    <3>3. y \in G
      <4>1. y - a \in P
        BY <3>2, <2>4
      <4> QED
        BY <1>4, <3>2, <4>1
    <3>4. y \notin i + 1 .. x - 1 /\ y # i
      <4>1. line[y].stream = s
        BY <3>1, <3>2
      <4>2. y # i
        BY <3>3, <1>6
      <4> QED
        BY <2>3, <4>1, <4>2
    <3>5. i > y
      BY <1>12, <2>1, <3>2, <3>4
    <3>6. i \in a + 1 .. a + n /\ i # 0 /\ line[i] = old[i - a] /\ i - a \in 1 .. n /\ i - a < x - a
      <4>1. x \in Int /\ y \in Int /\ i \in Int
        BY <1>12, <2>1, <3>2
      <4>2. i \in a + 1 .. a + n /\ i # 0 /\ i - a < x - a
        BY <1>12, <2>1, <2>3, <3>2, <3>5, <4>1
      <4> QED
        BY <1>2, <4>2
    <3>7. i - a \in P
      BY <3>6, <1>5, <2>1, <2>3
    <3> QED
      BY <3>6, <3>7, <1>4, <1>6, <1>2
  <2>5. old[x - a].stream = s
    BY <2>1, <2>3
  <2>6. old[x - a].index = 1 \/ s \in CutBy(old, P)
    BY <2>1, <2>4, <2>5, <1>3, CutsAreNoted DEF n
  <2> QED
    BY <2>1, <2>6, <1>11
<1>7. ASSUME NEW x \in G, NEW j \in 1 .. a + n, Neighbours(line, s, x, j), j \notin G
      PROVE  line[j].index = 1
  <2>1. x \in 1 .. a + n /\ x > a /\ x - a \in P /\ line[x] = old[x - a] /\ x - a \in 1 .. n
    <3>1. x \in 1 .. a + n /\ x > a /\ x - a \in P
      BY <1>3, <1>4
    <3>2. x \in a + 1 .. a + n
      BY <1>2, <3>1
    <3> QED
      BY <1>2, <3>1, <3>2
  <2>2. j # a + n + 1 /\ x # 0
    BY <2>1, <1>2
  <2>3. /\ x < j /\ line[j].stream = s /\ line[x].stream = s
        /\ \A k \in x + 1 .. j - 1 : line[k].stream # s
    BY <1>7, <1>2, <2>2 DEF Neighbours
  <2>4. j > a /\ line[j] = old[j - a] /\ j - a \in 1 .. n
    <3>1. a \in Nat /\ n \in Nat
      BY <1>2
    <3>2. j > a /\ j \in a + 1 .. a + n
      BY <2>1, <2>3, <3>1
    <3> QED
      BY <1>2, <3>2
  <2>5. ASSUME NEW k \in (x - a) + 1 .. (j - a) - 1 PROVE old[k].stream # s
    <3>1. x \in Int /\ j \in Int /\ k \in Int /\ a \in Int /\ n \in Int
      BY <1>2, <2>1
    <3>3. x - a > 0 /\ j - a <= n
      BY <3>1, <2>1, <2>4
    <3>4. x - a < k /\ k < j - a
      BY <3>1
    <3>2. k \in 1 .. n /\ a + k \in x + 1 .. j - 1
      BY <3>1, <3>3, <3>4
    <3> QED
      BY <3>2, <2>3, <1>2
  <2>6. x - a < j - a /\ j - a # n + 1
    BY <2>1, <2>3, <2>4, <1>2
  <2>7. Neighbours(old, s, x - a, j - a)
    BY <2>1, <2>3, <2>4, <2>5, <2>6 DEF Neighbours, n
  <2>8. j - a \notin P
    BY <2>4, <1>4, <1>7
  <2> QED
    BY <2>1, <2>4, <2>7, <2>8, <1>5
<1>8. Mendable(line, s, Gone(line, rest, h), d)
  BY <1>2, <1>6, <1>7 DEF G, Mendable
<1>9. Chain(line, s, g, c) /\ (c => d) /\ s \in Streams
  BY Constants DEF line
<1>10. Chain(rest, s, g, d)
  BY <1>1, <1>2, <1>8, <1>9, ChainOfThinned, Zenon
<1> QED
  BY <1>10 DEF rest

\* When the mailboxes are thrown away and no frame of the stream is behind them, the
\* last transfer had been completed, or the cut is noted.
LEMMA ChainOfReset ==
  ASSUME NEW first \in Seq(Frame), NEW queue \in Seq(Frame), NEW s \in Broadcasts,
         NEW g \in Nat, NEW c, NEW d, g < Frames[s], Frames[s] \in Nat, Frames[s] > 0,
         c => d, s \in CutBy(first, DOMAIN first) => d,
         NoneFrom(queue, s, 1), Chain(first \o queue, s, g, c)
  PROVE  Chain(<<>> \o queue, s, g, d)
<1> DEFINE a == Len(first)
           n == Len(queue)
           line == first \o queue
           rest == <<>> \o queue
<1>1. /\ a \in Nat /\ n \in Nat /\ line \in Seq(Frame) /\ Len(line) = a + n
      /\ \A k \in 1 .. a : line[k] = first[k]
      /\ \A k \in a + 1 .. a + n : line[k] = queue[k - a] /\ k - a \in 1 .. n
  BY Behinds
<1>2. rest \in Seq(Frame) /\ Len(rest) = n /\ \A k \in 1 .. n : rest[k] = queue[k]
  <2>1. <<>> \in Seq(Frame) /\ Len(<<>>) = 0
    OBVIOUS
  <2>2. /\ rest \in Seq(Frame) /\ Len(rest) = 0 + n
        /\ \A k \in 1 .. n : rest[0 + k] = queue[k]
    BY <2>1, Behinds
  <2> QED
    BY <2>2, <1>1
<1>3. \A k \in 1 .. n : queue[k].stream # s
  BY <1>1 DEF NoneFrom
<1>4. DOMAIN first = 1 .. a /\ 1 .. a \in SUBSET (1 .. a) /\ s \in Streams
  BY FrameParts, Constants
<1> HIDE DEF a, n, line, rest
<1>5. g % Frames[s] = 0 \/ d
  <2>1. PICK j \in 0 + 1 .. Len(line) + 1 : Neighbours(line, s, 0, j)
    <3>1. 0 \in 0 .. Len(line) /\ (0 # 0 => line[0].stream = s)
      BY <1>1
    <3> QED
      BY <1>1, <1>4, <3>1, NeighbourAfter
  <2>2. j \in 1 .. Len(line) + 1 /\ 0 \in 0 .. Len(line) /\ j \in Int
    BY <2>1, <1>1
  <2>3. Chain(line, s, g, c)
    BY DEF line
  <2>4. IF j = Len(line) + 1 THEN g % Frames[s] = 0 \/ c
        ELSE line[j].index = (g % Frames[s]) + 1 \/ (line[j].index = 1 /\ c)
    BY <2>1, <2>2, <2>3, Zenon DEF Chain, Reached
  <2>5. CASE j = Len(line) + 1
    BY <2>4, <2>5
  <2>6. CASE j # Len(line) + 1
    <3>1. line[j].stream = s /\ \A k \in 0 + 1 .. j - 1 : line[k].stream # s
      BY <2>1, <2>6, Zenon DEF Neighbours
    <3>2. j \in 1 .. a + n /\ j \notin a + 1 .. a + n
      <4>1. j \in 1 .. a + n
        <5>1. j \in 1 .. Len(line) /\ Len(line) = a + n
          BY <1>1, <2>2, <2>6
        <5> QED
          BY <5>1
      <4>2. ASSUME j \in a + 1 .. a + n PROVE FALSE
        <5>1. line[j] = queue[j - a] /\ j - a \in 1 .. n
          BY <4>2, <1>1
        <5>2. queue[j - a].stream # s
          BY <5>1, <1>3
        <5> QED
          BY <5>1, <5>2, <3>1
      <4> QED
        BY <4>1, <4>2
    <3>3. j \in 1 .. a /\ first[j].stream = s /\ line[j] = first[j]
      BY <3>1, <3>2, <1>1
    <3>4. \A k \in 1 .. a : k < j => first[k].stream # s
      BY <3>1, <3>3, <1>1
    <3>5. first[j].index = 1 \/ s \in CutBy(first, DOMAIN first)
      BY <3>3, <3>4, <1>4, CutsAreNoted DEF a
    <3>6. first[j].index = (g % Frames[s]) + 1 \/ c
      BY <2>4, <2>6, <3>3
    <3>7. g % Frames[s] \in Int
      <4>1. g \in 0 .. Frames[s] /\ g # Frames[s]
        OBVIOUS
      <4>2. g % Frames[s] = g
        BY <4>1, Wraps
      <4> QED
        BY <4>1, <4>2
    <3>8. first[j].index = 1 \/ d
      BY <3>5
    <3> QED
      BY <3>6, <3>7, <3>8
  <2> QED
    BY <2>5, <2>6
<1>6. ASSUME NEW i \in 0 .. Len(rest), NEW j \in 1 .. Len(rest) + 1, Neighbours(rest, s, i, j)
      PROVE  i = 0 /\ j = Len(rest) + 1
  <2>1. i # 0 => rest[i].stream = s
    BY <1>6, Zenon DEF Neighbours
  <2>2. j # Len(rest) + 1 => rest[j].stream = s
    BY <1>6, Zenon DEF Neighbours
  <2>3. \A k \in 1 .. n : rest[k].stream # s
    BY <1>2, <1>3
  <2>4. Len(rest) = n /\ n \in Nat
    BY <1>1, <1>2
  <2>5. i # 0 => i \in 1 .. n
    BY <2>4
  <2>6. j # n + 1 => j \in 1 .. n
    BY <2>4
  <2> QED
    BY <2>1, <2>2, <2>3, <2>4, <2>5, <2>6
<1>7. Chain(rest, s, g, d)
  BY <1>5, <1>6 DEF Chain, Reached
<1> QED
  BY <1>7 DEF rest

-----------------------------------------------------------------------------
(* What pushTxQueue keeps. *)

\* Frames of one transfer from its start; of telemetry, a whole one with the latest
\* deadline.
Queueable(frames, s) ==
  /\ Len(frames) \in 1 .. Frames[s]
  /\ \A k \in 1 .. Len(frames) : frames[k].stream = s /\ frames[k].index = k
  /\ s \in Telemetry =>
       Len(frames) = Frames[s] /\ \A k \in 1 .. Len(frames) : frames[k].left = TX_DEADLINE

LEMMA PushKeeps ==
  ASSUME NEW first \in Seq(Frame), NEW queue \in Seq(Frame), NEW frames \in Seq(Frame),
         NEW s \in Streams, Queueable(frames, s),
         NEW G \in [Broadcasts -> Nat], NEW C \in SUBSET Broadcasts,
         Sorted(queue), InRange(queue)
  PROVE  LET new == Push(queue, frames)
         IN  /\ new \in Seq(Frame) /\ Len(new) = Len(queue) + Len(frames)
             /\ Sorted(new) /\ InRange(new)
             /\ s \notin Telemetry =>
                  /\ InTail(queue) => InTail(new)
                  /\ \A k \in 1 .. Len(new) : new[k].stream \in Telemetry =>
                       \E i \in 1 .. Len(queue) : new[k] = queue[i]
             /\ \A t \in Telemetry : Rising(queue, t) => Rising(new, t)
             /\ \A t \in Telemetry :
                  Chain(first \o queue, t, G[t], t \in C) => Chain(first \o new, t, G[t], t \in C)
<1> DEFINE new == Push(queue, frames)
           line == first \o queue
           rest == first \o new
           m == Len(frames)
<1>1. /\ m \in Nat /\ m > 0 /\ m <= Frames[s] /\ Frames[s] \in Nat /\ Frames[s] > 0
      /\ \A k \in 1 .. m : frames[k].stream = s /\ frames[k].index = k
      /\ s \in Telemetry => m = Frames[s] /\ \A k \in 1 .. m : frames[k].left = TX_DEADLINE
  BY Constants, LenProperties DEF Queueable
<1>2. /\ new \in Seq(Frame)
      /\ \E p \in 1 .. Len(queue) + 1 :
           /\ Inserted(queue, new, frames, p)
           /\ \A k \in 1 .. p - 1 : ~Behind(queue[k], frames[1])
           /\ p <= Len(queue) => Behind(queue[p], frames[1])
  BY <1>1, PushInserts
<1>3. PICK p \in 1 .. Len(queue) + 1 :
           /\ Inserted(queue, new, frames, p)
           /\ \A k \in 1 .. p - 1 : ~Behind(queue[k], frames[1])
           /\ p <= Len(queue) => Behind(queue[p], frames[1])
  BY <1>2
<1>4. p \in Int /\ Len(queue) \in Nat /\ Len(new) = Len(queue) + m /\ frames[1].stream = s
  BY <1>1, <1>3, LenProperties DEF Inserted
<1>5. \A k \in 1 .. Len(queue) : CanId[queue[k].stream] \in Nat /\ queue[k].stream \in Streams
  BY FrameParts, Identifiers
<1>6. CanId[s] \in Nat
  BY Identifiers
<1>7. \A k \in 1 .. p - 1 : CanId[queue[k].stream] <= CanId[s]
  BY <1>3, <1>4, <1>5, <1>6 DEF Behind
<1>8. p <= Len(queue) => CanId[s] < CanId[queue[p].stream]
  BY <1>3, <1>4, <1>5, <1>6 DEF Behind
<1> HIDE DEF new, m, line, rest
<1>0. new \in Seq(Frame)
  BY <1>2
<1>9. Inserted(queue, new, frames, p)
  BY <1>3
<1>10. Sorted(new) /\ NoneFrom(queue, s, p)
  <2>1. \A k \in 1 .. Len(frames) : frames[k].stream = s
    BY <1>1 DEF m
  <2> QED
    <3>1. p \in Int
      BY <1>4
    <3> QED
      BY <1>0, <3>1, <1>7, <1>8, <1>9, <2>1, SortedOfInserted, Zenon
<1>11. InRange(new)
  <2>1. InRange(frames)
    BY <1>1 DEF InRange, m
  <2> QED
    BY <1>2, <1>4, <1>9, <2>1, InRangeOfInserted
<1>12. ASSUME s \notin Telemetry
       PROVE  /\ InTail(queue) => InTail(new)
              /\ \A k \in 1 .. Len(new) : new[k].stream \in Telemetry =>
                   \E i \in 1 .. Len(queue) : new[k] = queue[i]
  <2>1. \A k \in 1 .. p - 1 : queue[k].stream \notin Telemetry
    <3>1. \A k \in 1 .. p - 1 : k \in 1 .. Len(queue)
      BY <1>4
    <3> QED
      <4> TAKE k \in 1 .. p - 1
      <4>1. CanId[queue[k].stream] \in Nat /\ CanId[queue[k].stream] <= CanId[s]
        BY <1>5, <1>7, <3>1
      <4>2. \A t \in Telemetry : CanId[s] < CanId[t]
        BY <1>12, Identifiers
      <4> QED
        BY <1>6, <4>1, <4>2
  <2>2. \A k \in 1 .. Len(frames) : frames[k].stream \notin Telemetry
    BY <1>1, <1>12 DEF m
  <2>3. InTail(queue) => InTail(new)
    BY <1>2, <1>4, <1>9, <2>1, <2>2, InTailOfOthers
  <2>4. Origins(queue, new, frames, p)
    BY <1>0, <1>4, <1>9, InsertedPlaces
  <2>5. ASSUME NEW k \in 1 .. Len(new), new[k].stream \in Telemetry
        PROVE  \E i \in 1 .. Len(queue) : new[k] = queue[i]
    <3>1. \/ k \in 1 .. Len(queue) /\ new[k] = queue[k]
          \/ k - Len(frames) \in p .. Len(queue) /\ new[k] = queue[k - Len(frames)]
      BY <2>2, <2>4, <2>5 DEF Origins
    <3>2. \A i \in p .. Len(queue) : i \in 1 .. Len(queue)
      BY <1>4
    <3> QED
      BY <3>1, <3>2
  <2> QED
    BY <2>3, <2>5
<1>13. ASSUME NEW t \in Telemetry, t = s, Rising(queue, t)
       PROVE  Rising(new, t)
  <2>1. Transfer(frames, t) /\ \A k \in 1 .. Len(frames) : frames[k].left = TX_DEADLINE
    BY <1>1, <1>13 DEF Transfer, m
  <2> QED
    BY <1>2, <1>4, <1>9, <1>10, <1>13, <2>1, RisingOfTransfer
<1>14. ASSUME NEW t \in Telemetry, t # s, Rising(queue, t)
       PROVE  Rising(new, t)
  <2>1. t \in Streams /\ \A k \in 1 .. Len(frames) : frames[k].stream # t
    BY <1>1, <1>14, Constants DEF m
  <2> QED
    BY <1>2, <1>4, <1>9, <1>14, <2>1, RisingOfOthers
<1>15. /\ line \in Seq(Frame) /\ rest \in Seq(Frame)
       /\ Inserted(line, rest, frames, Len(first) + p) /\ Len(first) + p \in Int
       /\ NoneFrom(line, s, Len(first) + p)
  BY <1>2, <1>4, <1>9, <1>10, InsertedBehind, Behinds DEF line, rest
<1>16. ASSUME NEW t \in Telemetry, t = s, Chain(line, t, G[t], t \in C)
       PROVE  Chain(rest, t, G[t], t \in C)
  <2>1. Transfer(frames, s) /\ G[s] \in Nat
    BY <1>1, <1>16, Constants DEF Transfer, m
  <2> DEFINE g == G[s]
             c == s \in C
  <2>2. Chain(line, s, g, c) /\ g \in Nat
    BY <1>16, <2>1
  <2> HIDE DEF g, c
  <2>3. Chain(rest, s, g, c)
    BY <1>1, <1>15, <2>1, <2>2, ChainOfTransfer, Zenon
  <2> QED
    BY <2>3, <1>16 DEF g, c
<1>17. ASSUME NEW t \in Telemetry, t # s, Chain(line, t, G[t], t \in C)
       PROVE  Chain(rest, t, G[t], t \in C)
  <2>1. t \in Streams /\ \A k \in 1 .. Len(frames) : frames[k].stream # t
    BY <1>1, <1>17, Constants DEF m
  <2> DEFINE g == G[t]
             c == t \in C
  <2>2. Chain(line, t, g, c)
    BY <1>17
  <2> HIDE DEF g, c
  <2>3. Chain(rest, t, g, c)
    BY <1>15, <2>1, <2>2, ChainOfOthers, Zenon
  <2> QED
    BY <2>3 DEF g, c
<1> QED
  BY <1>2, <1>4, <1>10, <1>11, <1>12, <1>13, <1>14, <1>16, <1>17 DEF new, line, rest, m

-----------------------------------------------------------------------------
(* The parts of the invariant, for what the actions do to the queue. *)

\* Frames lost from the queue.
LEMMA LossKeeps ==
  ASSUME NEW first \in Seq(Frame), NEW old \in Seq(Frame), NEW new \in Seq(Frame),
         NEW f, Thinned(old, new, f),
         NEW G \in [Broadcasts -> Nat], NEW C \in SUBSET Broadcasts,
         Sorted(old), InRange(old), InTail(old),
         \A t \in Telemetry : Spoilt(old, t, Gone(old, new, f))
  PROVE  /\ Sorted(new) /\ InRange(new) /\ InTail(new)
         /\ \A t \in Telemetry : Rising(old, t) => Rising(new, t)
         /\ \A t \in Telemetry :
              Chain(first \o old, t, G[t], t \in C) =>
                Chain(first \o new, t, G[t], t \in C \cup CutBy(old, Gone(old, new, f)))
<1>1. Sorted(new) /\ InRange(new) /\ InTail(new)
  BY ThinnedKeeps, Zenon
<1>2. ASSUME NEW t \in Telemetry, Rising(old, t)
      PROVE  Rising(new, t)
  <2>1. t \in Streams
    BY Constants
  <2>2. \A x \in Gone(old, new, f), i \in 1 .. Len(old) :
          i < x /\ old[i].stream = t /\ old[x].stream = t => i \in Gone(old, new, f)
    BY Zenon DEF Spoilt
  <2> QED
    BY <1>2, <2>1, <2>2, RisingOfThinned, Zenon
<1>3. ASSUME NEW t \in Telemetry, Chain(first \o old, t, G[t], t \in C)
      PROVE  Chain(first \o new, t, G[t], t \in C \cup CutBy(old, Gone(old, new, f)))
  <2> DEFINE g == G[t]
             c == t \in C
             d == t \in C \cup CutBy(old, Gone(old, new, f))
  <2>1. /\ t \in Broadcasts /\ Frames[t] \in Nat /\ Frames[t] > 0 /\ g \in Nat
        /\ Chain(first \o old, t, g, c) /\ Spoilt(old, t, Gone(old, new, f))
    BY <1>3, Constants
  <2>2. (c => d) /\ (t \in CutBy(old, Gone(old, new, f)) => d)
    OBVIOUS
  <2>3. Chain(first \o new, t, g, d)
    <3> HIDE DEF g, c, d
    <3> QED
      BY <2>1, <2>2, ChainOfLoss, Zenon
  <2> QED
    BY <2>3
<1> QED
  BY <1>1, <1>2, <1>3

-----------------------------------------------------------------------------
(* The blocks of the receive states. *)

RxState == [allocated : BOOLEAN, left : 0 .. RX_TIMEOUT, payload : Nat]

\* They are pairs of a requester with an allocated state and a number up to the blocks of
\* its payload.
LEMMA RxBlock ==
  ASSUME NEW states \in [Requesters -> RxState], NEW block
  PROVE  block \in RxBlocks(states) <=>
           \E r \in Requesters, k \in Nat :
             block = <<r, k>> /\ states[r].allocated /\ k <= states[r].payload
<1>1. \A r \in Requesters : states[r].payload \in Nat
  BY DEF RxState
<1>2. block \in RxBlocks(states) <=>
        \E r \in Requesters : states[r].allocated /\ block \in {r} \X (0 .. states[r].payload)
  BY DEF RxBlocks
<1>3. ASSUME NEW r \in Requesters
      PROVE  block \in {r} \X (0 .. states[r].payload) <=>
               \E k \in Nat : block = <<r, k>> /\ k <= states[r].payload
  BY <1>1
<1> QED
  BY <1>2, <1>3

\* A frame that takes a block adds one: a new state, or one more of a payload.
LEMMA BlockTaken ==
  ASSUME NEW states \in [Requesters -> RxState], IsFiniteSet(RxBlocks(states)),
         NEW r \in Requesters, NEW state \in RxState, state.allocated,
         state.payload = IF states[r].allocated THEN states[r].payload + 1 ELSE 0
  PROVE  LET new == [states EXCEPT ![r] = state]
         IN  /\ IsFiniteSet(RxBlocks(new))
             /\ Cardinality(RxBlocks(new)) = Cardinality(RxBlocks(states)) + 1
<1> DEFINE new == [states EXCEPT ![r] = state]
           block == <<r, state.payload>>
<1>1. /\ new \in [Requesters -> RxState] /\ new[r] = state
      /\ \A q \in Requesters : q # r => new[q] = states[q]
  OBVIOUS
<1>2. state.payload \in Nat /\ states[r].payload \in Nat
  BY DEF RxState
<1> HIDE DEF new
<1>3. ASSUME NEW x
      PROVE  x \in RxBlocks(new) <=> x \in RxBlocks(states) \/ x = block
  <2>1. x \in RxBlocks(new) <=>
          \E q \in Requesters, k \in Nat : x = <<q, k>> /\ new[q].allocated /\ k <= new[q].payload
    BY <1>1, RxBlock
  <2>2. x \in RxBlocks(states) <=>
          \E q \in Requesters, k \in Nat :
            x = <<q, k>> /\ states[q].allocated /\ k <= states[q].payload
    BY RxBlock
  <2>3. ASSUME NEW q \in Requesters, NEW k \in Nat, x = <<q, k>>
        PROVE  new[q].allocated /\ k <= new[q].payload <=>
                 (states[q].allocated /\ k <= states[q].payload) \/ x = block
    <3>1. CASE q # r
      BY <1>1, <2>3, <3>1
    <3>2. CASE q = r
      BY <1>1, <1>2, <2>3, <3>2
    <3> QED
      BY <3>1, <3>2
  <2>4. x = block => \E q \in Requesters, k \in Nat : x = <<q, k>>
    BY <1>2
  <2> HIDE DEF block
  <2> QED
    BY <2>1, <2>2, <2>3, <2>4, Zenon
<1>4. block \notin RxBlocks(states)
  <2>1. block \in RxBlocks(states) <=>
          \E q \in Requesters, k \in Nat :
            block = <<q, k>> /\ states[q].allocated /\ k <= states[q].payload
    BY RxBlock
  <2> QED
    BY <1>2, <2>1
<1>5. RxBlocks(new) = RxBlocks(states) \cup {block}
  BY <1>3
<1> HIDE DEF block
<1> QED
  BY <1>4, <1>5, FS_AddElement DEF new

\* What is given back is the payload, when it goes and its state stays.
LEMMA PayloadReleased ==
  ASSUME NEW states \in [Requesters -> RxState], IsFiniteSet(RxBlocks(states)),
         NEW r \in Requesters, states[r].allocated,
         NEW state \in RxState, state.allocated, state.payload = 0
  PROVE  LET new == [states EXCEPT ![r] = state]
         IN  /\ IsFiniteSet(RxBlocks(new))
             /\ Cardinality(RxBlocks(new)) = Cardinality(RxBlocks(states)) - states[r].payload
<1> DEFINE new == [states EXCEPT ![r] = state]
           n == states[r].payload
           gone == {r} \X (1 .. n)
<1>1. /\ new \in [Requesters -> RxState] /\ new[r] = state
      /\ \A q \in Requesters : q # r => new[q] = states[q]
  OBVIOUS
<1>2. n \in Nat
  BY DEF RxState
<1>3. \A q, k : <<q, k>> \in gone <=> q = r /\ k \in 1 .. n
  OBVIOUS
<1> HIDE DEF new
<1>4. ASSUME NEW x
      PROVE  x \in RxBlocks(new) <=> x \in RxBlocks(states) \ gone
  <2>1. x \in RxBlocks(new) <=>
          \E q \in Requesters, k \in Nat : x = <<q, k>> /\ new[q].allocated /\ k <= new[q].payload
    BY <1>1, RxBlock
  <2>2. x \in RxBlocks(states) <=>
          \E q \in Requesters, k \in Nat :
            x = <<q, k>> /\ states[q].allocated /\ k <= states[q].payload
    BY RxBlock
  <2>3. ASSUME NEW q \in Requesters, NEW k \in Nat, x = <<q, k>>
        PROVE  new[q].allocated /\ k <= new[q].payload <=>
                 states[q].allocated /\ k <= states[q].payload /\ x \notin gone
    <3>0. x \in gone <=> q = r /\ k \in 1 .. n
      BY <1>3, <2>3
    <3> HIDE DEF gone
    <3>1. CASE q # r
      BY <1>1, <3>0, <3>1
    <3>2. CASE q = r
      BY <1>1, <1>2, <3>0, <3>2
    <3> QED
      BY <3>1, <3>2
  <2> HIDE DEF gone
  <2> QED
    BY <2>1, <2>2, <2>3, Zenon
<1>5. RxBlocks(new) = RxBlocks(states) \ gone
  BY <1>4
<1>6. RxBlocks(states) \cap gone = gone
  <2>1. ASSUME NEW x \in gone
        PROVE  x \in RxBlocks(states)
    <3>1. PICK k \in 1 .. n : x = <<r, k>>
      OBVIOUS
    <3>2. k \in Nat /\ k <= states[r].payload
      BY <1>2, <3>1
    <3> QED
      BY <3>1, <3>2, RxBlock
  <2> QED
    BY <2>1
<1>7. Cardinality(gone) = n
  <2> DEFINE S == {r}
             T == 1 .. n
  <2>1. IsFiniteSet(S) /\ Cardinality(S) = 1
    BY FS_Singleton
  <2>2. IsFiniteSet(T) /\ Cardinality(T) = n
    <3>1. \A a, b \in Int : IsFiniteSet(a .. b) /\ Cardinality(a .. b) = IF a > b THEN 0 ELSE b - a + 1
      BY FS_Interval
    <3> HIDE DEF n
    <3> QED
      BY <1>2, <3>1
  <2>3. gone = S \X T
    OBVIOUS
  <2> HIDE DEF S, T, gone, n
  <2>4. Cardinality(S \X T) = Cardinality(S) * Cardinality(T)
    BY <2>1, <2>2, FS_Product
  <2> QED
    BY <1>2, <2>1, <2>2, <2>3, <2>4
<1> HIDE DEF gone, n
<1>8. IsFiniteSet(RxBlocks(new)) /\ Cardinality(RxBlocks(new)) = Cardinality(RxBlocks(states)) - n
  BY <1>5, <1>6, <1>7, FS_Difference
<1> QED
  BY <1>8 DEF new, n

\* The blocks of the states past their time, when these go.
LEMMA StaleReleased ==
  ASSUME NEW states \in [Requesters -> RxState], IsFiniteSet(RxBlocks(states)),
         NEW new \in [Requesters -> RxState],
         \A r \in Requesters : new[r] = IF states[r].left = 0 THEN NoState ELSE states[r]
  PROVE  LET stale == {block \in RxBlocks(states) : states[block[1]].left = 0}
         IN  /\ Cardinality(stale) \in Nat /\ IsFiniteSet(RxBlocks(new))
             /\ Cardinality(RxBlocks(new)) = Cardinality(RxBlocks(states)) - Cardinality(stale)
<1> DEFINE stale == {block \in RxBlocks(states) : states[block[1]].left = 0}
<1>1. ASSUME NEW x
      PROVE  x \in RxBlocks(new) <=> x \in RxBlocks(states) \ stale
  <2>1. x \in RxBlocks(new) <=>
          \E q \in Requesters, k \in Nat : x = <<q, k>> /\ new[q].allocated /\ k <= new[q].payload
    BY RxBlock
  <2>2. x \in RxBlocks(states) <=>
          \E q \in Requesters, k \in Nat :
            x = <<q, k>> /\ states[q].allocated /\ k <= states[q].payload
    BY RxBlock
  <2>3. ASSUME NEW q \in Requesters, NEW k \in Nat, x = <<q, k>>
        PROVE  new[q].allocated /\ k <= new[q].payload <=>
                 states[q].allocated /\ k <= states[q].payload /\ states[x[1]].left # 0
    <3>1. x[1] = q
      BY <2>3
    <3>2. ~NoState.allocated
      BY DEF NoState
    <3> QED
      BY <3>1, <3>2
  <2>4. x \in RxBlocks(states) \ stale <=> x \in RxBlocks(states) /\ states[x[1]].left # 0
    OBVIOUS
  <2> HIDE DEF stale
  <2> QED
    BY <2>1, <2>2, <2>3, <2>4, Zenon
<1>2. RxBlocks(new) = RxBlocks(states) \ stale
  BY <1>1
<1>3. stale \in SUBSET RxBlocks(states) /\ RxBlocks(states) \cap stale = stale
  OBVIOUS
<1> HIDE DEF stale
<1>4. IsFiniteSet(stale) /\ Cardinality(stale) \in Nat
  BY <1>3, FS_Subset, FS_CardinalityType
<1>5. /\ IsFiniteSet(RxBlocks(new))
      /\ Cardinality(RxBlocks(new)) = Cardinality(RxBlocks(states)) - Cardinality(stale)
  <2> DEFINE S == RxBlocks(states)
  <2>1. RxBlocks(new) = S \ stale /\ S \cap stale = stale /\ IsFiniteSet(S)
    BY <1>2, <1>3
  <2> HIDE DEF S
  <2>2. IsFiniteSet(S \ stale) /\ Cardinality(S \ stale) = Cardinality(S) - Cardinality(S \cap stale)
    BY <2>1, FS_Difference
  <2>3. IsFiniteSet(RxBlocks(new)) /\ Cardinality(RxBlocks(new)) = Cardinality(S) - Cardinality(stale)
    BY <2>1, <2>2
  <2> QED
    BY <2>3 DEF S
<1> QED
  BY <1>4, <1>5 DEF stale

\* Time takes none.
LEMMA BlocksOfTick ==
  ASSUME NEW states \in [Requesters -> RxState], NEW new,
         new = [r \in Requesters |-> [states[r] EXCEPT !.left = Less(@)]]
  PROVE  new \in [Requesters -> RxState] /\ RxBlocks(new) = RxBlocks(states)
<1>1. ASSUME NEW r \in Requesters
      PROVE  /\ new[r] \in RxState
             /\ new[r].allocated = states[r].allocated /\ new[r].payload = states[r].payload
  <2>1. states[r] \in RxState /\ new[r] = [states[r] EXCEPT !.left = Less(@)]
    OBVIOUS
  <2>2. Less(states[r].left) \in 0 .. RX_TIMEOUT
    BY <2>1, Constants DEF RxState, Less
  <2> QED
    BY <2>1, <2>2 DEF RxState
<1>2. new \in [Requesters -> RxState]
  BY <1>1
<1>3. ASSUME NEW x
      PROVE  x \in RxBlocks(new) <=> x \in RxBlocks(states)
  <2>1. x \in RxBlocks(new) <=>
          \E q \in Requesters, k \in Nat : x = <<q, k>> /\ new[q].allocated /\ k <= new[q].payload
    BY <1>2, RxBlock
  <2>2. x \in RxBlocks(states) <=>
          \E q \in Requesters, k \in Nat :
            x = <<q, k>> /\ states[q].allocated /\ k <= states[q].payload
    BY RxBlock
  <2> QED
    BY <1>1, <2>1, <2>2, Zenon
<1> QED
  BY <1>2, <1>3

\* What is said of the blocks, spelt out.
LEMMA Accounted ==
  ASSUME TypeOK, BlocksInv
  PROVE  /\ used \in 0 .. CAPACITY /\ CAPACITY \in Nat
         /\ tx_queue \in Seq(Frame) /\ Len(tx_queue) \in Nat
         /\ rx_states \in [Requesters -> RxState] /\ IsFiniteSet(RxBlocks(rx_states))
         /\ Cardinality(RxBlocks(rx_states)) \in Nat
         /\ used = Len(tx_queue) + Cardinality(RxBlocks(rx_states))
<1>1. IsFiniteSet(RxBlocks(rx_states)) /\ used = Len(tx_queue) + Cardinality(RxBlocks(rx_states))
  BY DEF BlocksInv, BlocksAreAccounted
<1>2. Cardinality(RxBlocks(rx_states)) \in Nat
  BY <1>1, FS_CardinalityType
<1>3. /\ used \in 0 .. CAPACITY /\ tx_queue \in Seq(Frame)
      /\ rx_states \in [Requesters -> RxState]
  BY DEF TypeOK, RxState
<1> QED
  BY <1>1, <1>2, <1>3, Constants, LenProperties

-----------------------------------------------------------------------------
(* What is queued. *)

\* All telemetry of the new queue was in the old one.
NoNewTelemetry(new, old) ==
  \A k \in 1 .. Len(new) : new[k].stream \in Telemetry =>
    \E i \in 1 .. Len(old) : old[i].stream \in Telemetry /\ old[i].left = new[k].left

\* enqueueTxFrames, for an answer, a status or a measurement that was admitted.
LEMMA EnqueueKeeps ==
  ASSUME TypeOK, BlocksInv, QueueInv, NEW s \in Streams, NEW deadline \in Nat,
         s \in Telemetry => deadline = TX_DEADLINE /\ FreeBlocks > RESERVE,
         Enqueue(s, deadline), UNCHANGED <<mailbox, got, cut>>
  PROVE  /\ QueueInv'
         /\ tx_queue' \in Seq(Frame) /\ used' \in 0 .. CAPACITY
         /\ used' - used = Len(tx_queue') - Len(tx_queue)
         /\ s \notin Telemetry => NoNewTelemetry(tx_queue', tx_queue)
<1> DEFINE room == Room(s)
           frames == [i \in 1 .. room |-> [stream |-> s, index |-> i, left |-> deadline]]
<1>1. /\ used \in 0 .. CAPACITY /\ tx_queue \in Seq(Frame) /\ mailbox \in Seq(Frame)
      /\ got \in [Broadcasts -> Nat] /\ cut \in SUBSET Broadcasts
  BY DEF TypeOK
<1>2. Len(tx_queue) \in Nat /\ Len(tx_queue) <= used
  BY Accounted
<1>3. /\ room \in Nat /\ room <= Frames[s] /\ room <= CAPACITY - used
      /\ s \in Telemetry => room = Frames[s] /\ room > 0
  BY <1>1, Constants DEF Room, FreeBlocks
<1>4. /\ tx_queue' = IF room = 0 THEN tx_queue ELSE Push(tx_queue, frames)
      /\ used' = used + room
  BY DEF Enqueue
<1>5. frames \in Seq(Frame) /\ Len(frames) = room
  <2>1. \A i \in 1 .. room : [stream |-> s, index |-> i, left |-> deadline] \in Frame
    BY <1>3 DEF Frame
  <2>2. frames \in [1 .. room -> Frame]
    BY <2>1
  <2> HIDE DEF frames
  <2> QED
    BY <1>3, <2>2
<1>6. CASE room = 0
  <2>1. tx_queue' = tx_queue /\ s \notin Telemetry
    BY <1>3, <1>4, <1>6
  <2>2. QueueInv'
    BY <2>1 DEF QueueInv, FramesInRange, DeadlinesRise, ChainsHold, Line
  <2>3. NoNewTelemetry(tx_queue', tx_queue)
    BY <2>1 DEF NoNewTelemetry
  <2> QED
    BY <1>1, <1>2, <1>3, <1>4, <1>6, <2>1, <2>2, <2>3
<1>7. CASE room # 0
  <2> DEFINE new == Push(tx_queue, frames)
  <2>1. Queueable(frames, s)
    <3>1. \A k \in 1 .. room : /\ frames[k].stream = s /\ frames[k].index = k
                               /\ frames[k].left = deadline
      OBVIOUS
    <3> HIDE DEF frames, room
    <3> QED
      BY <1>3, <1>5, <1>7, <3>1 DEF Queueable
  <2>2. /\ Sorted(tx_queue) /\ InRange(tx_queue) /\ InTail(tx_queue)
        /\ \A t \in Telemetry : Rising(tx_queue, t)
        /\ \A t \in Telemetry : Chain(mailbox \o tx_queue, t, got[t], t \in cut)
    BY DEF QueueInv, FramesInRange, DeadlinesRise, ChainsHold, Line
  <2> HIDE DEF frames, room
  <2>3. /\ new \in Seq(Frame) /\ Len(new) = Len(tx_queue) + Len(frames)
        /\ Sorted(new) /\ InRange(new)
        /\ s \notin Telemetry =>
             /\ InTail(tx_queue) => InTail(new)
             /\ \A k \in 1 .. Len(new) : new[k].stream \in Telemetry =>
                  \E i \in 1 .. Len(tx_queue) : new[k] = tx_queue[i]
        /\ \A t \in Telemetry : Rising(tx_queue, t) => Rising(new, t)
        /\ \A t \in Telemetry : Chain(mailbox \o tx_queue, t, got[t], t \in cut) =>
                                  Chain(mailbox \o new, t, got[t], t \in cut)
    BY <1>1, <1>5, <2>1, <2>2, PushKeeps, Zenon
  <2> HIDE DEF new
  <2>4. tx_queue' = new /\ mailbox' = mailbox /\ got' = got /\ cut' = cut
    BY <1>4, <1>7 DEF new
  <2>5. InTail(new)
    <3>1. CASE s \in Telemetry
      <4>1. Len(new) = Len(tx_queue) + Frames[s] /\ used < CAPACITY - RESERVE
        BY <1>1, <1>3, <1>5, <2>3, <3>1, Constants DEF FreeBlocks
      <4>2. Len(new) < CAPACITY - RESERVE + Frames[Longest]
        <5>1. /\ Frames[s] \in Nat /\ Frames[Longest] \in Nat /\ Frames[s] <= Frames[Longest]
              /\ CAPACITY \in Nat /\ RESERVE \in Nat
          BY <3>1, Constants
        <5> QED
          BY <1>1, <1>2, <4>1, <5>1
      <4> QED
        BY <2>3, <4>2, InTailOfTelemetry
    <3> QED
      BY <2>2, <2>3, <3>1
  <2>6. QueueInv'
    <3>1. FramesInRange'
      BY <2>3, <2>4 DEF FramesInRange, QueueInv
    <3>2. DeadlinesRise'
      BY <2>2, <2>3, <2>4 DEF DeadlinesRise
    <3>3. ChainsHold'
      <4>1. \A t \in Telemetry : Chain(mailbox \o new, t, got[t], t \in cut)
        BY <2>2, <2>3
      <4>2. \A t \in Telemetry : Chain(mailbox' \o tx_queue', t, got'[t], t \in cut')
        BY <2>4, <4>1
      <4> QED
        BY <4>2 DEF ChainsHold, Line
    <3> QED
      BY <2>3, <2>4, <2>5, <3>1, <3>2, <3>3 DEF QueueInv
  <2>7. s \notin Telemetry => NoNewTelemetry(tx_queue', tx_queue)
    BY <2>3, <2>4 DEF NoNewTelemetry
  <2>8. Len(tx_queue') = Len(tx_queue) + room /\ tx_queue' \in Seq(Frame)
    BY <1>5, <2>3, <2>4
  <2> QED
    <3>1. used' \in 0 .. CAPACITY /\ used' - used = Len(tx_queue') - Len(tx_queue)
      BY <1>1, <1>2, <1>3, <1>4, <2>8, Constants
    <3> QED
      BY <2>6, <2>7, <2>8, <3>1, Zenon
<1> QED
  BY <1>6, <1>7

\* What is left alone keeps what is said of it.
LEMMA Untouched ==
  ASSUME QueueInv, UNCHANGED <<tx_queue, mailbox, got, cut>>
  PROVE  QueueInv'
BY DEF QueueInv, FramesInRange, DeadlinesRise, ChainsHold, Line

LEMMA NothingNew ==
  ASSUME NEW queue \in Seq(Frame)
  PROVE  NoNewTelemetry(queue, queue)
BY DEF NoNewTelemetry

\* What expires first still does when no telemetry has joined it.
LEMMA ExpiresOfSame ==
  ASSUME ExpiresFirst, NoNewTelemetry(tx_queue', tx_queue), UNCHANGED <<recovery, cleanup>>,
         recovery.active /\ (pc' \in {"flow", "range", "recover"} => off') =>
           (pc \in {"flow", "range", "recover"} => off)
  PROVE  ExpiresFirst'
<1> SUFFICES ASSUME recovery.active, pc' \in {"flow", "range", "recover"} => off',
                    NEW k \in 1 .. Len(tx_queue'), tx_queue'[k].stream \in Telemetry
             PROVE  IF tx_queue'[k].left > 0 THEN tx_queue'[k].left + CLEANUP <= recovery.left
                                             ELSE cleanup < recovery.left
  BY DEF ExpiresFirst
<1>1. PICK i \in 1 .. Len(tx_queue) :
        tx_queue[i].stream \in Telemetry /\ tx_queue[i].left = tx_queue'[k].left
  BY DEF NoNewTelemetry
<1>2. IF tx_queue[i].left > 0 THEN tx_queue[i].left + CLEANUP <= recovery.left
                              ELSE cleanup < recovery.left
  BY <1>1 DEF ExpiresFirst
<1> QED
  BY <1>1, <1>2

\* broadcast.
LEMMA BroadcastKeeps ==
  ASSUME TypeOK, BlocksInv, QueueInv, NEW s \in Streams,
         Broadcast(s), UNCHANGED <<mailbox, got, cut>>
  PROVE  /\ QueueInv'
         /\ tx_queue' \in Seq(Frame) /\ used' \in 0 .. CAPACITY
         /\ used' - used = Len(tx_queue') - Len(tx_queue)
         /\ s \notin Telemetry => NoNewTelemetry(tx_queue', tx_queue)
         /\ tx_overflow_pending' \in BOOLEAN /\ lost' \in BOOLEAN
<1>1. /\ used \in 0 .. CAPACITY /\ tx_queue \in Seq(Frame) /\ Len(tx_queue) \in Nat
      /\ tx_overflow_pending \in BOOLEAN /\ lost \in BOOLEAN /\ CAPACITY \in Nat
  BY Constants, LenProperties DEF TypeOK
<1>2. CASE Admitted(s)
  <2> DEFINE deadline == IF s \in Telemetry THEN TX_DEADLINE ELSE HIGH_DEADLINE
  <2>1. Enqueue(s, deadline)
    BY <1>2 DEF Broadcast
  <2>2. /\ deadline \in Nat
        /\ s \in Telemetry => deadline = TX_DEADLINE /\ FreeBlocks > RESERVE
    BY <1>2, Constants DEF Admitted
  <2>3. tx_overflow_pending' \in BOOLEAN /\ lost' \in BOOLEAN
    BY <1>1, <1>2 DEF Broadcast, EnqueueFails
  <2> HIDE DEF deadline
  <2> QED
    BY <2>1, <2>2, <2>3, EnqueueKeeps
<1>3. CASE ~Admitted(s)
  <2>1. /\ tx_queue' = tx_queue /\ used' = used
        /\ tx_overflow_pending' \in BOOLEAN /\ lost' \in BOOLEAN
    BY <1>3 DEF Broadcast
  <2> QED
    BY <1>1, <2>1, Untouched, NothingNew
<1> QED
  BY <1>2, <1>3

\* The pool, when blocks are taken and given back along with the frames.
LEMMA BlocksOfSame ==
  ASSUME TypeOK, BlocksInv, tx_queue' \in Seq(Frame), used' \in Nat,
         used' - used = Len(tx_queue') - Len(tx_queue), UNCHANGED rx_states
  PROVE  BlocksInv'
<1>1. /\ used \in Nat /\ Len(tx_queue) \in Nat /\ Cardinality(RxBlocks(rx_states)) \in Nat
      /\ IsFiniteSet(RxBlocks(rx_states))
      /\ used = Len(tx_queue) + Cardinality(RxBlocks(rx_states))
  BY Accounted
<1>2. Len(tx_queue') \in Nat
  BY LenProperties
<1>3. used' = Len(tx_queue') + Cardinality(RxBlocks(rx_states))
  BY <1>1, <1>2
<1> QED
  BY <1>1, <1>3 DEF BlocksInv, BlocksAreAccounted

-----------------------------------------------------------------------------
(* Each action keeps the invariant. *)

LEMMA SampleBusOffKeeps ==
  ASSUME IInv, SampleBusOff
  PROVE  IInv'
<1>1. TypeOK'
  BY DEF IInv, SampleBusOff, TypeOK, node, bus
<1>2. QueueInv'
  BY Untouched DEF IInv, SampleBusOff, node, bus
<1>3. ExpiresFirst'
  BY DEF IInv, SampleBusOff, ExpiresFirst, node, bus
<1> QED
  BY <1>1, <1>2, <1>3
     DEF IInv, SampleBusOff, BlocksInv, BlocksAreAccounted, TelemetryIsWhole, CleanupIsSet, node, bus

LEMMA PublishKeeps ==
  ASSUME IInv, NEW s \in Telemetry, NEW at, NEW next,
         (at = "flow" /\ next = "range") \/ (at = "range" /\ next = "recover"),
         Publish(s, at, next)
  PROVE  IInv'
<1>1. /\ pc = at /\ pc' = next
      /\ \/ ~off /\ Broadcast(s) /\ txOverflow' = (txOverflow \/ ~Admitted(s) \/ EnqueueFails(s))
         \/ UNCHANGED <<tx_queue, used, tx_overflow_pending, txOverflow, lost>>
      /\ UNCHANGED <<off, count, rx_states, cleanup, next_status, recovery, inbox, bus, cut>>
  BY DEF Publish
<1>2. s \in Streams /\ CAPACITY \in Nat
  BY Constants
<1>3. /\ QueueInv' /\ tx_queue' \in Seq(Frame) /\ used' \in 0 .. CAPACITY
      /\ used' - used = Len(tx_queue') - Len(tx_queue)
      /\ tx_overflow_pending' \in BOOLEAN /\ lost' \in BOOLEAN /\ txOverflow' \in BOOLEAN
  <2>1. CASE ~off /\ Broadcast(s) /\ txOverflow' = (txOverflow \/ ~Admitted(s) \/ EnqueueFails(s))
    <3>1. UNCHANGED <<mailbox, got, cut>>
      BY <1>1 DEF bus
    <3>2. txOverflow' \in BOOLEAN
      BY <2>1 DEF IInv, TypeOK, Admitted, EnqueueFails
    <3> QED
      BY <1>2, <2>1, <3>1, <3>2, BroadcastKeeps DEF IInv
  <2>2. CASE UNCHANGED <<tx_queue, used, tx_overflow_pending, txOverflow, lost>>
    <3>1. UNCHANGED <<tx_queue, mailbox, got, cut>>
      BY <1>1, <2>2 DEF bus
    <3>2. QueueInv'
      BY <3>1, Untouched DEF IInv
    <3>3. tx_queue \in Seq(Frame) /\ used \in 0 .. CAPACITY /\ Len(tx_queue) \in Nat
      BY LenProperties DEF IInv, TypeOK
    <3> QED
      BY <1>2, <2>2, <3>2, <3>3 DEF IInv, TypeOK
  <2> QED
    BY <1>1, <2>1, <2>2
<1>4. pc' \in {"range", "recover"} /\ pc \in {"flow", "range"} /\ off' = off
  BY <1>1
<1>5. TypeOK'
  BY <1>1, <1>3, <1>4 DEF IInv, TypeOK, bus
<1>6. BlocksInv'
  BY <1>1, <1>2, <1>3, BlocksOfSame DEF IInv
<1>7. ExpiresFirst'
  <2>1. CASE off
    <3>1. UNCHANGED <<tx_queue, recovery, cleanup>>
      BY <1>1, <2>1
    <3>2. NoNewTelemetry(tx_queue', tx_queue)
      BY <3>1, NothingNew DEF IInv, TypeOK
    <3> QED
      BY <2>1, <3>1, <3>2, ExpiresOfSame DEF IInv
  <2>2. CASE ~off
    BY <1>4, <2>2 DEF ExpiresFirst
  <2> QED
    BY <2>1, <2>2
<1>8. CleanupIsSet' /\ TelemetryIsWhole'
  BY <1>1, <1>4 DEF IInv, CleanupIsSet, TelemetryIsWhole, bus
<1> QED
  BY <1>3, <1>5, <1>6, <1>7, <1>8 DEF IInv

LEMMA TransmitDoneKeeps ==
  ASSUME IInv, TransmitDone
  PROVE  IInv'
<1>1. TypeOK'
  BY DEF IInv, TransmitDone, TypeOK, node, bus
<1>2. QueueInv'
  BY Untouched DEF IInv, TransmitDone, node, bus
<1>3. ExpiresFirst'
  BY DEF IInv, TransmitDone, ExpiresFirst, node, bus
<1> QED
  BY <1>1, <1>2, <1>3
     DEF IInv, TransmitDone, BlocksInv, BlocksAreAccounted, TelemetryIsWhole, CleanupIsSet, node, bus

LEMMA ReportKeeps ==
  ASSUME IInv, Report
  PROVE  IInv'
<1>1. TypeOK'
  <2>1. txOverflow' \in BOOLEAN
    BY DEF IInv, Report, TypeOK
  <2>2. 0 \in 0 .. RX_BUDGET + TX_BUDGET
    BY Constants
  <2> QED
    BY <2>1, <2>2 DEF IInv, Report, TypeOK, bus
<1>2. QueueInv'
  BY Untouched DEF IInv, Report, bus
<1>3. ExpiresFirst'
  BY DEF IInv, Report, ExpiresFirst, bus
<1> QED
  BY <1>1, <1>2, <1>3
     DEF IInv, Report, BlocksInv, BlocksAreAccounted, TelemetryIsWhole, CleanupIsSet, bus

LEMMA BusOffKeeps ==
  ASSUME IInv, BusOff \/ BusOn
  PROVE  IInv'
<1>1. /\ bof' \in BOOLEAN
      /\ UNCHANGED <<pc, off, count, node, recovery, txOverflow, inbox, mailbox, got, torn,
                     cut, lost>>
  BY DEF BusOff, BusOn
<1>2. TypeOK'
  BY <1>1 DEF IInv, TypeOK, node
<1>3. QueueInv'
  BY <1>1, Untouched DEF IInv, node
<1>4. ExpiresFirst'
  BY <1>1 DEF IInv, ExpiresFirst, node
<1> QED
  BY <1>1, <1>2, <1>3, <1>4
     DEF IInv, BlocksInv, BlocksAreAccounted, TelemetryIsWhole, CleanupIsSet, node

LEMMA RequestKeeps ==
  ASSUME IInv, Request
  PROVE  IInv'
<1>1. TypeOK'
  BY Constants DEF IInv, Request, TypeOK, node, bus
<1>2. QueueInv'
  BY Untouched DEF IInv, Request, node, bus
<1>3. ExpiresFirst'
  BY DEF IInv, Request, ExpiresFirst, node, bus
<1> QED
  BY <1>1, <1>2, <1>3
     DEF IInv, Request, BlocksInv, BlocksAreAccounted, TelemetryIsWhole, CleanupIsSet, node, bus

LEMMA StatusKeeps ==
  ASSUME IInv, Status
  PROVE  IInv'
<1>1. /\ pc = "status" /\ pc' = "transmit" /\ count' = 0
      /\ \/ Broadcast("status") /\ next_status' = STATUS_PERIOD
         \/ UNCHANGED <<tx_queue, used, next_status, tx_overflow_pending, lost>>
      /\ UNCHANGED <<off, rx_states, cleanup, recovery, txOverflow, inbox, bus, cut>>
  BY DEF Status
<1>2. /\ "status" \in Streams /\ "status" \notin Telemetry /\ CAPACITY \in Nat
      /\ STATUS_PERIOD \in Nat /\ 0 \in 0 .. RX_BUDGET + TX_BUDGET
  BY Constants DEF Streams, Telemetry
<1>3. /\ QueueInv' /\ tx_queue' \in Seq(Frame) /\ used' \in 0 .. CAPACITY
      /\ used' - used = Len(tx_queue') - Len(tx_queue)
      /\ NoNewTelemetry(tx_queue', tx_queue) /\ next_status' \in 0 .. STATUS_PERIOD
      /\ tx_overflow_pending' \in BOOLEAN /\ lost' \in BOOLEAN
  <2>1. CASE Broadcast("status") /\ next_status' = STATUS_PERIOD
    <3>1. UNCHANGED <<mailbox, got, cut>>
      BY <1>1 DEF bus
    <3>2. /\ QueueInv' /\ tx_queue' \in Seq(Frame) /\ used' \in 0 .. CAPACITY
          /\ used' - used = Len(tx_queue') - Len(tx_queue)
          /\ NoNewTelemetry(tx_queue', tx_queue)
          /\ tx_overflow_pending' \in BOOLEAN /\ lost' \in BOOLEAN
      BY <1>2, <2>1, <3>1, BroadcastKeeps DEF IInv
    <3> QED
      BY <1>2, <2>1, <3>2
  <2>2. CASE UNCHANGED <<tx_queue, used, next_status, tx_overflow_pending, lost>>
    <3>1. UNCHANGED <<tx_queue, mailbox, got, cut>>
      BY <1>1, <2>2 DEF bus
    <3>2. QueueInv' /\ NoNewTelemetry(tx_queue, tx_queue)
      BY <3>1, Untouched, NothingNew DEF IInv, TypeOK
    <3>3. tx_queue \in Seq(Frame) /\ used \in 0 .. CAPACITY /\ Len(tx_queue) \in Nat
      BY LenProperties DEF IInv, TypeOK
    <3> QED
      BY <1>2, <2>2, <3>2, <3>3 DEF IInv, TypeOK
  <2> QED
    BY <1>1, <2>1, <2>2
<1>4. TypeOK'
  BY <1>1, <1>2, <1>3 DEF IInv, TypeOK, bus
<1>5. BlocksInv'
  BY <1>1, <1>2, <1>3, BlocksOfSame DEF IInv
<1>6. ExpiresFirst'
  BY <1>1, <1>3, ExpiresOfSame DEF IInv
<1>7. CleanupIsSet' /\ TelemetryIsWhole'
  BY <1>1 DEF IInv, CleanupIsSet, TelemetryIsWhole, bus
<1> QED
  BY <1>3, <1>4, <1>5, <1>6, <1>7 DEF IInv

\* What a frame of a request does to the pool and to the states.
RequestInv ==
  /\ rx_states' \in [Requesters -> RxState]
  /\ used' \in 0 .. CAPACITY
  /\ IsFiniteSet(RxBlocks(rx_states'))
  /\ used' = Len(tx_queue) + Cardinality(RxBlocks(rx_states'))

LEMMA UnchangedKeeps ==
  ASSUME TypeOK, BlocksInv, UNCHANGED <<used, rx_states>>
  PROVE  RequestInv
<1>1. /\ used \in 0 .. CAPACITY /\ rx_states \in [Requesters -> RxState]
      /\ IsFiniteSet(RxBlocks(rx_states))
      /\ used = Len(tx_queue) + Cardinality(RxBlocks(rx_states))
  BY Accounted
<1>2. used' = used /\ rx_states' = rx_states
  OBVIOUS
<1> QED
  BY <1>1, <1>2 DEF RequestInv

\* A block taken for a state or its payload.
LEMMA TakenKeeps ==
  ASSUME TypeOK, BlocksInv, NEW r \in Requesters, NEW state \in RxState, state.allocated,
         state.payload = IF rx_states[r].allocated THEN rx_states[r].payload + 1 ELSE 0,
         FreeBlocks > 0, used' = used + 1, rx_states' = [rx_states EXCEPT ![r] = state]
  PROVE  RequestInv
<1> DEFINE held == Cardinality(RxBlocks(rx_states))
<1>1. /\ used \in 0 .. CAPACITY /\ CAPACITY \in Nat /\ Len(tx_queue) \in Nat /\ held \in Nat
      /\ rx_states \in [Requesters -> RxState] /\ IsFiniteSet(RxBlocks(rx_states))
      /\ used = Len(tx_queue) + held
  BY Accounted
<1>2. IsFiniteSet(RxBlocks(rx_states')) /\ Cardinality(RxBlocks(rx_states')) = held + 1
  BY <1>1, BlockTaken
<1>3. rx_states' \in [Requesters -> RxState]
  BY <1>1
<1> HIDE DEF held
<1>4. used' \in 0 .. CAPACITY /\ used' = Len(tx_queue) + (held + 1)
  BY <1>1 DEF FreeBlocks
<1> QED
  BY <1>2, <1>3, <1>4 DEF RequestInv

\* The payload of a request given back.
LEMMA ReleasedKeeps ==
  ASSUME TypeOK, BlocksInv, NEW r \in Requesters, rx_states[r].allocated,
         NEW left \in 0 .. RX_TIMEOUT, releaseStatePayload(r, left)
  PROVE  RequestInv
<1> DEFINE held == Cardinality(RxBlocks(rx_states))
           n == rx_states[r].payload
<1>1. /\ used \in 0 .. CAPACITY /\ CAPACITY \in Nat /\ Len(tx_queue) \in Nat /\ held \in Nat
      /\ rx_states \in [Requesters -> RxState] /\ IsFiniteSet(RxBlocks(rx_states))
      /\ used = Len(tx_queue) + held
  BY Accounted
<1>2. used' = used - n /\ rx_states' = [rx_states EXCEPT ![r] = Empty(left)]
  BY DEF releaseStatePayload, Release
<1>3. Empty(left) \in RxState /\ Empty(left).allocated /\ Empty(left).payload = 0
  BY DEF Empty, RxState
<1>4. n \in Nat
  BY <1>1 DEF RxState
<1>5. IsFiniteSet(RxBlocks(rx_states')) /\ Cardinality(RxBlocks(rx_states')) = held - n
  BY <1>1, <1>2, <1>3, PayloadReleased
<1>6. rx_states' \in [Requesters -> RxState]
  BY <1>1, <1>2, <1>3
<1>7. Cardinality(RxBlocks(rx_states')) \in Nat
  BY <1>5, FS_CardinalityType
<1> HIDE DEF held, n
<1>8. used' \in 0 .. CAPACITY /\ used' = Len(tx_queue) + (held - n)
  BY <1>1, <1>2, <1>4, <1>5, <1>7
<1> QED
  BY <1>5, <1>6, <1>8 DEF RequestInv

LEMMA FirstFrameKeeps ==
  ASSUME TypeOK, BlocksInv, NEW r \in Requesters, FirstFrame(r)
  PROVE  RequestInv /\ pc' \in {"receive", "answer"}
<1>1. pc' \in {"receive", "answer"}
  BY DEF FirstFrame
<1>2. rx_states \in [Requesters -> RxState] /\ rx_states[r].left \in 0 .. RX_TIMEOUT
  BY DEF TypeOK, RxState
<1>3. CASE UNCHANGED <<used, rx_states>>
  BY <1>1, <1>3, UnchangedKeeps
<1>4. ASSUME NEW left \in 0 .. RX_TIMEOUT,
             IF rx_states[r].allocated
               THEN releaseStatePayload(r, left)
               ELSE /\ FreeBlocks > 0 /\ used' = used + 1
                    /\ rx_states' = [rx_states EXCEPT ![r] = Empty(left)]
      PROVE  RequestInv
  <2>1. CASE rx_states[r].allocated
    BY <1>4, <2>1, ReleasedKeeps
  <2>2. CASE ~rx_states[r].allocated
    <3>1. Empty(left) \in RxState /\ Empty(left).allocated /\ Empty(left).payload = 0
      BY <1>4 DEF Empty, RxState
    <3> QED
      BY <1>4, <2>2, <3>1, TakenKeeps
  <2> QED
    BY <2>1, <2>2
<1> QED
  BY <1>1, <1>3, <1>4 DEF FirstFrame

LEMMA LaterFrameKeeps ==
  ASSUME TypeOK, BlocksInv, NEW r \in Requesters, LaterFrame(r)
  PROVE  RequestInv /\ pc' \in {"receive", "answer"}
<1>1. pc' \in {"receive", "answer"}
  BY DEF LaterFrame, MiddleFrame, LastFrame
<1>2. /\ rx_states \in [Requesters -> RxState] /\ rx_states[r] \in RxState
      /\ rx_states[r].left \in 0 .. RX_TIMEOUT /\ rx_states[r].payload \in Nat
      /\ 0 \in 0 .. RX_TIMEOUT
  BY Constants DEF TypeOK, RxState
<1>3. CASE UNCHANGED <<used, rx_states>>
  BY <1>1, <1>3, UnchangedKeeps
<1>4. ASSUME rx_states[r].allocated, FreeBlocks > 0, used' = used + 1,
             rx_states' = [rx_states EXCEPT ![r].payload = @ + 1]
      PROVE  RequestInv
  <2> DEFINE state == [rx_states[r] EXCEPT !.payload = @ + 1]
  <2>1. /\ state \in RxState /\ state.allocated /\ state.payload = rx_states[r].payload + 1
        /\ rx_states' = [rx_states EXCEPT ![r] = state]
    BY <1>2, <1>4 DEF RxState
  <2> HIDE DEF state
  <2> QED
    BY <1>4, <2>1, TakenKeeps
<1>5. ASSUME rx_states[r].allocated, NEW left \in 0 .. RX_TIMEOUT, releaseStatePayload(r, left)
      PROVE  RequestInv
  BY <1>5, ReleasedKeeps
<1>6. CASE ~rx_states[r].allocated
  BY <1>3, <1>6 DEF LaterFrame
<1>7. CASE rx_states[r].allocated /\ rx_states[r].left = 0
  BY <1>2, <1>5, <1>7 DEF LaterFrame
<1>8. CASE rx_states[r].allocated /\ rx_states[r].left # 0
  <2>1. CASE MiddleFrame(r)
    BY <1>2, <1>3, <1>4, <1>5, <1>8, <2>1 DEF MiddleFrame
  <2>2. CASE LastFrame(r)
    BY <1>2, <1>5, <1>8, <2>2 DEF LastFrame
  <2> QED
    BY <1>8, <2>1, <2>2 DEF LaterFrame
<1> QED
  BY <1>1, <1>6, <1>7, <1>8

LEMMA ReceiveKeeps ==
  ASSUME IInv, Receive
  PROVE  IInv'
<1>1. /\ pc = "receive" /\ count < RX_BUDGET /\ count' = count + 1
      /\ inbox > 0 /\ inbox' = inbox - 1
      /\ \E r \in Requesters : FirstFrame(r) \/ LaterFrame(r)
      /\ UNCHANGED <<off, tx_queue, cleanup, next_status, tx_overflow_pending, recovery,
                     txOverflow, bus, cut, lost>>
  BY DEF Receive
<1>2. RequestInv /\ pc' \in {"receive", "answer"}
  BY <1>1, FirstFrameKeeps, LaterFrameKeeps DEF IInv
<1>3. UNCHANGED <<mailbox, bof, got, torn>>
  BY <1>1 DEF bus
<1>4. count' \in 0 .. RX_BUDGET + TX_BUDGET /\ inbox' \in 0 .. RX_RING
  <2>1. /\ RX_BUDGET \in Nat /\ TX_BUDGET \in Nat /\ RX_RING \in Nat
        /\ count \in 0 .. RX_BUDGET + TX_BUDGET /\ inbox \in 0 .. RX_RING
    BY Constants DEF IInv, TypeOK
  <2> QED
    BY <1>1, <2>1
<1>5. TypeOK'
  BY <1>1, <1>2, <1>3, <1>4 DEF IInv, TypeOK, RequestInv, RxState
<1>6. BlocksInv'
  BY <1>1, <1>2 DEF BlocksInv, BlocksAreAccounted, RequestInv
<1>7. QueueInv' /\ NoNewTelemetry(tx_queue', tx_queue)
  <2>1. UNCHANGED <<tx_queue, mailbox, got, cut>>
    BY <1>1, <1>3
  <2> QED
    BY <2>1, Untouched, NothingNew DEF IInv, TypeOK
<1>8. ExpiresFirst'
  BY <1>1, <1>2, <1>7, ExpiresOfSame DEF IInv
<1>9. CleanupIsSet' /\ TelemetryIsWhole'
  BY <1>1, <1>2, <1>3 DEF IInv, CleanupIsSet, TelemetryIsWhole
<1> QED
  BY <1>5, <1>6, <1>7, <1>8, <1>9 DEF IInv

LEMMA AnswerKeeps ==
  ASSUME IInv, Answer
  PROVE  IInv'
<1>1. /\ pc = "answer" /\ pc' = "receive" /\ Enqueue("info", HIGH_DEADLINE)
      /\ UNCHANGED <<off, count, rx_states, cleanup, next_status, recovery, txOverflow, inbox,
                     bus, cut>>
  BY DEF Answer
<1>2. tx_overflow_pending' \in BOOLEAN /\ lost' \in BOOLEAN
  BY DEF IInv, TypeOK, Answer, EnqueueFails
<1>3. UNCHANGED <<mailbox, bof, got, torn>>
  BY <1>1 DEF bus
<1>4. /\ "info" \in Streams /\ "info" \notin Telemetry
      /\ HIGH_DEADLINE \in Nat /\ CAPACITY \in Nat
  BY Constants DEF Streams, Telemetry
<1>5. /\ QueueInv' /\ tx_queue' \in Seq(Frame) /\ used' \in 0 .. CAPACITY
      /\ used' - used = Len(tx_queue') - Len(tx_queue)
      /\ NoNewTelemetry(tx_queue', tx_queue)
  BY <1>1, <1>3, <1>4, EnqueueKeeps DEF IInv
<1>6. TypeOK'
  BY <1>1, <1>2, <1>3, <1>5 DEF IInv, TypeOK
<1>7. BlocksInv'
  BY <1>1, <1>4, <1>5, BlocksOfSame DEF IInv
<1>8. ExpiresFirst'
  BY <1>1, <1>5, ExpiresOfSame DEF IInv
<1>9. CleanupIsSet' /\ TelemetryIsWhole'
  BY <1>1, <1>3 DEF IInv, CleanupIsSet, TelemetryIsWhole
<1> QED
  BY <1>5, <1>6, <1>7, <1>8, <1>9 DEF IInv

\* Frames lost from the queue of the node.
LEMMA LossOfQueue ==
  ASSUME TypeOK, QueueInv, tx_queue' \in Seq(Frame), NEW f, Thinned(tx_queue, tx_queue', f),
         NEW places, Gone(tx_queue, tx_queue', f) = places,
         \A t \in Telemetry : Spoilt(tx_queue, t, places),
         UNCHANGED <<mailbox, got>>, cut' = cut \cup CutBy(tx_queue, places)
  PROVE  QueueInv' /\ NoNewTelemetry(tx_queue', tx_queue)
<1> DEFINE new == tx_queue'
<1>1. /\ tx_queue \in Seq(Frame) /\ mailbox \in Seq(Frame)
      /\ got \in [Broadcasts -> Nat] /\ cut \in SUBSET Broadcasts
  BY DEF TypeOK
<1>2. /\ Sorted(tx_queue) /\ InRange(tx_queue) /\ InTail(tx_queue)
      /\ \A t \in Telemetry : Rising(tx_queue, t)
      /\ \A t \in Telemetry : Chain(mailbox \o tx_queue, t, got[t], t \in cut)
  BY DEF QueueInv, FramesInRange, DeadlinesRise, ChainsHold, Line
<1>3. /\ new \in Seq(Frame) /\ Thinned(tx_queue, new, f)
      /\ \A t \in Telemetry : Spoilt(tx_queue, t, Gone(tx_queue, new, f))
  BY Zenon
<1>4. \A k \in 1 .. Len(new) : f[k] \in 1 .. Len(tx_queue) /\ new[k] = tx_queue[f[k]]
  <2>1. tx_queue \in Seq(Frame)
    BY <1>1
  <2>2. new \in Seq(Frame) /\ Thinned(tx_queue, new, f)
    BY <1>3
  <2> HIDE DEF new
  <2>3. \A k \in 1 .. Len(new) :
          /\ f[k] \in 1 .. Len(tx_queue) /\ new[k] = tx_queue[f[k]]
          /\ f[k] \notin Gone(tx_queue, new, f)
    BY <2>1, <2>2, ThinnedFrames, Zenon
  <2> QED
    BY <2>3
<1>5. mailbox' = mailbox /\ got' = got /\ cut' = cut \cup CutBy(tx_queue, Gone(tx_queue, new, f))
  BY Zenon
<1> HIDE DEF new
<1>6. /\ Sorted(new) /\ InRange(new) /\ InTail(new)
      /\ \A t \in Telemetry : Rising(tx_queue, t) => Rising(new, t)
      /\ \A t \in Telemetry :
           Chain(mailbox \o tx_queue, t, got[t], t \in cut) =>
             Chain(mailbox \o new, t, got[t], t \in cut \cup CutBy(tx_queue, Gone(tx_queue, new, f)))
  BY <1>1, <1>2, <1>3, LossKeeps, Zenon
<1>7. tx_queue' = new
  BY DEF new
<1>8. ChainsHold'
  <2>1. \A t \in Telemetry :
          Chain(mailbox \o new, t, got[t], t \in cut \cup CutBy(tx_queue, Gone(tx_queue, new, f)))
    BY <1>2, <1>6
  <2>2. \A t \in Telemetry : Chain(mailbox' \o tx_queue', t, got'[t], t \in cut')
    BY <1>5, <1>7, <2>1
  <2> QED
    BY <2>2 DEF ChainsHold, Line
<1>9. DeadlinesRise' /\ FramesInRange'
  BY <1>2, <1>5, <1>6, <1>7 DEF DeadlinesRise, FramesInRange, QueueInv
<1>10. NoNewTelemetry(new, tx_queue)
  BY <1>4 DEF NoNewTelemetry
<1> QED
  BY <1>6, <1>7, <1>8, <1>9, <1>10 DEF QueueInv

LEMMA ReceiveDoneKeeps ==
  ASSUME IInv, ReceiveDone
  PROVE  IInv'
<1>1. /\ pc = "receive" /\ pc' \in {"report", "status"}
      /\ \/ /\ tx_queue' = <<>> /\ used' = used - Len(tx_queue)
            /\ cut' = cut \cup CutBy(tx_queue, DOMAIN tx_queue)
         \/ UNCHANGED <<tx_queue, used, cut>>
      /\ UNCHANGED <<off, count, rx_states, cleanup, next_status, tx_overflow_pending, recovery,
                     txOverflow, inbox, bus, lost>>
  BY DEF ReceiveDone, Release
<1> DEFINE held == Cardinality(RxBlocks(rx_states))
<1>2. /\ used \in 0 .. CAPACITY /\ tx_queue \in Seq(Frame) /\ Len(tx_queue) \in Nat
      /\ CAPACITY \in Nat /\ cut \in SUBSET Broadcasts /\ held \in Nat
      /\ IsFiniteSet(RxBlocks(rx_states)) /\ used = Len(tx_queue) + held
  BY Accounted DEF IInv, TypeOK
<1> HIDE DEF held
<1>3. UNCHANGED <<mailbox, bof, got, torn>>
  BY <1>1 DEF bus
<1>4. /\ QueueInv' /\ tx_queue' \in Seq(Frame) /\ used' \in 0 .. CAPACITY
      /\ used' = Len(tx_queue') + held
      /\ NoNewTelemetry(tx_queue', tx_queue) /\ cut' \subseteq Broadcasts
  <2>1. CASE /\ tx_queue' = <<>> /\ used' = used - Len(tx_queue)
             /\ cut' = cut \cup CutBy(tx_queue, DOMAIN tx_queue)
    <3> DEFINE n == Len(tx_queue)
    <3>1. /\ tx_queue' \in Seq(Frame) /\ Len(tx_queue') = 0
          /\ \E f : /\ Thinned(tx_queue, tx_queue', f)
                    /\ Gone(tx_queue, tx_queue', f) = 1 .. n
      BY <1>2, <2>1, EmptyThins
    <3>2. PICK f : Thinned(tx_queue, tx_queue', f) /\ Gone(tx_queue, tx_queue', f) = 1 .. n
      BY <3>1
    <3>3. \A t \in Telemetry : Spoilt(tx_queue, t, 1 .. n)
      BY DEF Spoilt
    <3>4. cut' = cut \cup CutBy(tx_queue, 1 .. n)
      BY <1>2, <2>1, FrameParts
    <3>5. QueueInv' /\ NoNewTelemetry(tx_queue', tx_queue)
      BY <1>3, <3>1, <3>2, <3>3, <3>4, LossOfQueue DEF IInv
    <3>6. used' \in 0 .. CAPACITY /\ used' = 0 + held
      BY <1>2, <2>1
    <3>7. cut' \subseteq Broadcasts
      BY <1>2, <3>4 DEF CutBy
    <3> QED
      BY <3>1, <3>5, <3>6, <3>7
  <2>2. CASE UNCHANGED <<tx_queue, used, cut>>
    <3>1. QueueInv' /\ NoNewTelemetry(tx_queue, tx_queue)
      BY <1>2, <1>3, <2>2, Untouched, NothingNew DEF IInv
    <3> QED
      BY <1>2, <2>2, <3>1
  <2> QED
    BY <1>1, <2>1, <2>2
<1>5. TypeOK'
  BY <1>1, <1>3, <1>4 DEF IInv, TypeOK
<1>6. BlocksInv'
  BY <1>1, <1>2, <1>4 DEF BlocksInv, BlocksAreAccounted, held
<1>7. ExpiresFirst'
  BY <1>1, <1>4, ExpiresOfSame DEF IInv
<1>8. CleanupIsSet' /\ TelemetryIsWhole'
  BY <1>1, <1>3 DEF IInv, CleanupIsSet, TelemetryIsWhole
<1> QED
  BY <1>4, <1>5, <1>6, <1>7, <1>8 DEF IInv

\* The frames that expire are the oldest of their stream, transfer by transfer.
LEMMA ExpiredSpoils ==
  ASSUME NEW queue \in Seq(Frame), NEW s \in Streams, Rising(queue, s),
         NEW places, places = {i \in DOMAIN queue : queue[i].left = 0}
  PROVE  Spoilt(queue, s, places)
<1>1. /\ DOMAIN queue = 1 .. Len(queue) /\ Len(queue) \in Nat
      /\ \A k \in 1 .. Len(queue) : queue[k].left \in Nat
  BY FrameParts
<1>2. /\ \A i, j \in 1 .. Len(queue) :
           i <= j /\ queue[i].stream = s /\ queue[j].stream = s => queue[i].left <= queue[j].left
      /\ \A i, j \in 1 .. Len(queue) :
           Neighbours(queue, s, i, j) => queue[j].index = 1 \/ queue[i].left = queue[j].left
  BY DEF Rising
<1>3. places = {i \in 1 .. Len(queue) : queue[i].left = 0}
  BY <1>1
<1>4. ASSUME NEW x \in places, NEW i \in 1 .. Len(queue),
             i < x, queue[i].stream = s, queue[x].stream = s
      PROVE  i \in places
  <2>1. x \in 1 .. Len(queue) /\ queue[x].left = 0 /\ i <= x
    BY <1>1, <1>3, <1>4
  <2>2. queue[i].left <= queue[x].left
    BY <1>2, <1>4, <2>1
  <2>3. queue[i].left = 0
    BY <1>1, <2>1, <2>2
  <2> QED
    BY <1>3, <2>3
<1>5. ASSUME NEW x \in places, NEW j \in 1 .. Len(queue),
             Neighbours(queue, s, x, j), j \notin places
      PROVE  queue[j].index = 1
  <2>1. x \in 1 .. Len(queue) /\ queue[x].left = 0 /\ queue[j].left # 0
    BY <1>3, <1>5
  <2> QED
    BY <1>2, <1>5, <2>1, Zenon
<1> QED
  BY <1>4, <1>5, Zenon DEF Spoilt

LEMMA CleanupKeeps ==
  ASSUME IInv, Cleanup
  PROVE  IInv'
<1>1. /\ pc = "clean" /\ pc' = "receive" /\ count' = 0
      /\ \/ cleanup = 0 /\ CleanupStaleTransfers /\ cleanup' = CLEANUP
         \/ cleanup # 0 /\ UNCHANGED <<tx_queue, used, rx_states, cleanup, cut>>
      /\ UNCHANGED <<off, next_status, recovery, tx_overflow_pending, txOverflow, inbox, bus, lost>>
  BY DEF Cleanup
<1>2. /\ used \in 0 .. CAPACITY /\ tx_queue \in Seq(Frame) /\ Len(tx_queue) \in Nat
      /\ CAPACITY \in Nat /\ cut \in SUBSET Broadcasts
      /\ rx_states \in [Requesters -> RxState] /\ IsFiniteSet(RxBlocks(rx_states))
      /\ Cardinality(RxBlocks(rx_states)) \in Nat
      /\ cleanup \in 0 .. CLEANUP /\ CLEANUP \in Nat /\ CLEANUP > 0
      /\ used = Len(tx_queue) + Cardinality(RxBlocks(rx_states))
      /\ 0 \in 0 .. RX_BUDGET + TX_BUDGET
  BY Accounted, Constants DEF IInv, TypeOK
<1>3. UNCHANGED <<mailbox, bof, got, torn>>
  BY <1>1 DEF bus
<1>4. /\ QueueInv' /\ tx_queue' \in Seq(Frame) /\ used' \in 0 .. CAPACITY
      /\ BlocksInv' /\ rx_states' \in [Requesters -> RxState]
      /\ cut' \subseteq Broadcasts
      /\ cleanup' \in 1 .. CLEANUP
      /\ ExpiresFirst'
  <2>1. CASE cleanup = 0 /\ CleanupStaleTransfers /\ cleanup' = CLEANUP
    <3> DEFINE n == Len(tx_queue)
               expired == {i \in DOMAIN tx_queue : tx_queue[i].left = 0}
               stale == {block \in RxBlocks(rx_states) : rx_states[block[1]].left = 0}
               places == (1 .. n) \ expired
    <3>1. /\ tx_queue' = Kept(tx_queue, DOMAIN tx_queue \ expired)
          /\ cut' = cut \cup CutBy(tx_queue, expired)
          /\ used' = used - (Cardinality(expired) + Cardinality(stale))
          /\ rx_states' = [r \in Requesters |->
                             IF rx_states[r].left = 0 THEN NoState ELSE rx_states[r]]
      BY <2>1 DEF CleanupStaleTransfers, Release
    <3>2. DOMAIN tx_queue = 1 .. n /\ \A k \in 1 .. n : tx_queue[k].left \in Nat
      BY <1>2, FrameParts
    <3>3. (1 .. n) \ places = expired /\ tx_queue' = Kept(tx_queue, places)
      BY <3>1, <3>2
    <3> HIDE DEF n, places
    <3>4. places \in SUBSET (1 .. Len(tx_queue))
      BY DEF places, n
    <3>5. /\ tx_queue' \in Seq(Frame)
          /\ Len(tx_queue') = n - Cardinality(expired)
          /\ \E f : Thinned(tx_queue, tx_queue', f) /\ Gone(tx_queue, tx_queue', f) = expired
      <4> HIDE DEF expired
      <4> QED
        BY <1>2, <3>3, <3>4, KeptThins DEF n
    <3>6. PICK f : Thinned(tx_queue, tx_queue', f) /\ Gone(tx_queue, tx_queue', f) = expired
      BY <3>5
    <3>7. \A t \in Telemetry : Spoilt(tx_queue, t, expired)
      BY <1>2, Constants, ExpiredSpoils DEF IInv, QueueInv, DeadlinesRise
    <3>8. QueueInv' /\ NoNewTelemetry(tx_queue', tx_queue)
      <4> HIDE DEF expired
      <4> QED
        BY <1>3, <3>1, <3>5, <3>6, <3>7, LossOfQueue DEF IInv
    <3>9. Cardinality(expired) \in Nat /\ Len(tx_queue') \in Nat /\ n = Len(tx_queue)
      <4>0. \A a, b \in Int : IsFiniteSet(a .. b)
        BY FS_Interval
      <4>3. IsFiniteSet(1 .. n)
        BY <1>2, <4>0 DEF n
      <4>4. expired \subseteq 1 .. n
        BY <3>2
      <4>1. IsFiniteSet(1 .. n) /\ expired \subseteq 1 .. n
        BY <4>3, <4>4
      <4> HIDE DEF expired
      <4>2. Cardinality(expired) \in Nat
        BY <4>1, FS_Subset, FS_CardinalityType
      <4> QED
        BY <3>5, <4>2, LenProperties DEF n
    <3>10. rx_states' \in [Requesters -> RxState]
      <4>1. NoState \in RxState
        BY Constants DEF NoState, RxState
      <4> QED
        BY <1>2, <3>1, <4>1
    <3>11. /\ Cardinality(stale) \in Nat /\ IsFiniteSet(RxBlocks(rx_states'))
           /\ Cardinality(RxBlocks(rx_states')) = Cardinality(RxBlocks(rx_states)) - Cardinality(stale)
      <4>1. \A r \in Requesters :
              rx_states'[r] = IF rx_states[r].left = 0 THEN NoState ELSE rx_states[r]
        BY <3>1
      <4> QED
        BY <1>2, <3>10, <4>1, StaleReleased
    <3>12. used' \in 0 .. CAPACITY /\ BlocksInv'
      <4>1. /\ n \in Nat /\ CAPACITY \in Nat /\ used \in 0 .. CAPACITY
            /\ used = n + Cardinality(RxBlocks(rx_states))
            /\ Cardinality(RxBlocks(rx_states)) \in Nat
        BY <1>2, <3>9
      <4>2. /\ used' = used - (Cardinality(expired) + Cardinality(stale))
            /\ Len(tx_queue') = n - Cardinality(expired)
            /\ Cardinality(expired) \in Nat /\ Len(tx_queue') \in Nat
        BY <3>1, <3>5, <3>9
      <4>3. Cardinality(RxBlocks(rx_states')) \in Nat
        BY <3>11, FS_CardinalityType
      <4> HIDE DEF expired, stale
      <4>4. /\ used' = Len(tx_queue') + Cardinality(RxBlocks(rx_states'))
            /\ used' \in 0 .. CAPACITY
        <5>1. \A q, was, is, went, late, u, c \in Nat :
                u = q + was /\ u <= c /\ is = was - went /\ q - late \in Nat =>
                  u - (late + went) = q - late + is /\ u - (late + went) \in 0 .. c
          OBVIOUS
        <5> DEFINE was == Cardinality(RxBlocks(rx_states))
                   is == Cardinality(RxBlocks(rx_states'))
                   went == Cardinality(stale)
                   late == Cardinality(expired)
                   len == Len(tx_queue')
                   new == used'
        <5>2. /\ used \in Nat /\ used <= CAPACITY /\ CAPACITY \in Nat /\ used = n + was
              /\ n \in Nat /\ was \in Nat
          BY <4>1
        <5>3. /\ new = used - (late + went) /\ len = n - late /\ late \in Nat /\ len \in Nat
          BY <4>2
        <5>4. is \in Nat /\ went \in Nat /\ is = was - went
          BY <3>11, <4>3
        <5> HIDE DEF was, is, went, late, len, new
        <5>5. new = len + is /\ new \in 0 .. CAPACITY
          BY <5>1, <5>2, <5>3, <5>4
        <5> QED
          BY <5>5 DEF is, len, new
      <4> QED
        BY <3>11, <4>4 DEF BlocksInv, BlocksAreAccounted
    <3>13. cut' \subseteq Broadcasts
      BY <1>2, <3>1 DEF CutBy
    <3>14. ExpiresFirst'
      <4> SUFFICES ASSUME recovery.active, NEW k \in 1 .. Len(tx_queue'),
                          tx_queue'[k].stream \in Telemetry
                   PROVE  tx_queue'[k].left > 0 /\ tx_queue'[k].left + CLEANUP <= recovery.left
        BY <1>1 DEF ExpiresFirst
      <4>1. f[k] \in 1 .. Len(tx_queue) /\ tx_queue'[k] = tx_queue[f[k]] /\ f[k] \notin expired
        <5> HIDE DEF expired
        <5>1. \A l \in 1 .. Len(tx_queue') :
                /\ f[l] \in 1 .. Len(tx_queue) /\ tx_queue'[l] = tx_queue[f[l]]
                /\ f[l] \notin Gone(tx_queue, tx_queue', f)
          <6>1. tx_queue \in Seq(Frame)
            BY <1>2
          <6>2. tx_queue' \in Seq(Frame)
            BY <3>5
          <6>3. Thinned(tx_queue, tx_queue', f)
            BY <3>6
          <6> QED
            BY <6>1, <6>2, <6>3, ThinnedFrames, Zenon
        <5> QED
          BY <3>6, <5>1
      <4>2. tx_queue[f[k]].left > 0
        BY <3>2, <4>1 DEF n
      <4>3. tx_queue[f[k]].left + CLEANUP <= recovery.left
        BY <1>1, <4>1, <4>2 DEF IInv, ExpiresFirst
      <4> QED
        BY <4>1, <4>2, <4>3
    <3>15. cleanup' \in 1 .. CLEANUP
      BY <1>2, <2>1
    <3> QED
      BY <3>5, <3>8, <3>10, <3>12, <3>13, <3>14, <3>15
  <2>2. CASE cleanup # 0 /\ UNCHANGED <<tx_queue, used, rx_states, cleanup, cut>>
    <3>1. QueueInv' /\ NoNewTelemetry(tx_queue', tx_queue)
      BY <1>2, <1>3, <2>2, Untouched, NothingNew DEF IInv
    <3>2. ExpiresFirst'
      BY <1>1, <2>2, <3>1, ExpiresOfSame DEF IInv
    <3>3. cleanup' \in 1 .. CLEANUP
      BY <1>2, <2>2
    <3>4. BlocksInv'
      BY <2>2 DEF IInv, BlocksInv, BlocksAreAccounted
    <3> QED
      BY <1>2, <2>2, <3>1, <3>2, <3>3, <3>4
  <2> QED
    BY <1>1, <2>1, <2>2
<1>5. TypeOK'
  <2>1. cleanup' \in 0 .. CLEANUP
    BY <1>2, <1>4
  <2>2. count' \in 0 .. RX_BUDGET + TX_BUDGET
    BY <1>1, <1>2
  <2> QED
    BY <1>1, <1>3, <1>4, <2>1, <2>2 DEF IInv, TypeOK, RxState
<1>6. CleanupIsSet' /\ TelemetryIsWhole'
  BY <1>1, <1>2, <1>3, <1>4 DEF IInv, CleanupIsSet, TelemetryIsWhole
<1> QED
  BY <1>4, <1>5, <1>6 DEF IInv

LEMMA RecoverKeeps ==
  ASSUME IInv, Recover
  PROVE  IInv'
<1>1. /\ pc = "recover" /\ pc' = "clean" /\ off' = FALSE
      /\ \/ ~off /\ recovery' = [active |-> FALSE, left |-> 0]
         \/ off /\ recovery.active /\ recovery' = recovery
         \/ off /\ recovery' = [active |-> TRUE, left |-> RECOVERY]
      /\ \/ off /\ recovery.active /\ recovery.left = 0 /\ platform_can_reinit
         \/ UNCHANGED <<inbox, bus, cut>>
      /\ UNCHANGED <<count, node, txOverflow, lost>>
  BY DEF Recover
<1>2. /\ tx_queue \in Seq(Frame) /\ mailbox \in Seq(Frame) /\ Len(tx_queue) \in Nat
      /\ \A k \in 1 .. Len(tx_queue) : tx_queue[k].left \in Nat /\ tx_queue[k].stream \in Streams
      /\ cut \in SUBSET Broadcasts /\ got \in [Broadcasts -> Nat]
      /\ recovery \in [active : BOOLEAN, left : 0 .. RECOVERY]
      /\ cleanup \in 0 .. CLEANUP /\ CLEANUP \in Nat /\ RECOVERY \in Nat /\ TX_DEADLINE \in Nat
      /\ MAILBOXES \in Nat /\ TX_DEADLINE > 0 /\ TX_DEADLINE + CLEANUP <= RECOVERY
      /\ RX_RING \in Nat
  BY Constants, FrameParts DEF IInv, TypeOK
<1>3. UNCHANGED <<tx_queue, used, rx_states, cleanup, next_status, tx_overflow_pending>>
  BY <1>1 DEF node
<1>4. /\ QueueInv' /\ mailbox' \in Seq(Frame) /\ Len(mailbox') <= MAILBOXES
      /\ inbox' \in 0 .. RX_RING /\ bof' \in BOOLEAN /\ got' = got /\ torn' = torn
      /\ cut' \subseteq Broadcasts
  <2>1. CASE off /\ recovery.active /\ recovery.left = 0 /\ platform_can_reinit
    <3>1. /\ mailbox' = <<>> /\ bof' = FALSE /\ inbox' = 0 /\ got' = got /\ torn' = torn
          /\ cut' = cut \cup CutBy(mailbox, DOMAIN mailbox)
      BY <2>1 DEF platform_can_reinit
    <3>2. /\ FramesInRange /\ Sorted(tx_queue) /\ DeadlinesRise /\ ChainsHold /\ InTail(tx_queue)
      BY DEF IInv, QueueInv
    <3>3. ASSUME NEW t \in Telemetry
          PROVE  NoneFrom(tx_queue, t, 1)
      <4>1. ASSUME NEW k \in 1 .. Len(tx_queue), tx_queue[k].stream = t
            PROVE  FALSE
        <5>1. IF tx_queue[k].left > 0 THEN tx_queue[k].left + CLEANUP <= 0 ELSE cleanup < 0
          BY <2>1, <4>1 DEF IInv, ExpiresFirst
        <5>2. tx_queue[k].left \in Nat /\ cleanup \in Nat /\ CLEANUP \in Nat
          BY <1>2
        <5> QED
          BY <5>1, <5>2
      <4> QED
        BY <4>1 DEF NoneFrom
    <3>4. ASSUME NEW t \in Telemetry
          PROVE  Chain(<<>> \o tx_queue, t, got[t], t \in cut')
      <4> DEFINE g == got[t]
                 c == t \in cut
                 d == t \in cut'
      <4>1. /\ t \in Broadcasts /\ g \in Nat /\ g < Frames[t] /\ Frames[t] \in Nat /\ Frames[t] > 0
            /\ Chain(mailbox \o tx_queue, t, g, c)
        BY <1>2, <3>2, Constants DEF FramesInRange, ChainsHold, Line
      <4>2. (c => d) /\ (t \in CutBy(mailbox, DOMAIN mailbox) => d)
        BY <3>1
      <4>3. NoneFrom(tx_queue, t, 1)
        BY <3>3
      <4>4. tx_queue \in Seq(Frame) /\ mailbox \in Seq(Frame)
        BY <1>2
      <4>5. Chain(<<>> \o tx_queue, t, g, d)
        <5> HIDE DEF g, c, d
        <5> QED
          BY <4>1, <4>2, <4>3, <4>4, ChainOfReset, Zenon
      <4> QED
        BY <4>5
    <3>5. ChainsHold'
      BY <1>3, <3>1, <3>4 DEF ChainsHold, Line
    <3>6. FramesInRange'
      BY <1>3, <3>1, <3>2 DEF FramesInRange, InRange
    <3>7. DeadlinesRise' /\ Sorted(tx_queue)' /\ InTail(tx_queue)'
      BY <1>3, <3>2 DEF DeadlinesRise
    <3>8. cut' \subseteq Broadcasts
      BY <1>2, <3>1 DEF CutBy
    <3>9. QueueInv'
      BY <3>5, <3>6, <3>7 DEF QueueInv
    <3>10. mailbox' \in Seq(Frame) /\ Len(mailbox') <= MAILBOXES
      BY <1>2, <3>1
    <3>11. inbox' \in 0 .. RX_RING /\ bof' \in BOOLEAN
      <4>1. inbox' = 0 /\ RX_RING \in Nat
        BY <1>2, <3>1
      <4>2. inbox' \in 0 .. RX_RING
        BY <4>1
      <4>3. bof' \in BOOLEAN
        BY <3>1
      <4> QED
        BY <4>2, <4>3
    <3> QED
      BY <3>1, <3>8, <3>9, <3>10, <3>11
  <2>2. CASE UNCHANGED <<inbox, bus, cut>>
    <3>1. UNCHANGED <<inbox, mailbox, bof, got, torn, cut>>
      BY <2>2 DEF bus
    <3>2. QueueInv'
      BY <1>3, <3>1, Untouched DEF IInv
    <3>3. /\ Len(mailbox) <= MAILBOXES /\ inbox \in 0 .. RX_RING /\ bof \in BOOLEAN
      BY DEF IInv, TypeOK
    <3> QED
      BY <1>2, <3>1, <3>2, <3>3
  <2> QED
    BY <1>1, <2>1, <2>2
<1>5. recovery' \in [active : BOOLEAN, left : 0 .. RECOVERY]
  <2>1. 0 \in 0 .. RECOVERY /\ RECOVERY \in 0 .. RECOVERY
    BY <1>2
  <2>2. \A b \in BOOLEAN, l \in 0 .. RECOVERY :
          [active |-> b, left |-> l] \in [active : BOOLEAN, left : 0 .. RECOVERY]
    OBVIOUS
  <2>3. CASE off /\ recovery.active /\ recovery' = recovery
    BY <1>2, <2>3
  <2>4. CASE off /\ recovery' = [active |-> TRUE, left |-> RECOVERY]
    BY <2>1, <2>2, <2>4
  <2>5. CASE ~off /\ recovery' = [active |-> FALSE, left |-> 0]
    BY <2>1, <2>2, <2>5
  <2> QED
    BY <1>1, <2>3, <2>4, <2>5
<1>6. TypeOK'
  BY <1>1, <1>3, <1>4, <1>5 DEF IInv, TypeOK
<1>7. ExpiresFirst'
  <2> SUFFICES ASSUME recovery'.active, NEW k \in 1 .. Len(tx_queue),
                      tx_queue[k].stream \in Telemetry
               PROVE  IF tx_queue[k].left > 0 THEN tx_queue[k].left + CLEANUP <= recovery'.left
                                              ELSE cleanup < recovery'.left
    BY <1>1, <1>3 DEF ExpiresFirst
  <2>1. CASE off /\ recovery.active /\ recovery' = recovery
    BY <1>1, <2>1 DEF IInv, ExpiresFirst
  <2>2. CASE off /\ recovery' = [active |-> TRUE, left |-> RECOVERY]
    <3>1. tx_queue[k].left <= TX_DEADLINE
      BY DEF IInv, QueueInv, DeadlinesRise, Rising
    <3>2. recovery'.left = RECOVERY
      BY <2>2
    <3> QED
      BY <1>2, <3>1, <3>2
  <2>3. CASE ~off /\ recovery' = [active |-> FALSE, left |-> 0]
    BY <2>3
  <2> QED
    BY <1>1, <2>1, <2>2, <2>3
<1>8. BlocksInv' /\ CleanupIsSet' /\ TelemetryIsWhole'
  BY <1>1, <1>3, <1>4 DEF IInv, BlocksInv, BlocksAreAccounted, CleanupIsSet, TelemetryIsWhole
<1> QED
  BY <1>4, <1>6, <1>7, <1>8 DEF IInv

\* The head of the queue becomes the last of the mailboxes: the line stays.
LEMMA Moved ==
  ASSUME NEW first \in Seq(Frame), NEW queue \in Seq(Frame), queue # <<>>
  PROVE  /\ Append(first, Head(queue)) \in Seq(Frame)
         /\ Len(Append(first, Head(queue))) = Len(first) + 1
         /\ \A k \in 1 .. Len(first) : Append(first, Head(queue))[k] = first[k]
         /\ Append(first, Head(queue))[Len(first) + 1] = queue[1]
         /\ Append(first, Head(queue)) \o Tail(queue) = first \o queue
<1> DEFINE a == Len(first)
           n == Len(queue)
           one == Append(first, Head(queue))
           rest == Tail(queue)
<1>1. a \in Nat /\ n \in Nat /\ n > 0
  BY LenProperties, EmptySeq
<1>2. rest \in Seq(Frame) /\ Len(rest) = n - 1 /\ \A k \in 1 .. n - 1 : rest[k] = queue[k + 1]
  BY HeadTailProperties
<1>3. Head(queue) = queue[1] /\ Head(queue) \in Frame
  BY HeadTailProperties
<1>4. /\ one \in Seq(Frame) /\ Len(one) = a + 1
      /\ \A k \in 1 .. a : one[k] = first[k]
      /\ one[a + 1] = queue[1]
  BY <1>1, <1>3, AppendProperties
<1> HIDE DEF one, rest, a, n
<1>5. /\ one \o rest \in Seq(Frame) /\ Len(one \o rest) = a + n
      /\ \A k \in 1 .. a + n : (one \o rest)[k] = IF k <= a + 1 THEN one[k] ELSE rest[k - (a + 1)]
  <2>1. a + 1 + (n - 1) = a + n
    BY <1>1
  <2>2. /\ one \o rest \in Seq(Frame) /\ Len(one \o rest) = a + 1 + (n - 1)
        /\ \A k \in 1 .. a + 1 + (n - 1) :
             (one \o rest)[k] = IF k <= a + 1 THEN one[k] ELSE rest[k - (a + 1)]
    BY <1>2, <1>4, Concatenation
  <2> QED
    BY <2>1, <2>2
<1>6. /\ first \o queue \in Seq(Frame) /\ Len(first \o queue) = a + n
      /\ \A k \in 1 .. a + n : (first \o queue)[k] = IF k <= a THEN first[k] ELSE queue[k - a]
  BY Concatenation DEF a, n
<1>7. ASSUME NEW k \in 1 .. a + n
      PROVE  (one \o rest)[k] = (first \o queue)[k]
  <2>1. CASE k <= a
    <3>1. k \in 1 .. a /\ k <= a + 1
      BY <1>1, <2>1
    <3> QED
      BY <1>4, <1>5, <1>6, <2>1, <3>1
  <2>2. CASE k = a + 1
    <3>1. ~(k <= a) /\ k <= a + 1 /\ k - a = 1
      BY <1>1, <2>2
    <3> QED
      BY <1>4, <1>5, <1>6, <2>2, <3>1
  <2>3. CASE k > a + 1
    <3>1. ~(k <= a) /\ ~(k <= a + 1) /\ k - (a + 1) \in 1 .. n - 1 /\ (k - (a + 1)) + 1 = k - a
      BY <1>1, <2>3
    <3> QED
      BY <1>2, <1>5, <1>6, <3>1
  <2>4. k \in Int /\ a \in Int
    BY <1>1
  <2>5. k <= a \/ k = a + 1 \/ k > a + 1
    BY <2>4
  <2> QED
    BY <2>1, <2>2, <2>3, <2>5
<1>8. one \o rest = first \o queue
  BY <1>5, <1>6, <1>7, SeqEqual
<1> QED
  BY <1>4, <1>8 DEF one, rest, a

LEMMA TransmitKeeps ==
  ASSUME IInv, Transmit
  PROVE  IInv'
<1>1. /\ pc = "transmit" /\ pc' = "transmit"
      /\ count < TX_BUDGET /\ tx_queue # <<>> /\ Len(mailbox) < MAILBOXES
      /\ mailbox' = Append(mailbox, Head(tx_queue))
      /\ tx_queue' = Tail(tx_queue) /\ used' = used - 1 /\ count' = count + 1
      /\ UNCHANGED <<off, rx_states, cleanup, next_status, tx_overflow_pending, recovery,
                     txOverflow, inbox, bof, got, torn, cut, lost>>
  BY DEF Transmit, CanTransmit, Release
<1> DEFINE held == Cardinality(RxBlocks(rx_states))
<1>2. /\ used \in 0 .. CAPACITY /\ tx_queue \in Seq(Frame) /\ Len(tx_queue) \in Nat
      /\ mailbox \in Seq(Frame) /\ Len(mailbox) \in Nat /\ MAILBOXES \in Nat
      /\ CAPACITY \in Nat /\ TX_BUDGET \in Nat /\ RX_BUDGET \in Nat
      /\ count \in 0 .. RX_BUDGET + TX_BUDGET /\ held \in Nat
      /\ IsFiniteSet(RxBlocks(rx_states)) /\ used = Len(tx_queue) + held
  BY Accounted, Constants, LenProperties DEF IInv, TypeOK
<1> HIDE DEF held
<1>3. /\ mailbox' \in Seq(Frame) /\ Len(mailbox') = Len(mailbox) + 1
      /\ \A k \in 1 .. Len(mailbox) : mailbox'[k] = mailbox[k]
      /\ mailbox'[Len(mailbox) + 1] = tx_queue[1]
      /\ mailbox' \o tx_queue' = mailbox \o tx_queue
  BY <1>1, <1>2, Moved
<1>4. /\ tx_queue' \in Seq(Frame) /\ Len(tx_queue') = Len(tx_queue) - 1
      /\ \E f : Thinned(tx_queue, tx_queue', f) /\ Gone(tx_queue, tx_queue', f) = {1}
  BY <1>1, <1>2, TailThins
<1>5. PICK f : Thinned(tx_queue, tx_queue', f) /\ Gone(tx_queue, tx_queue', f) = {1}
  BY <1>4
<1>6. /\ InRange(mailbox) /\ InRange(tx_queue) /\ Sorted(tx_queue) /\ InTail(tx_queue)
      /\ (\A s \in Broadcasts : got[s] < Frames[s]) /\ DeadlinesRise /\ ChainsHold
  BY DEF IInv, QueueInv, FramesInRange
<1>7. Sorted(tx_queue') /\ InRange(tx_queue') /\ InTail(tx_queue')
  <2>1. Thinned(tx_queue, tx_queue', f) /\ tx_queue \in Seq(Frame) /\ tx_queue' \in Seq(Frame)
    BY <1>2, <1>4, <1>5
  <2> QED
    BY <1>6, <2>1, ThinnedKeeps, Zenon
<1>8. InRange(mailbox')
  <2>1. \A k \in 1 .. Len(mailbox) : mailbox[k].index <= Frames[mailbox[k].stream]
    BY <1>6 DEF InRange
  <2>2. tx_queue[1].index <= Frames[tx_queue[1].stream]
    <3>1. 1 \in 1 .. Len(tx_queue)
      BY <1>1, <1>2, EmptySeq
    <3> QED
      BY <1>6, <3>1 DEF InRange
  <2>3. \A k \in 1 .. Len(mailbox') : k \in 1 .. Len(mailbox) \/ k = Len(mailbox) + 1
    BY <1>2, <1>3
  <2> QED
    BY <1>3, <2>1, <2>2, <2>3 DEF InRange
<1>9. DeadlinesRise'
  <2>1. ASSUME NEW s \in Telemetry PROVE Rising(tx_queue', s)
    <3>1. s \in Streams /\ Rising(tx_queue, s)
      BY <1>6, Constants DEF DeadlinesRise
    <3>2. \A x \in Gone(tx_queue, tx_queue', f), i \in 1 .. Len(tx_queue) :
            i < x /\ tx_queue[i].stream = s /\ tx_queue[x].stream = s =>
              i \in Gone(tx_queue, tx_queue', f)
      BY <1>5
    <3>3. Thinned(tx_queue, tx_queue', f) /\ tx_queue \in Seq(Frame) /\ tx_queue' \in Seq(Frame)
      BY <1>2, <1>4, <1>5
    <3> QED
      BY <3>1, <3>2, <3>3, RisingOfThinned, Zenon
  <2> QED
    BY <2>1 DEF DeadlinesRise
<1>10. ChainsHold'
  BY <1>1, <1>3, <1>6 DEF ChainsHold, Line
<1>11. QueueInv'
  BY <1>1, <1>6, <1>7, <1>8, <1>9, <1>10 DEF QueueInv, FramesInRange
<1>12. NoNewTelemetry(tx_queue', tx_queue)
  <2>1. \A k \in 1 .. Len(tx_queue') :
          /\ f[k] \in 1 .. Len(tx_queue) /\ tx_queue'[k] = tx_queue[f[k]]
          /\ f[k] \notin Gone(tx_queue, tx_queue', f)
    <3>1. Thinned(tx_queue, tx_queue', f) /\ tx_queue \in Seq(Frame) /\ tx_queue' \in Seq(Frame)
      BY <1>2, <1>4, <1>5
    <3> QED
      BY <3>1, ThinnedFrames, Zenon
  <2> QED
    BY <2>1 DEF NoNewTelemetry
<1>13. /\ used' \in 0 .. CAPACITY /\ count' \in 0 .. RX_BUDGET + TX_BUDGET
       /\ used' = Len(tx_queue') + held
       /\ Len(mailbox') <= MAILBOXES
  <2>1. Len(tx_queue') \in Nat
    BY <1>4, LenProperties
  <2>2. count \in Nat /\ count + 1 \in 0 .. RX_BUDGET + TX_BUDGET
    BY <1>1, <1>2
  <2>3. used - 1 = Len(tx_queue) - 1 + held
    BY <1>2
  <2>4. used - 1 \in 0 .. CAPACITY
    BY <1>2, <1>4, <2>1, <2>3
  <2>5. Len(mailbox) + 1 <= MAILBOXES
    BY <1>1, <1>2
  <2> QED
    BY <1>1, <1>3, <1>4, <2>2, <2>3, <2>4, <2>5
<1>14. TypeOK'
  BY <1>1, <1>3, <1>4, <1>13 DEF IInv, TypeOK
<1>15. BlocksInv' /\ CleanupIsSet' /\ TelemetryIsWhole'
  BY <1>1, <1>2, <1>13
     DEF IInv, BlocksInv, BlocksAreAccounted, CleanupIsSet, TelemetryIsWhole, held
<1>16. ExpiresFirst'
  BY <1>1, <1>12, ExpiresOfSame DEF IInv
<1> QED
  BY <1>11, <1>14, <1>15, <1>16 DEF IInv

\* The oldest mailbox is sent; what a receiver then has of a measurement goes on
\* from what it had, or starts anew after a cut.
LEMMA SendKeeps ==
  ASSUME IInv, Send
  PROVE  IInv'
<1> DEFINE frame == Head(mailbox)
           s == frame.stream
           n == Frames[s]
           h == frame.index % n
           a == Len(mailbox)
<1>1. /\ mailbox # <<>>
      /\ IF s \in Broadcasts
           THEN /\ got' = [got EXCEPT ![s] = h]
                /\ torn' = IF \/ frame.index = got[s] + 1
                              \/ frame.index = 1 /\ s \in cut
                           THEN torn ELSE torn \cup {s}
           ELSE UNCHANGED <<got, torn>>
      /\ mailbox' = Tail(mailbox)
      /\ UNCHANGED <<pc, off, count, node, recovery, txOverflow, inbox, bof, cut, lost>>
  BY DEF Send
<1>2. UNCHANGED <<tx_queue, used, rx_states, cleanup, next_status, tx_overflow_pending>>
  BY <1>1 DEF node
<1>3. /\ mailbox \in Seq(Frame) /\ tx_queue \in Seq(Frame) /\ got \in [Broadcasts -> Nat]
      /\ a \in Nat /\ a > 0 /\ a <= MAILBOXES /\ torn \in SUBSET Broadcasts /\ MAILBOXES \in Nat
  BY <1>1, Constants, LenProperties, EmptySeq DEF IInv, TypeOK
<1>4. /\ mailbox' \in Seq(Frame) /\ Len(mailbox') = a - 1 /\ frame = mailbox[1]
      /\ \A k \in 1 .. a - 1 : mailbox'[k] = mailbox[k + 1]
  BY <1>1, <1>3, HeadTailProperties
<1>5. 1 \in 1 .. a /\ \A k \in 1 .. a - 1 : k + 1 \in 1 .. a
  BY <1>3
<1>6. /\ InRange(mailbox) /\ InRange(tx_queue) /\ Sorted(tx_queue) /\ InTail(tx_queue)
      /\ (\A t \in Broadcasts : got[t] < Frames[t]) /\ DeadlinesRise /\ ChainsHold
  BY DEF IInv, QueueInv, FramesInRange
<1>7. /\ s \in Streams /\ frame.index \in Nat /\ frame.index > 0 /\ frame.index <= n
      /\ n \in Nat /\ n > 0 /\ (s \in Broadcasts => got[s] \in Nat /\ got[s] < n)
  <2>1. /\ mailbox[1].stream \in Streams /\ mailbox[1].index \in Nat /\ mailbox[1].index > 0
    BY <1>3, <1>5, FrameParts
  <2>2. mailbox[1].index <= Frames[mailbox[1].stream]
    BY <1>5, <1>6 DEF InRange
  <2>3. s = mailbox[1].stream /\ frame.index = mailbox[1].index
    BY <1>4
  <2> QED
    BY <1>3, <1>6, <2>1, <2>2, <2>3, Constants
<1>8. h \in Nat /\ h < n
  <2>1. frame.index % n = IF frame.index = n THEN 0 ELSE frame.index
    BY <1>7, Wraps
  <2> QED
    BY <1>7, <2>1
<1> DEFINE line == mailbox \o tx_queue
<1>9. /\ line \in Seq(Frame) /\ line # <<>> /\ line[1] = frame
      /\ mailbox' \o tx_queue' = Tail(line)
  <2> DEFINE b == Len(tx_queue)
             rest == Tail(mailbox)
  <2>0. rest = mailbox'
    BY <1>1
  <2>1. /\ line \in Seq(Frame) /\ Len(line) = a + b /\ b \in Nat
        /\ \A k \in 1 .. a + b : line[k] = IF k <= a THEN mailbox[k] ELSE tx_queue[k - a]
    BY <1>3, Concatenation, LenProperties
  <2>2. /\ rest \o tx_queue \in Seq(Frame) /\ Len(rest \o tx_queue) = (a - 1) + b
        /\ \A k \in 1 .. (a - 1) + b :
             (rest \o tx_queue)[k] = IF k <= a - 1 THEN rest[k] ELSE tx_queue[k - (a - 1)]
    <3>1. rest \in Seq(Frame) /\ Len(rest) = a - 1
      BY <1>4, <2>0
    <3> HIDE DEF rest, a
    <3>2. tx_queue \in Seq(Frame) /\ Len(tx_queue) = b
      BY <1>3
    <3> QED
      BY <3>1, <3>2, Concatenation
  <2>3. line # <<>> /\ line[1] = frame
    <3>1. Len(line) > 0 /\ 1 \in 1 .. a + b /\ 1 <= a
      BY <1>3, <2>1
    <3> QED
      BY <1>4, <2>1, <3>1, EmptySeq
  <2> HIDE DEF line, a, b, rest
  <2>4. /\ Tail(line) \in Seq(Frame) /\ Len(Tail(line)) = (a + b) - 1
        /\ \A k \in 1 .. (a + b) - 1 : Tail(line)[k] = line[k + 1]
    BY <2>1, <2>3, HeadTailProperties
  <2>5. ASSUME NEW k \in 1 .. (a + b) - 1
        PROVE  (rest \o tx_queue)[k] = Tail(line)[k]
    <3>1. k \in 1 .. (a - 1) + b /\ k + 1 \in 1 .. a + b /\ (k + 1) - a = k - (a - 1)
      BY <1>3, <2>1
    <3>2. CASE k <= a - 1
      <4>1. k + 1 <= a /\ k \in 1 .. a - 1
        BY <1>3, <2>1, <3>2
      <4> QED
        BY <1>4, <2>0, <2>1, <2>2, <2>4, <3>1, <3>2, <4>1
    <3>3. CASE ~(k <= a - 1)
      <4>1. ~(k + 1 <= a)
        BY <1>3, <2>1, <3>3
      <4> QED
        BY <2>1, <2>2, <2>4, <3>1, <3>3, <4>1
    <3> QED
      BY <3>2, <3>3
  <2>6. (a - 1) + b = (a + b) - 1
    BY <1>3, <2>1
  <2>7. rest \o tx_queue = Tail(line)
    BY <2>2, <2>4, <2>5, <2>6, SeqEqual
  <2> QED
    BY <1>2, <2>0, <2>1, <2>3, <2>7
<1>10. \A t \in Broadcasts : got'[t] = IF t = s THEN h ELSE got[t]
  BY <1>1, <1>3
<1>11. ChainsHold'
  <2>1. ASSUME NEW t \in Telemetry
        PROVE  Chain(Tail(line), t, got'[t], t \in cut)
    <3> DEFINE g == got[t]
               i == got'[t]
               c == t \in cut
    <3>1. /\ t \in Streams /\ t \in Broadcasts /\ g \in Nat
          /\ Frames[t] \in Nat /\ Frames[t] > 0 /\ Chain(line, t, g, c)
      BY <1>3, <1>6, Constants DEF ChainsHold, Line
    <3>2. i \in Nat /\ IF line[1].stream = t THEN i = line[1].index % Frames[t] ELSE i = g
      BY <1>8, <1>9, <1>10, <3>1
    <3>3. line[1].index <= Frames[line[1].stream]
      BY <1>7, <1>9
    <3>4. line \in Seq(Frame) /\ line # <<>>
      BY <1>9
    <3>5. Chain(Tail(line), t, i, c)
      <4> HIDE DEF g, i, c, line
      <4> QED
        BY <3>1, <3>2, <3>3, <3>4, ChainOfTail, Zenon
    <3> QED
      BY <3>5
  <2> HIDE DEF line
  <2>2. mailbox' \o tx_queue' = Tail(line) /\ cut' = cut
    BY <1>1, <1>9
  <2> QED
    BY <2>1, <2>2 DEF ChainsHold, Line
<1>12. TelemetryIsWhole'
  <2>1. CASE s \notin Broadcasts
    BY <1>1, <2>1 DEF IInv, TelemetryIsWhole
  <2>2. CASE s = "status"
    <3>1. n = 1 /\ s \in Broadcasts
      BY <2>2, Constants DEF Broadcasts, Streams
    <3>2. frame.index = got[s] + 1
      BY <1>7, <3>1
    <3> QED
      BY <1>1, <3>1, <3>2 DEF IInv, TelemetryIsWhole
  <2>3. CASE s \in Telemetry
    <3> DEFINE g == got[s]
    <3>1. Chain(line, s, g, s \in cut)
      BY <1>6, <2>3 DEF ChainsHold, Line
    <3>2. /\ Len(line) \in Nat /\ Len(line) >= 1
      BY <1>9, LenProperties, EmptySeq
    <3>3. 0 \in 0 .. Len(line) /\ 1 \in 1 .. Len(line) + 1 /\ 1 # Len(line) + 1
      BY <3>2
    <3>4. Neighbours(line, s, 0, 1)
      <4>1. line[1].stream = s /\ 0 + 1 .. 1 - 1 = {}
        BY <1>9
      <4> HIDE DEF line, s
      <4> QED
        BY <4>1 DEF Neighbours
    <3>5. line[1].index = (g % n) + 1 \/ (line[1].index = 1 /\ s \in cut)
      <4> HIDE DEF line, g, s
      <4> QED
        BY <3>1, <3>3, <3>4, Zenon DEF Chain, Reached, n
    <3>6. s \in Broadcasts /\ g % n = g
      BY <1>7, <2>3, Wraps, Constants
    <3>7. \/ frame.index = got[s] + 1
          \/ frame.index = 1 /\ s \in cut
      BY <1>9, <3>5, <3>6
    <3> QED
      BY <1>1, <3>6, <3>7 DEF IInv, TelemetryIsWhole
  <2> QED
    BY <2>1, <2>2, <2>3 DEF Broadcasts, Streams, Telemetry
<1>13. FramesInRange'
  <2>1. \A k \in 1 .. a - 1 : mailbox'[k].index <= Frames[mailbox'[k].stream]
    <3>1. \A k \in 1 .. a : mailbox[k].index <= Frames[mailbox[k].stream]
      BY <1>6 DEF InRange
    <3> QED
      BY <1>4, <1>5, <3>1
  <2>2. \A t \in Broadcasts : got'[t] < Frames[t]
    BY <1>6, <1>8, <1>10
  <2> QED
    BY <1>2, <1>4, <1>6, <2>1, <2>2 DEF FramesInRange, InRange
<1>14. QueueInv'
  BY <1>2, <1>6, <1>11, <1>13 DEF QueueInv, DeadlinesRise
<1>15. TypeOK'
  <2>1. got' \in [Broadcasts -> Nat] /\ torn' \subseteq Broadcasts /\ Len(mailbox') <= MAILBOXES
    <3>1. got' \in [Broadcasts -> Nat]
      BY <1>1, <1>3, <1>8
    <3>2. torn' \subseteq Broadcasts
      BY <1>1, <1>3, <1>7
    <3>3. Len(mailbox') <= MAILBOXES
      BY <1>3, <1>4
    <3> QED
      BY <3>1, <3>2, <3>3
  <2> QED
    BY <1>1, <1>2, <1>4, <2>1 DEF IInv, TypeOK
<1>16. BlocksInv' /\ CleanupIsSet' /\ ExpiresFirst'
  BY <1>1, <1>2 DEF IInv, BlocksInv, BlocksAreAccounted, CleanupIsSet, ExpiresFirst
<1> QED
  BY <1>12, <1>14, <1>15, <1>16 DEF IInv

\* Less, for every frame of the queue.
LEMMA TickOfQueue ==
  ASSUME NEW old \in Seq(Frame), NEW new,
         new = [i \in DOMAIN old |-> [old[i] EXCEPT !.left = Less(@)]]
  PROVE  /\ new \in Seq(Frame) /\ Len(new) = Len(old)
         /\ \A k \in 1 .. Len(old) :
              /\ new[k].stream = old[k].stream /\ new[k].index = old[k].index
              /\ new[k].left = Less(old[k].left)
<1>1. /\ DOMAIN old = 1 .. Len(old) /\ Len(old) \in Nat
      /\ \A k \in 1 .. Len(old) : old[k] \in Frame
  BY FrameParts
<1>2. \A x \in Nat : Less(x) \in Nat
  BY DEF Less
<1>3. ASSUME NEW k \in 1 .. Len(old)
      PROVE  /\ new[k] \in Frame
             /\ new[k].stream = old[k].stream /\ new[k].index = old[k].index
             /\ new[k].left = Less(old[k].left)
  <2>1. old[k] \in Frame /\ new[k] = [old[k] EXCEPT !.left = Less(@)]
    BY <1>1
  <2>2. Less(old[k].left) \in Nat
    BY <1>2, <2>1 DEF Frame
  <2> QED
    BY <2>1, <2>2 DEF Frame
<1>4. DOMAIN new = 1 .. Len(old) /\ new \in [1 .. Len(old) -> Frame]
  BY <1>1, <1>3
<1>5. new \in Seq(Frame) /\ Len(new) = Len(old)
  BY <1>1, <1>4
<1> QED
  BY <1>3, <1>5

LEMMA TickKeeps ==
  ASSUME IInv, Tick
  PROVE  IInv'
<1>1. /\ pc = "sample" /\ pc' = "ticked"
      /\ tx_queue' = [i \in DOMAIN tx_queue |-> [tx_queue[i] EXCEPT !.left = Less(@)]]
      /\ rx_states' = [r \in Requesters |-> [rx_states[r] EXCEPT !.left = Less(@)]]
      /\ recovery' = [recovery EXCEPT !.left = Less(@)]
      /\ cleanup' = Less(cleanup) /\ next_status' = Less(next_status)
      /\ UNCHANGED <<off, count, used, tx_overflow_pending, txOverflow, inbox, bus, cut, lost>>
  BY DEF Tick
<1>2. UNCHANGED <<mailbox, bof, got, torn>>
  BY <1>1 DEF bus
<1>3. /\ tx_queue \in Seq(Frame) /\ mailbox \in Seq(Frame) /\ Len(tx_queue) \in Nat
      /\ cleanup \in 0 .. CLEANUP /\ next_status \in 0 .. STATUS_PERIOD
      /\ rx_states \in [Requesters -> RxState]
      /\ recovery \in [active : BOOLEAN, left : 0 .. RECOVERY]
      /\ CLEANUP \in Nat /\ STATUS_PERIOD \in Nat /\ RX_TIMEOUT \in Nat /\ RECOVERY \in Nat
      /\ CLEANUP > 0 /\ TX_DEADLINE \in Nat
  BY Constants, LenProperties DEF IInv, TypeOK, RxState
<1>4. \A b \in Nat : \A x \in 0 .. b : Less(x) \in 0 .. b
  BY DEF Less
<1>5. /\ tx_queue' \in Seq(Frame) /\ Len(tx_queue') = Len(tx_queue)
      /\ \A k \in 1 .. Len(tx_queue) :
           /\ tx_queue'[k].stream = tx_queue[k].stream /\ tx_queue'[k].index = tx_queue[k].index
           /\ tx_queue'[k].left = Less(tx_queue[k].left)
  BY <1>1, <1>3, TickOfQueue
<1>6. \A k \in 1 .. Len(tx_queue) : tx_queue[k].left \in Nat
  BY <1>3, FrameParts
<1>7. /\ recovery' \in [active : BOOLEAN, left : 0 .. RECOVERY]
      /\ recovery'.active = recovery.active /\ recovery'.left = Less(recovery.left)
      /\ cleanup' \in 0 .. CLEANUP /\ next_status' \in 0 .. STATUS_PERIOD
  BY <1>1, <1>3, <1>4
<1>8. /\ rx_states' \in [Requesters -> RxState]
      /\ RxBlocks(rx_states') = RxBlocks(rx_states)
  BY <1>1, <1>3, BlocksOfTick
<1>9. TypeOK' /\ BlocksInv' /\ TelemetryIsWhole' /\ CleanupIsSet'
  <2>1. TypeOK'
    BY <1>1, <1>2, <1>5, <1>7, <1>8 DEF IInv, TypeOK, RxState
  <2>2. BlocksInv'
    BY <1>1, <1>5, <1>8 DEF IInv, BlocksInv, BlocksAreAccounted
  <2>3. TelemetryIsWhole' /\ CleanupIsSet'
    BY <1>1, <1>2 DEF IInv, TelemetryIsWhole, CleanupIsSet
  <2> QED
    BY <2>1, <2>2, <2>3
<1>10. /\ InRange(mailbox) /\ InRange(tx_queue) /\ Sorted(tx_queue) /\ InTail(tx_queue)
       /\ (\A t \in Broadcasts : got[t] < Frames[t]) /\ DeadlinesRise /\ ChainsHold
  BY DEF IInv, QueueInv, FramesInRange
<1>11. FramesInRange'
  BY <1>2, <1>5, <1>10 DEF FramesInRange, InRange
<1>12. Sorted(tx_queue')
  BY <1>5, <1>10 DEF Sorted
<1>13. InTail(tx_queue')
  BY <1>5, <1>10 DEF InTail
<1>14. DeadlinesRise'
  <2>1. ASSUME NEW s \in Telemetry PROVE Rising(tx_queue', s)
    <3>1. /\ \A j \in 1 .. Len(tx_queue) : tx_queue[j].stream = s => tx_queue[j].left <= TX_DEADLINE
          /\ \A i, j \in 1 .. Len(tx_queue) :
               i <= j /\ tx_queue[i].stream = s /\ tx_queue[j].stream = s =>
                 tx_queue[i].left <= tx_queue[j].left
          /\ \A i, j \in 1 .. Len(tx_queue) :
               Neighbours(tx_queue, s, i, j) =>
                 tx_queue[j].index = 1 \/ tx_queue[i].left = tx_queue[j].left
      BY <1>10 DEF DeadlinesRise, Rising
    <3>2. ASSUME NEW j \in 1 .. Len(tx_queue'), tx_queue'[j].stream = s
          PROVE  tx_queue'[j].left <= TX_DEADLINE
      <4>1. /\ j \in 1 .. Len(tx_queue) /\ tx_queue[j].stream = s
            /\ tx_queue'[j].left = Less(tx_queue[j].left)
        BY <1>5, <3>2
      <4>2. tx_queue[j].left \in Nat /\ tx_queue[j].left <= TX_DEADLINE /\ TX_DEADLINE \in Nat
        BY <1>3, <1>6, <3>1, <4>1
      <4> QED
        BY <4>1, <4>2 DEF Less
    <3>3. \A i, j \in 1 .. Len(tx_queue') :
            i <= j /\ tx_queue'[i].stream = s /\ tx_queue'[j].stream = s =>
              tx_queue'[i].left <= tx_queue'[j].left
      BY <1>5, <1>6, <3>1 DEF Less
    <3>4. ASSUME NEW i \in 1 .. Len(tx_queue'), NEW j \in 1 .. Len(tx_queue'),
                 Neighbours(tx_queue', s, i, j)
          PROVE  tx_queue'[j].index = 1 \/ tx_queue'[i].left = tx_queue'[j].left
      <4>1. /\ i \in 1 .. Len(tx_queue) /\ j \in 1 .. Len(tx_queue)
            /\ i # 0 /\ j # Len(tx_queue') + 1 /\ j # Len(tx_queue) + 1
            /\ \A k \in i + 1 .. j - 1 : k \in 1 .. Len(tx_queue)
        BY <1>3, <1>5
      <4>2. /\ i < j /\ tx_queue'[i].stream = s /\ tx_queue'[j].stream = s
            /\ \A k \in i + 1 .. j - 1 : tx_queue'[k].stream # s
        BY <3>4, <4>1, Zenon DEF Neighbours
      <4>3. /\ tx_queue[i].stream = s /\ tx_queue[j].stream = s
            /\ \A k \in i + 1 .. j - 1 : tx_queue[k].stream # s
        BY <1>5, <4>1, <4>2
      <4>4. Neighbours(tx_queue, s, i, j)
        BY <4>2, <4>3, Zenon DEF Neighbours
      <4>5. tx_queue[j].index = 1 \/ tx_queue[i].left = tx_queue[j].left
        BY <3>1, <4>1, <4>4, Zenon
      <4> QED
        BY <1>5, <4>1, <4>5
    <3> QED
      BY <3>2, <3>3, <3>4, Zenon DEF Rising
  <2> QED
    BY <2>1 DEF DeadlinesRise
<1>15. ChainsHold'
  <2> DEFINE a == Len(mailbox)
             n == Len(tx_queue)
             line == mailbox \o tx_queue
             new == mailbox \o tx_queue'
  <2>1. /\ a \in Nat /\ n \in Nat /\ line \in Seq(Frame) /\ Len(line) = a + n
        /\ \A k \in 1 .. a : line[k] = mailbox[k]
        /\ \A k \in a + 1 .. a + n : line[k] = tx_queue[k - a] /\ k - a \in 1 .. n
    BY <1>3, Behinds
  <2>2. /\ new \in Seq(Frame) /\ Len(new) = a + n
        /\ \A k \in 1 .. a : new[k] = mailbox[k]
        /\ \A k \in a + 1 .. a + n : new[k] = tx_queue'[k - a]
    <3>1. /\ new \in Seq(Frame) /\ Len(new) = a + Len(tx_queue')
          /\ \A k \in 1 .. a : new[k] = mailbox[k]
          /\ \A k \in a + 1 .. a + Len(tx_queue') : new[k] = tx_queue'[k - a]
      BY <1>3, <1>5, Behinds
    <3> HIDE DEF new
    <3> QED
      BY <1>5, <3>1
  <2> HIDE DEF a, n, line, new
  <2>3. ASSUME NEW k \in 1 .. Len(line)
        PROVE  new[k].stream = line[k].stream /\ new[k].index = line[k].index
    <3>1. k \in 1 .. a \/ k \in a + 1 .. a + n
      BY <2>1
    <3>2. CASE k \in 1 .. a
      BY <2>1, <2>2, <3>2
    <3>3. CASE k \in a + 1 .. a + n
      <4>1. line[k] = tx_queue[k - a] /\ k - a \in 1 .. n /\ new[k] = tx_queue'[k - a]
        BY <2>1, <2>2, <3>3
      <4> QED
        BY <1>5, <4>1 DEF n
    <3> QED
      BY <3>1, <3>2, <3>3
  <2>4. ASSUME NEW t \in Telemetry
        PROVE  Chain(new, t, got[t], t \in cut)
    <3> DEFINE g == got[t]
               c == t \in cut
    <3>1. t \in Streams /\ Chain(line, t, g, c)
      BY <1>10, Constants DEF ChainsHold, Line, line
    <3>2. Len(new) = Len(line)
      BY <2>1, <2>2
    <3> HIDE DEF g, c
    <3>3. Chain(new, t, g, c)
      BY <2>1, <2>2, <2>3, <3>1, <3>2, ChainOfSame, Zenon
    <3> QED
      BY <3>3 DEF g, c
  <2>5. mailbox' = mailbox /\ got' = got /\ cut' = cut
    BY <1>1, <1>2
  <2> QED
    BY <2>4, <2>5 DEF ChainsHold, Line, new
<1>16. QueueInv'
  BY <1>11, <1>12, <1>13, <1>14, <1>15 DEF QueueInv
<1>17. ExpiresFirst'
  <2> SUFFICES ASSUME recovery'.active, NEW k \in 1 .. Len(tx_queue'),
                      tx_queue'[k].stream \in Telemetry
               PROVE  IF tx_queue'[k].left > 0 THEN tx_queue'[k].left + CLEANUP <= recovery'.left
                                               ELSE cleanup' < recovery'.left
    BY <1>1 DEF ExpiresFirst
  <2>1. k \in 1 .. Len(tx_queue) /\ tx_queue[k].stream \in Telemetry /\ recovery.active
    BY <1>5, <1>7
  <2>2. IF tx_queue[k].left > 0 THEN tx_queue[k].left + CLEANUP <= recovery.left
                                ELSE cleanup < recovery.left
    BY <1>1, <2>1 DEF IInv, ExpiresFirst
  <2>3. cleanup > 0
    <3>1. tx_queue # <<>>
      BY <1>3, <2>1, EmptySeq
    <3> QED
      BY <1>1, <3>1 DEF IInv, CleanupIsSet
  <2>4. recovery.left \in Nat /\ cleanup \in Nat /\ cleanup <= CLEANUP
    BY <1>3
  <2>5. tx_queue[k].left \in Nat /\ tx_queue'[k].left = Less(tx_queue[k].left)
    BY <1>5, <1>6, <2>1
  <2>6. recovery'.left = Less(recovery.left) /\ cleanup' = Less(cleanup)
    BY <1>1, <1>7
  <2>7. \A l, c, r, b \in Nat :
          0 < c /\ c <= b /\ (IF l > 0 THEN l + b <= r ELSE c < r) =>
            IF Less(l) > 0 THEN Less(l) + b <= Less(r) ELSE Less(c) < Less(r)
    BY DEF Less
  <2>8. IF Less(tx_queue[k].left) > 0 THEN Less(tx_queue[k].left) + CLEANUP <= Less(recovery.left)
                                      ELSE Less(cleanup) < Less(recovery.left)
    <3>1. CLEANUP \in Nat
      BY <1>3
    <3> QED
      BY <2>2, <2>3, <2>4, <2>5, <2>7, <3>1
  <2> QED
    BY <2>5, <2>6, <2>8
<1> QED
  BY <1>9, <1>16, <1>17 DEF IInv

-----------------------------------------------------------------------------
(* The invariant holds. *)

LEMMA InitIInv == Init => IInv
<1> SUFFICES ASSUME Init PROVE IInv
  OBVIOUS
<1>1. /\ pc = "sample" /\ off = FALSE /\ count = 0
      /\ tx_queue = <<>> /\ used = 0
      /\ rx_states = [requester \in Requesters |-> NoState]
      /\ cleanup = 0 /\ next_status = 0
      /\ recovery = [active |-> FALSE, left |-> 0]
      /\ tx_overflow_pending = FALSE /\ txOverflow = FALSE
      /\ inbox = 0 /\ mailbox = <<>> /\ bof = FALSE
      /\ got = [stream \in Broadcasts |-> 0] /\ torn = {}
      /\ cut = {} /\ lost = FALSE
  BY DEF Init
<1>2. <<>> \in Seq(Frame) /\ Len(<<>>) = 0
  OBVIOUS
<1>3. TypeOK
  <2>1. /\ count \in 0 .. RX_BUDGET + TX_BUDGET /\ used \in 0 .. CAPACITY
        /\ cleanup \in 0 .. CLEANUP /\ next_status \in 0 .. STATUS_PERIOD
        /\ inbox \in 0 .. RX_RING /\ Len(mailbox) <= MAILBOXES
    BY <1>1, <1>2, Constants
  <2>2. rx_states \in [Requesters -> RxState]
    <3>1. NoState \in RxState
      BY Constants DEF NoState, RxState
    <3> QED
      BY <1>1, <3>1
  <2>3. recovery \in [active : BOOLEAN, left : 0 .. RECOVERY]
    <3>1. 0 \in 0 .. RECOVERY
      BY Constants
    <3> QED
      BY <1>1, <3>1
  <2>4. got \in [Broadcasts -> Nat]
    BY <1>1
  <2>5. /\ off \in BOOLEAN /\ tx_overflow_pending \in BOOLEAN /\ txOverflow \in BOOLEAN
        /\ bof \in BOOLEAN /\ lost \in BOOLEAN
    BY <1>1
  <2>6. tx_queue \in Seq(Frame) /\ mailbox \in Seq(Frame) /\ torn \subseteq Broadcasts /\ cut \subseteq Broadcasts
    BY <1>1, <1>2
  <2> QED
    BY <1>1, <2>1, <2>2, <2>3, <2>4, <2>5, <2>6, Zenon DEF TypeOK, RxState
<1>4. FramesInRange
  BY <1>1, <1>2, Constants DEF FramesInRange, InRange
<1>5. Sorted(tx_queue) /\ DeadlinesRise /\ InTail(tx_queue)
  BY <1>1, <1>2 DEF Sorted, DeadlinesRise, Rising, InTail
<1>6. ChainsHold
  <2>1. ASSUME NEW t \in Telemetry
        PROVE  Chain(Line, t, got[t], t \in cut)
    <3>1. Line \in Seq(Frame) /\ Len(Line) = 0
      <4>1. Line \in Seq(Frame) /\ Len(Line) = 0 + 0
        BY <1>1, <1>2, Concatenation DEF Line
      <4> QED
        BY <4>1
    <3>2. got[t] = 0 /\ 0 % Frames[t] = 0
      <4>1. t \in Broadcasts /\ Frames[t] \in Nat /\ Frames[t] > 0
        BY Constants
      <4> QED
        BY <1>1, <4>1
    <3> DEFINE c == t \in cut
    <3> HIDE DEF c
    <3>3. Chain(Line, t, got[t], c)
      <4> SUFFICES ASSUME NEW i \in 0 .. Len(Line), NEW j \in 1 .. Len(Line) + 1
                   PROVE  j = Len(Line) + 1 /\ Reached(Line, got[t], i) % Frames[t] = 0
        BY DEF Chain
      <4>1. i = 0 /\ j = Len(Line) + 1
        BY <3>1
      <4> QED
        BY <3>2, <4>1 DEF Reached
    <3> QED
      BY <3>3 DEF c
  <2> QED
    BY <2>1 DEF ChainsHold
<1>7. TelemetryIsWhole /\ ExpiresFirst /\ CleanupIsSet
  BY <1>1, <1>2 DEF TelemetryIsWhole, ExpiresFirst, CleanupIsSet
<1>8. BlocksInv
  <2>1. RxBlocks(rx_states) = {}
    BY <1>1 DEF RxBlocks, NoState
  <2>2. IsFiniteSet({}) /\ Cardinality({}) = 0
    BY FS_EmptySet
  <2>3. used = 0 /\ Len(tx_queue) = 0
    BY <1>1, <1>2
  <2> QED
    BY <2>1, <2>2, <2>3 DEF BlocksInv, BlocksAreAccounted
<1> QED
  BY <1>3, <1>4, <1>5, <1>6, <1>7, <1>8 DEF IInv, QueueInv

LEMMA StutterKeeps ==
  ASSUME IInv, UNCHANGED vars
  PROVE  IInv'
<1>1. /\ UNCHANGED <<pc, off, count, recovery, txOverflow, inbox, cut, lost>>
      /\ UNCHANGED <<tx_queue, used, rx_states, cleanup, next_status, tx_overflow_pending>>
      /\ UNCHANGED <<mailbox, bof, got, torn>>
  BY DEF vars, node, bus
<1>2. QueueInv'
  BY <1>1, Untouched DEF IInv
<1>3. TypeOK'
  BY <1>1 DEF IInv, TypeOK
<1> QED
  BY <1>1, <1>2, <1>3
     DEF IInv, BlocksInv, BlocksAreAccounted, TelemetryIsWhole, ExpiresFirst, CleanupIsSet

LEMMA Inductive ==
  ASSUME IInv, [Next]_vars
  PROVE  IInv'
<1>1. "flow" \in Telemetry /\ "range" \in Telemetry
  BY DEF Telemetry
<1>2. CASE SampleBusOff
  BY <1>2, SampleBusOffKeeps
<1>3. CASE Publish("flow", "flow", "range")
  BY <1>1, <1>3, PublishKeeps
<1>4. CASE Publish("range", "range", "recover")
  BY <1>1, <1>4, PublishKeeps
<1>5. CASE Recover
  BY <1>5, RecoverKeeps
<1>6. CASE Cleanup
  BY <1>6, CleanupKeeps
<1>7. CASE Receive
  BY <1>7, ReceiveKeeps
<1>8. CASE ReceiveDone
  BY <1>8, ReceiveDoneKeeps
<1>9. CASE Status
  BY <1>9, StatusKeeps
<1>10. CASE Transmit
  BY <1>10, TransmitKeeps
<1>11. CASE TransmitDone
  BY <1>11, TransmitDoneKeeps
<1>12. CASE Report
  BY <1>12, ReportKeeps
<1>13. CASE Send
  BY <1>13, SendKeeps
<1>14. CASE BusOff \/ BusOn
  BY <1>14, BusOffKeeps
<1>15. CASE Request
  BY <1>15, RequestKeeps
<1>16. CASE Tick
  BY <1>16, TickKeeps
<1>17. CASE Answer
  BY <1>17, AnswerKeeps
<1>18. CASE UNCHANGED vars
  BY <1>18, StutterKeeps
<1> QED
  BY <1>2, <1>3, <1>4, <1>5, <1>6, <1>7, <1>8, <1>9, <1>10, <1>11, <1>12, <1>13, <1>14, <1>15,
     <1>16, <1>17, <1>18 DEF Next, Main

\* Every reachable state of the node, the controller and the receivers satisfies
\* the inductive invariant (main.c:41-67, dronecan.c:56-70, canard.c:403-656).
THEOREM Invariant == Spec => []IInv
<1>1. IInv /\ [Next]_vars => IInv'
  BY Inductive
<1> QED
  BY InitIInv, <1>1, PTL DEF Spec

-----------------------------------------------------------------------------
(* What follows from it. *)

\* The variables of the node keep to their ranges: no more blocks than the pool has,
\* no more frames than there are mailboxes, no timer beyond its period.
THEOREM TypeCorrect == Spec => []TypeOK
<1>1. IInv => TypeOK
  BY DEF IInv
<1> QED
  BY Invariant, <1>1, PTL

\* canard.c:1893-1938: every block in use is a frame in the queue, a receive state or
\* payload of a request that is not complete yet, whatever was refused, cut short,
\* restarted, expired or thrown away: none leaks, for any number of requesters.
THEOREM Blocks == Spec => []BlocksAreAccounted
<1>1. IInv => BlocksAreAccounted
  BY DEF IInv, BlocksInv
<1> QED
  BY Invariant, <1>1, PTL

\* README.md:107: a receiver never sees part of a measurement or a status, unless
\* the rest expired or was thrown away in bus-off.
THEOREM Whole == Spec => []TelemetryIsWhole
<1>1. IInv => TelemetryIsWhole
  BY DEF IInv
<1> QED
  BY Invariant, <1>1, PTL

\* What a frame follows, given its neighbour before it.
LEMMA FollowsNeighbour ==
  ASSUME IInv, NEW j \in 1 .. Len(Line), Line[j].stream \in Broadcasts,
         NEW i \in 0 .. j - 1, Neighbours(Line, Line[j].stream, i, j)
  PROVE  Follows(Line[j], Reached(Line, got[Line[j].stream], i))
<1> DEFINE s == Line[j].stream
           g == got[s]
<1>1. /\ mailbox \in Seq(Frame) /\ tx_queue \in Seq(Frame) /\ got \in [Broadcasts -> Nat]
  BY DEF IInv, TypeOK
<1>2. Line \in Seq(Frame) /\ Len(Line) \in Nat
  BY <1>1, Behinds, LenProperties DEF Line
<1>3. /\ s \in Streams /\ Line[j].index \in Nat /\ Line[j].index > 0
  BY <1>2, FrameParts
<1>4. i \in 0 .. Len(Line) /\ j \in 1 .. Len(Line) + 1 /\ j # Len(Line) + 1 /\ i \in Nat
  BY <1>2
<1>5. CASE s \in Telemetry
  <2>1. Chain(Line, s, g, s \in cut)
    BY <1>5 DEF IInv, QueueInv, ChainsHold
  <2>2. \/ Line[j].index = (Reached(Line, g, i) % Frames[s]) + 1
        \/ Line[j].index = 1 /\ s \in cut
    <3> HIDE DEF g
    <3> QED
      BY <1>4, <2>1, Zenon DEF Chain
  <2> QED
    BY <2>2 DEF Follows
<1>6. CASE s = "status"
  <2>1. Frames[s] = 1
    BY <1>6, Constants
  <2>2. Line[j].index = 1
    <3>1. Line[j].index <= Frames[s]
      <4> DEFINE a == Len(mailbox)
                 n == Len(tx_queue)
      <4>1. /\ a \in Nat /\ n \in Nat /\ Len(Line) = a + n
            /\ \A k \in 1 .. a : Line[k] = mailbox[k]
            /\ \A k \in a + 1 .. a + n : Line[k] = tx_queue[k - a] /\ k - a \in 1 .. n
        BY <1>1, Behinds DEF Line
      <4>2. j \in 1 .. a \/ j \in a + 1 .. a + n
        BY <4>1
      <4>3. InRange(mailbox) /\ InRange(tx_queue)
        BY DEF IInv, QueueInv, FramesInRange
      <4> QED
        BY <4>1, <4>2, <4>3 DEF InRange
    <3> QED
      BY <1>3, <2>1, <3>1
  <2>3. Reached(Line, g, i) \in Nat
    <3>1. i # 0 => i \in 1 .. Len(Line)
      BY <1>4
    <3>2. i # 0 => Line[i].index \in Nat
      BY <1>2, <3>1, FrameParts
    <3>3. g \in Nat
      BY <1>1, <1>3
    <3> QED
      BY <3>2, <3>3 DEF Reached
  <2>4. Reached(Line, g, i) % 1 = 0
    BY <2>3
  <2> QED
    BY <2>1, <2>2, <2>4 DEF Follows
<1> QED
  BY <1>5, <1>6 DEF Broadcasts, Streams, Telemetry

\* canard.c:1267-1311, dronecan.c:70: the queue is in the order of the identifiers,
\* and from a receiver back through the mailboxes to the queue, each frame of a
\* measurement follows its predecessor, except after one cut off.
THEOREM Ordered == Spec => []QueueIsOrdered
<1>1. IInv => QueueIsOrdered
  <2> SUFFICES ASSUME IInv PROVE QueueIsOrdered
    OBVIOUS
  <2>1. mailbox \in Seq(Frame) /\ tx_queue \in Seq(Frame) /\ Len(tx_queue) \in Nat
    BY LenProperties DEF IInv, TypeOK
  <2>2. \A i \in 1 .. Len(tx_queue) - 1 :
          CanId[tx_queue[i].stream] <= CanId[tx_queue[i + 1].stream]
    <3>1. \A i \in 1 .. Len(tx_queue) - 1 :
            i \in 1 .. Len(tx_queue) /\ i + 1 \in 1 .. Len(tx_queue) /\ i <= i + 1
      BY <2>1
    <3> QED
      BY <3>1 DEF IInv, QueueInv, Sorted
  <2>3. Line \in Seq(Frame) /\ Len(Line) \in Nat /\ DOMAIN Line = 1 .. Len(Line)
    BY <2>1, Behinds, LenProperties DEF Line
  <2>4. ASSUME NEW j \in DOMAIN Line, Line[j].stream \in Broadcasts
        PROVE  LET earlier == {i \in 1 .. j - 1 : Line[i].stream = Line[j].stream}
               IN  IF earlier = {}
                     THEN Follows(Line[j], got[Line[j].stream])
                     ELSE \E i \in earlier : /\ \A k \in earlier : k <= i
                                            /\ Follows(Line[j], Line[i].index)
    <3> DEFINE s == Line[j].stream
               earlier == {i \in 1 .. j - 1 : Line[i].stream = s}
    <3>1. j \in 1 .. Len(Line) /\ j \in 1 .. Len(Line) + 1 /\ j \in Nat /\ s \in Streams
      BY <2>3, FrameParts
    <3>2. PICK i \in 0 .. j - 1 : Neighbours(Line, s, i, j)
      <4>1. j # Len(Line) + 1 => Line[j].stream = s
        OBVIOUS
      <4> HIDE DEF s
      <4> QED
        BY <2>3, <3>1, <4>1, NeighbourBefore
    <3>3. Follows(Line[j], Reached(Line, got[s], i))
      BY <2>4, <3>1, <3>2, FollowsNeighbour
    <3>4. /\ i # 0 => Line[i].stream = s
          /\ \A k \in i + 1 .. j - 1 : Line[k].stream # s
      BY <3>2, Zenon DEF Neighbours
    <3>5. i \in Nat
      BY <3>1
    <3>6. CASE i = 0
      <4>1. earlier = {}
        BY <3>1, <3>4, <3>6
      <4>2. Follows(Line[j], got[s])
        BY <3>3, <3>6 DEF Reached
      <4> QED
        BY <4>1, <4>2
    <3>7. CASE i # 0
      <4>1. i \in earlier
        BY <3>1, <3>4, <3>5, <3>7
      <4>2. \A k \in earlier : k <= i
        BY <3>1, <3>4, <3>5
      <4>3. Follows(Line[j], Line[i].index)
        BY <3>3, <3>7 DEF Reached
      <4> QED
        BY <4>1, <4>2, <4>3
    <3> QED
      BY <3>6, <3>7
  <2> QED
    BY <2>2, <2>4 DEF QueueIsOrdered
<1> QED
  BY Invariant, <1>1, PTL

\* dronecan.c:56: telemetry never eats into the reserve by more than the one
\* transfer that found it whole.
THEOREM Reserve == Spec => []ReserveIsKept
<1>1. IInv => ReserveIsKept
  <2> SUFFICES ASSUME IInv PROVE ReserveIsKept
    OBVIOUS
  <2> DEFINE n == Len(tx_queue)
             T == {i \in DOMAIN tx_queue : tx_queue[i].stream \in Telemetry}
             bound == CAPACITY - RESERVE + Frames[Longest]
  <2>1. /\ n \in Nat /\ DOMAIN tx_queue = 1 .. n
    BY FrameParts DEF IInv, TypeOK
  <2>2. bound \in Nat /\ bound > 0 /\ Longest \in Telemetry
    BY Constants
  <2>3. \A i \in T : i \in 1 .. n /\ n - i + 1 < bound
    BY <2>1 DEF IInv, QueueInv, InTail
  <2>4. T \in SUBSET Nat
    BY <2>1
  <2>5. \A x, y \in Int : IsFiniteSet(x .. y) /\ Cardinality(x .. y) = IF x > y THEN 0 ELSE y - x + 1
    BY FS_Interval
  <2> HIDE DEF T, bound, n
  <2>6. Cardinality(T) < bound
    <3>1. CASE T = {}
      BY <2>2, <3>1, FS_EmptySet
    <3>2. CASE T # {}
      <4>1. PICK i \in T : \A m \in T : i <= m
        BY <2>4, <3>2, LeastElement
      <4>2. i \in 1 .. n /\ n - i + 1 < bound
        BY <2>3, <4>1
      <4>3. T \subseteq i .. n
        BY <2>1, <2>3, <4>1
      <4>4. IsFiniteSet(i .. n) /\ Cardinality(i .. n) = n - i + 1
        BY <2>1, <2>5, <4>2
      <4>5. Cardinality(T) \in Nat /\ Cardinality(T) <= Cardinality(i .. n)
        BY <4>3, <4>4, FS_Subset, FS_CardinalityType
      <4> QED
        BY <2>1, <2>2, <4>2, <4>4, <4>5
    <3> QED
      BY <3>1, <3>2
  <2> QED
    BY <2>2, <2>6 DEF ReserveIsKept, T, bound
<1> QED
  BY Invariant, <1>1, PTL

\* README.md:107: a transfer that was refused or cut short, of telemetry or of an
\* answer, has set a flag, and the report at the end of the iteration keeps it.
THEOREM Backpressure == Spec => []BackpressureIsReported
<1>1. Init => BackpressureIsReported
  BY DEF Init, BackpressureIsReported
<1>2. BackpressureIsReported /\ [Next]_vars => BackpressureIsReported'
  <2> SUFFICES ASSUME BackpressureIsReported, [Next]_vars
               PROVE  lost' => tx_overflow_pending' \/ txOverflow'
    BY DEF BackpressureIsReported
  <2>1. lost => tx_overflow_pending \/ txOverflow
    BY DEF BackpressureIsReported
  <2>2. ASSUME NEW s, Broadcast(s)
        PROVE  (lost' => lost \/ tx_overflow_pending')
                 /\ (tx_overflow_pending => tx_overflow_pending')
    BY <2>2 DEF Broadcast
  <2>3. ASSUME NEW s, NEW at, NEW next, Publish(s, at, next)
        PROVE  lost' => tx_overflow_pending' \/ txOverflow'
    <3>1. CASE Broadcast(s) /\ txOverflow' = (txOverflow \/ ~Admitted(s) \/ EnqueueFails(s))
      BY <2>1, <2>2, <3>1
    <3>2. CASE UNCHANGED <<tx_queue, used, tx_overflow_pending, txOverflow, lost>>
      BY <2>1, <3>2
    <3> QED
      BY <2>3, <3>1, <3>2 DEF Publish
  <2>4. CASE Status
    <3>1. txOverflow' = txOverflow
      BY <2>4 DEF Status
    <3>2. CASE Broadcast("status")
      BY <2>1, <2>2, <3>1, <3>2
    <3>3. CASE UNCHANGED <<lost, tx_overflow_pending>>
      BY <2>1, <3>1, <3>3
    <3> QED
      BY <2>4, <3>2, <3>3 DEF Status
  <2>5. CASE Answer
    BY <2>1, <2>5 DEF Answer
  <2>6. CASE Report
    BY <2>1, <2>6 DEF Report
  <2>7. CASE \/ SampleBusOff \/ Recover \/ Cleanup \/ Receive \/ ReceiveDone \/ Transmit
             \/ TransmitDone \/ Send \/ BusOff \/ BusOn \/ Request \/ Tick \/ UNCHANGED vars
    <3>1. UNCHANGED <<lost, tx_overflow_pending, txOverflow>>
      BY <2>7 DEF SampleBusOff, Recover, Cleanup, Receive, ReceiveDone, Transmit, TransmitDone, Send,
                  BusOff, BusOn, Request, Tick, vars, node
    <3> QED
      BY <2>1, <3>1
  <2> QED
    BY <2>3, <2>4, <2>5, <2>6, <2>7 DEF Next, Main
<1> QED
  BY <1>1, <1>2, PTL DEF Spec
=============================================================================
