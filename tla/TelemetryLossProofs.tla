----------------------- MODULE TelemetryLossProofs -----------------------
(***************************************************************************)
(* The dropped counter is exact: proof of LossCounted, a statement about   *)
(* the number of frames that are nowhere any more.                         *)
(***************************************************************************)
EXTENDS TelemetryPipelineProofs, FiniteSetTheorems

-----------------------------------------------------------------------------
(* Loss.  The frames up to Oldest have left the batcher; those that are in *)
(* none of the batches further on are the lost ones.                       *)
Oldest == IF pending = <<>> THEN Newest ELSE pending[1].first - 1
Past == InSome(queue) \cup InSome(inflight) \cup Settled
Gone == (1 .. Oldest) \ Past

LossInv ==
  /\ pending # <<>> => pending[1].first >= 1
  /\ UpTo(rejected, Oldest) /\ UpTo(abandoned, Oldest)
  /\ dropped = Cardinality(Gone)

\* The frames of a sequence of batches under Append and Tail.
LEMMA InSomeSteps ==
  ASSUME NEW s \in Seq(Batch), NEW b \in Batch
  PROVE  /\ InSome(Append(s, b)) = InSome(s) \cup Frames(b)
         /\ InSome(<<b>>) = Frames(b) /\ InSome(<<>>) = {}
         /\ s # <<>> => InSome(s) = Frames(Head(s)) \cup InSome(Tail(s))
<1>1. InSome(Append(s, b)) = InSome(s) \cup Frames(b)
  <2>1. /\ Len(s) \in Nat /\ Len(Append(s, b)) = Len(s) + 1
        /\ \A i \in 1 .. Len(s) : Append(s, b)[i] = s[i]
        /\ Append(s, b)[Len(s) + 1] = b
    OBVIOUS
  <2>2. \A i \in 1 .. Len(s) + 1 : i \in 1 .. Len(s) \/ i = Len(s) + 1
    BY <2>1
  <2>3. 1 .. Len(s) \subseteq 1 .. Len(s) + 1 /\ Len(s) + 1 \in 1 .. Len(s) + 1
    BY <2>1
  <2>4. ASSUME NEW x \in InSome(Append(s, b)) PROVE x \in InSome(s) \cup Frames(b)
    <3>1. PICK i \in 1 .. Len(s) + 1 : x \in Frames(Append(s, b)[i])
      BY <2>1, <2>4, Zenon DEF InSome
    <3> QED BY <2>1, <2>2, <3>1, Zenon DEF InSome
  <2>5. ASSUME NEW x \in InSome(s) PROVE x \in InSome(Append(s, b))
    <3>1. PICK i \in 1 .. Len(s) : x \in Frames(s[i])
      BY <2>5, Zenon DEF InSome
    <3>2. i \in 1 .. Len(Append(s, b)) /\ x \in Frames(Append(s, b)[i])
      BY <2>1, <2>3, <3>1, Zenon
    <3> QED BY <3>2, Zenon DEF InSome
  <2>6. ASSUME NEW x \in Frames(b) PROVE x \in InSome(Append(s, b))
    <3>1. Len(s) + 1 \in 1 .. Len(Append(s, b)) /\ x \in Frames(Append(s, b)[Len(s) + 1])
      BY <2>1, <2>3, <2>6, Zenon
    <3> QED BY <3>1, Zenon DEF InSome
  <2> QED BY <2>4, <2>5, <2>6, Zenon
<1>2. InSome(<<b>>) = Frames(b)
  <2>1. 1 .. Len(<<b>>) = {1} /\ <<b>>[1] = b
    OBVIOUS
  <2> QED BY <2>1, Zenon DEF InSome
<1>3. InSome(<<>>) = {}
  <2>1. 1 .. Len(<<>>) = {}
    OBVIOUS
  <2> QED BY <2>1, Zenon DEF InSome
<1>4. ASSUME s # <<>> PROVE InSome(s) = Frames(Head(s)) \cup InSome(Tail(s))
  <2>1. /\ Len(s) \in Nat \ {0} /\ Len(Tail(s)) = Len(s) - 1 /\ Head(s) = s[1]
        /\ \A i \in 1 .. Len(Tail(s)) : Tail(s)[i] = s[i + 1] /\ i + 1 \in 1 .. Len(s)
    BY <1>4, TailElements, Zenon
  <2>2. \A i \in 1 .. Len(s) : i = 1 \/ (i - 1 \in 1 .. Len(Tail(s)) /\ Tail(s)[i - 1] = s[i])
    BY <2>1
  <2>3. 1 \in 1 .. Len(s)
    BY <2>1
  <2>4. ASSUME NEW x \in InSome(s) PROVE x \in Frames(Head(s)) \cup InSome(Tail(s))
    <3>1. PICK i \in 1 .. Len(s) : x \in Frames(s[i])
      BY <2>4, Zenon DEF InSome
    <3>2. CASE i = 1
      BY <2>1, <3>1, <3>2, Zenon
    <3>3. CASE i # 1
      <4>1. i - 1 \in 1 .. Len(Tail(s)) /\ x \in Frames(Tail(s)[i - 1])
        BY <2>2, <3>1, <3>3, Zenon
      <4> QED BY <4>1, Zenon DEF InSome
    <3> QED BY <3>2, <3>3, Zenon
  <2>5. ASSUME NEW x \in Frames(Head(s)) PROVE x \in InSome(s)
    BY <2>1, <2>3, <2>5, Zenon DEF InSome
  <2>6. ASSUME NEW x \in InSome(Tail(s)) PROVE x \in InSome(s)
    <3>1. PICK i \in 1 .. Len(Tail(s)) : x \in Frames(Tail(s)[i])
      BY <2>6, Zenon DEF InSome
    <3>2. i + 1 \in 1 .. Len(s) /\ x \in Frames(s[i + 1])
      BY <2>1, <3>1, Zenon
    <3> QED BY <3>2, Zenon DEF InSome
  <2> QED BY <2>4, <2>5, <2>6, Zenon
<1> QED BY <1>1, <1>2, <1>3, <1>4, Zenon

\* ... are no newer than its newest.
LEMMA InSomeUpTo ==
  ASSUME NEW s \in Seq(Batch), NEW n \in Int, UpTo(s, n), NEW x \in InSome(s)
  PROVE  x \in Int /\ x <= n
<1>1. PICK i \in 1 .. Len(s) : x \in Frames(s[i])
  BY Zenon DEF InSome
<1>2. s[i] \in Batch /\ s[i].last <= n
  BY <1>1 DEF UpTo
<1> QED BY <1>1, <1>2 DEF Frames, Batch

\* What becomes of the missing numbers when the newest advances from a to b.
LEMMA Advance ==
  ASSUME NEW P, NEW a \in Nat, NEW b \in Nat, a <= b, \A x \in P : x \in Int /\ x <= a
  PROVE  /\ (1 .. b) \ (P \cup ((a + 1) .. b)) = (1 .. a) \ P
         /\ Cardinality((1 .. b) \ P) = Cardinality((1 .. a) \ P) + (b - a)
<1> DEFINE S == (1 .. a) \ P
           T == (a + 1) .. b
<1>1. (1 .. b) \ (P \cup T) = S
  OBVIOUS
<1>2. (1 .. b) \ P = S \cup T /\ S \cap T = {}
  OBVIOUS
<1>3. IsFiniteSet(S)
  <2>1. IsFiniteSet(1 .. a)
    BY FS_Interval
  <2> QED BY <2>1, FS_Subset, Zenon
<1>4. IsFiniteSet(T) /\ Cardinality(T) = b - a
  <2>1. IsFiniteSet(T) /\ Cardinality(T) = IF a + 1 > b THEN 0 ELSE b - (a + 1) + 1
    <3>1. a + 1 \in Int /\ b \in Int
      OBVIOUS
    <3> QED BY <3>1, FS_Interval, Zenon
  <2> QED BY <2>1
<1>5. Cardinality(S \cup T) = Cardinality(S) + Cardinality(T)
  <2>1. Cardinality(S \cap T) = 0 /\ Cardinality(S) \in Nat
    BY <1>2, <1>3, FS_EmptySet, FS_CardinalityType, Zenon
  <2>2. Cardinality(S \cup T) = Cardinality(S) + Cardinality(T) - Cardinality(S \cap T)
    <3> HIDE DEF S, T
    <3> QED BY <1>3, <1>4, FS_Union, Zenon
  <2> QED BY <1>4, <2>1, <2>2
<1> QED BY <1>1, <1>2, <1>4, <1>5, Zenon

\* Where the frames are: those in batches are no newer than Oldest, then comes
\* the open batch up to Newest, and then the frame in hand.
LEMMA WhereFrames ==
  ASSUME IInv, LossInv
  PROVE  /\ Newest \in Nat /\ Oldest \in Nat /\ Oldest <= Newest
         /\ UpTo(stored, Oldest) /\ UpTo(inflight, Oldest) /\ UpTo(queue, Oldest)
         /\ \A x \in Past : x \in Int /\ x <= Oldest
         /\ pending # <<>> => /\ Len(pending) = 1 /\ pending[1] \in Batch
                              /\ pending[1].first = Oldest + 1 /\ pending[1].last = Newest
<1>1. /\ TypeOK /\ stored \in Seq(Batch) /\ inflight \in Seq(Batch) /\ queue \in Seq(Batch)
      /\ rejected \in Seq(Batch) /\ abandoned \in Seq(Batch) /\ hand \in Nat
      /\ Len(born) \in Nat
  BY DEF IInv, TypeOK
<1>2. Newest \in Nat
  BY <1>1 DEF Newest
<1>3. pending # <<>> => /\ Len(pending) = 1 /\ pending[1] \in Batch
                        /\ pending[1].first >= 1 /\ pending[1].first <= pending[1].last
                        /\ pending[1].last = Newest
  BY <1>1, PendingType, Zenon DEF IInv, StoredInOrder, PendingEndsAtNewest, LossInv
<1>4. Oldest \in Nat /\ Oldest <= Newest
      /\ (pending # <<>> => pending[1].first = Oldest + 1)
  BY <1>2, <1>3 DEF Oldest, Batch
<1>5. ASSUME NEW s \in Seq(Batch), UpTo(s, Newest), Before(s, pending)
      PROVE  UpTo(s, Oldest)
  <2>1. CASE pending = <<>>
    BY <1>5, <2>1, Zenon DEF Oldest
  <2>2. CASE pending # <<>>
    <3>1. \A i \in 1 .. Len(s) : s[i].last < pending[1].first /\ s[i] \in Batch
      BY <1>3, <1>5, <2>2 DEF Before
    <3>2. \A i \in 1 .. Len(s) : s[i].last <= Oldest
      BY <1>3, <1>4, <2>2, <3>1 DEF Batch
    <3> QED BY <3>2, Zenon DEF UpTo
  <2> QED BY <2>1, <2>2, Zenon
<1>6. UpTo(stored, Oldest) /\ UpTo(inflight, Oldest) /\ UpTo(queue, Oldest)
  BY <1>1, <1>5, Zenon DEF IInv, StoredInOrder, PastFrames
<1>7. Oldest \in Int /\ UpTo(rejected, Oldest) /\ UpTo(abandoned, Oldest)
  BY <1>4 DEF LossInv
<1>8. ASSUME NEW x \in Past PROVE x \in Int /\ x <= Oldest
  <2>1. \/ x \in InSome(queue) \/ x \in InSome(inflight) \/ x \in InSome(stored)
        \/ x \in InSome(rejected) \/ x \in InSome(abandoned)
    BY <1>8, Zenon DEF Past, Settled
  <2> QED BY <1>1, <1>6, <1>7, <2>1, InSomeUpTo, Zenon
<1> QED BY <1>2, <1>3, <1>4, <1>6, <1>8, Zenon

\* So what is nowhere is what is missing up to Oldest.
LEMMA LossIsGone == ASSUME IInv, LossInv PROVE LossCounted
<1>1. /\ Newest \in Nat /\ Oldest \in Nat /\ Oldest <= Newest
      /\ \A x \in Past : x \in Int /\ x <= Oldest
  BY WhereFrames, Zenon
<1>2. hand \in Nat /\ Len(born) \in Nat /\ (hand = 0 => Newest = Len(born))
      /\ (hand # 0 => hand = Len(born) /\ Newest = hand - 1)
  BY DEF IInv, TypeOK, HandIsNewest, Newest
<1>3. InSome(pending) = (Oldest + 1) .. Newest
  <2>1. CASE pending = <<>>
    <3>1. Oldest = Newest /\ 1 .. Len(<<>>) = {}
      BY <2>1 DEF Oldest
    <3>2. InSome(pending) = {} /\ (Oldest + 1) .. Newest = {}
      BY <1>1, <2>1, <3>1 DEF InSome
    <3> QED BY <3>2, Zenon
  <2>2. CASE pending # <<>>
    <3>1. Len(pending) = 1 /\ pending[1].first = Oldest + 1 /\ pending[1].last = Newest
      BY <2>2, WhereFrames, Zenon
    <3>2. 1 .. Len(pending) = {1}
      BY <3>1
    <3> QED BY <3>1, <3>2, Zenon DEF InSome, Frames
  <2> QED BY <2>1, <2>2, Zenon
<1>4. OnTheWay \cup Settled = {hand} \cup ((Oldest + 1) .. Newest) \cup Past
  BY <1>3, Zenon DEF OnTheWay, Past
<1>5. (1 .. Len(born)) \ (OnTheWay \cup Settled) = Gone
  <2>1. PICK P : P = Past
    BY Zenon
  <2>2. (1 .. Len(born)) \ ({hand} \cup ((Oldest + 1) .. Newest) \cup P) = (1 .. Oldest) \ P
    <3>1. CASE hand = 0
      BY <1>1, <1>2, <2>1, <3>1
    <3>2. CASE hand # 0
      BY <1>1, <1>2, <2>1, <3>2
    <3> QED BY <3>1, <3>2, Zenon
  <2> QED BY <1>4, <2>1, <2>2, Zenon DEF Gone
<1> QED BY <1>5, Zenon DEF LossCounted, LossInv

\* A step that moves batches on, and no frame out of the batcher.
LEMMA LossKept ==
  ASSUME LossInv, Oldest' = Oldest, Past' = Past, dropped' = dropped,
         pending' # <<>> => pending'[1].first >= 1,
         UpTo(rejected', Oldest), UpTo(abandoned', Oldest)
  PROVE  LossInv'
<1>1. Gone' = Gone
  BY Zenon DEF Gone
<1> QED BY <1>1, Zenon DEF LossInv, UpTo

\* The frames up to n leave the batcher: queued and counted as flushed, or lost
\* and counted as dropped.
LEMMA LossMoved ==
  ASSUME IInv, LossInv, NEW n \in Nat, Oldest <= n, Oldest' = n, pending' = <<>>,
         UNCHANGED <<rejected, abandoned>>,
         \/ Past' = Past \cup ((Oldest + 1) .. n) /\ dropped' = dropped
         \/ Past' = Past /\ dropped' = dropped + (n - Oldest)
  PROVE  LossInv'
<1>1. Oldest \in Nat /\ \A x \in Past : x \in Int /\ x <= Oldest
  BY WhereFrames, Zenon
<1>2. UpTo(rejected', n) /\ UpTo(abandoned', n)
  <2>1. /\ rejected \in Seq(Batch) /\ abandoned \in Seq(Batch)
        /\ UpTo(rejected, Oldest) /\ UpTo(abandoned, Oldest)
    BY Zenon DEF IInv, TypeOK, LossInv
  <2>2. ASSUME NEW s \in Seq(Batch), UpTo(s, Oldest) PROVE UpTo(s, n)
    <3>1. \A i \in 1 .. Len(s) : s[i] \in Batch /\ s[i].last <= Oldest
      BY <2>2 DEF UpTo
    <3> QED BY <1>1, <3>1 DEF UpTo, Batch
  <2> QED BY <2>1, <2>2, Zenon
<1>3. PICK a \in Nat : a = Oldest
  BY <1>1, Zenon
<1>0. PICK P : P = Past
  BY Zenon
<1>4. /\ (1 .. n) \ (P \cup ((a + 1) .. n)) = (1 .. a) \ P
      /\ Cardinality((1 .. n) \ P) = Cardinality((1 .. a) \ P) + (n - a)
  <2>1. a <= n /\ \A x \in P : x \in Int /\ x <= a
    BY <1>1, <1>3, <1>0, Zenon
  <2> QED BY <2>1, Advance
<1>5. dropped' = Cardinality((1 .. n) \ Past')
  <2>0. dropped = Cardinality((1 .. a) \ P)
    BY <1>3, <1>0, Zenon DEF LossInv, Gone
  <2>1. CASE Past' = Past \cup ((Oldest + 1) .. n) /\ dropped' = dropped
    BY <1>3, <1>0, <1>4, <2>0, <2>1, Zenon
  <2>2. CASE Past' = Past /\ dropped' = dropped + (n - Oldest)
    BY <1>3, <1>0, <1>4, <2>0, <2>2, Zenon
  <2> QED BY <2>1, <2>2, Zenon
<1>6. dropped' = Cardinality(Gone')
  BY <1>5, Zenon DEF Gone
<1> QED BY <1>2, <1>6, Zenon DEF LossInv, UpTo

\* The batcher puts the batch with the frames after Oldest on the queue, or
\* drops it.
LEMMA LossEnqueued ==
  ASSUME IInv, LossInv, NEW b \in Batch, b.first = Oldest + 1, Oldest <= b.last, Oldest' = b.last,
         pending' = <<>>, Queued(b) \/ Lost(b), UNCHANGED <<inflight, stored, rejected, abandoned>>
  PROVE  LossInv'
<1>1. b.last \in Nat /\ Frames(b) = (Oldest + 1) .. b.last /\ Size(b) = b.last - Oldest
      /\ queue \in Seq(Batch) /\ Oldest \in Nat
  <2>1. Oldest \in Nat /\ queue \in Seq(Batch)
    BY WhereFrames, Zenon DEF IInv, TypeOK
  <2> QED BY <2>1 DEF Batch, Frames, Size
<1>2. CASE Queued(b)
  <2>1. InSome(queue') = InSome(queue) \cup ((Oldest + 1) .. b.last)
    <3>1. queue' = Append(queue, b)
      BY <1>2, Zenon DEF Queued
    <3>2. InSome(Append(queue, b)) = InSome(queue) \cup Frames(b)
      BY <1>1, InSomeSteps, Zenon
    <3> QED BY <1>1, <3>1, <3>2, Zenon
  <2>2. InSome(inflight)' = InSome(inflight) /\ Settled' = Settled
    BY DEF InSome, Settled
  <2>3. Past' = Past \cup ((Oldest + 1) .. b.last)
    <3>1. InSome(queue)' = InSome(queue')
      BY Zenon DEF InSome
    <3> QED BY <2>1, <2>2, <3>1, Zenon DEF Past
  <2> QED BY <1>1, <1>2, <2>3, LossMoved, Zenon DEF Queued
<1>3. CASE Lost(b)
  <2>1. Past' = Past
    BY <1>3 DEF Lost, Past, InSome, Settled
  <2> QED BY <1>1, <1>3, <2>1, LossMoved, Zenon DEF Lost
<1> QED BY <1>2, <1>3, Zenon

\* A flush.
LEMMA LossFlushed ==
  ASSUME IInv, LossInv, FlushLocked,
         UNCHANGED <<born, hand, inflight, stored, rejected, abandoned>>
  PROVE  LossInv'
<1>1. Newest' = Newest /\ pending' = <<>>
  BY FlushCases, Zenon DEF Newest
<1>2. Oldest' = Newest
  BY <1>1, Zenon DEF Oldest
<1>3. CASE pending = <<>> /\ Nothing
  <2>1. Oldest' = Oldest /\ Past' = Past /\ dropped' = dropped
    BY <1>2, <1>3 DEF Oldest, Past, InSome, Settled, Nothing
  <2> QED BY <1>1, <2>1, LossKept, Zenon DEF LossInv
<1>4. CASE pending # <<>> /\ (Queued(pending[1]) \/ Lost(pending[1]))
  <2>1. /\ pending[1] \in Batch /\ pending[1].first = Oldest + 1 /\ pending[1].last = Newest
        /\ Oldest <= Newest
    BY <1>4, WhereFrames, Zenon
  <2> QED BY <1>1, <1>2, <1>4, <2>1, LossEnqueued, Zenon
<1> QED BY <1>3, <1>4, FlushCases, Zenon

\* A frame is added.
LEMMA LossAdded == ASSUME IInv, LossInv, Add PROVE LossInv'
<1>1. /\ hand \in Nat /\ hand # 0 /\ hand = Len(born) /\ Newest = hand - 1 /\ hand' = 0
      /\ UNCHANGED <<born, closed, inflight, stored, rejected, abandoned>>
  BY Zenon DEF Add, senderVars, storeVars, IInv, TypeOK, HandIsNewest, Newest
<1>2. Newest' = hand
  BY <1>1, Zenon DEF Newest
<1>3. Oldest \in Nat /\ Oldest <= hand - 1 /\ Oldest <= hand
      /\ (pending = <<>> => Oldest = hand - 1)
  <2>1. Oldest \in Nat /\ Oldest <= Newest
    BY WhereFrames, Zenon
  <2> QED BY <1>1, <2>1 DEF Oldest
<1>4. Grown \in Batch /\ Grown.last = hand /\ Grown.first = Oldest + 1
  <2>1. Grown \in Batch /\ Grown.last = hand
    BY <1>1, GrownType, Zenon
  <2>2. CASE pending = <<>>
    <3>1. Grown.first = hand
      BY <2>2, Zenon DEF Grown
    <3> QED BY <1>1, <1>3, <2>1, <2>2, <3>1
  <2>3. CASE pending # <<>>
    <3>1. pending[1] \in Batch /\ pending[1].first = Oldest + 1
      BY <2>3, WhereFrames, Zenon
    <3>2. Grown = [pending[1] EXCEPT !.last = hand]
      BY <2>3, Zenon DEF Grown
    <3>3. Grown.first = pending[1].first
      BY <3>1, <3>2, Zenon DEF Batch
    <3> QED BY <2>1, <3>1, <3>3, Zenon
  <2> QED BY <2>1, <2>2, <2>3, Zenon
<1>5. CASE closed /\ dropped' = dropped + 1 /\ UNCHANGED <<pending, timer, queue, flushed, flushedBatches>>
  <2>1. pending = <<>> /\ pending' = <<>>
    BY <1>5, Zenon DEF IInv, ClosedIsEmpty
  <2>2. Oldest' = hand /\ Past' = Past /\ dropped' = dropped + (hand - Oldest)
    <3>1. Oldest' = hand /\ Past' = Past
      BY <1>1, <1>2, <1>5, <2>1 DEF Oldest, Past, InSome, Settled
    <3>2. hand - Oldest = 1
      BY <1>1, <1>3, <2>1
    <3> QED BY <1>5, <3>1, <3>2, Zenon
  <2> QED BY <1>1, <1>3, <2>1, <2>2, LossMoved, Zenon
<1>6. CASE Enqueue(Grown) /\ pending' = <<>>
  <2>1. Oldest' = Grown.last /\ Oldest <= Grown.last
    BY <1>2, <1>3, <1>4, <1>6, Zenon DEF Oldest
  <2> QED BY <1>1, <1>4, <1>6, <2>1, EnqueueCases, LossEnqueued, Zenon
<1>7. CASE pending' = <<Grown>> /\ UNCHANGED <<queue, flushed, flushedBatches, dropped>>
  <2>1. pending' # <<>> /\ pending'[1] = Grown
    BY <1>7, Zenon
  <2>2. Oldest' = Oldest /\ pending'[1].first >= 1
    <3>1. Oldest' = pending'[1].first - 1
      BY <2>1, Zenon DEF Oldest
    <3> QED BY <1>3, <1>4, <2>1, <3>1
  <2>3. Past' = Past /\ dropped' = dropped
    BY <1>1, <1>7 DEF Past, InSome, Settled
  <2> QED BY <1>1, <2>2, <2>3, LossKept, Zenon DEF LossInv
<1> QED BY <1>5, <1>6, <1>7, Zenon DEF Add

\* The Sender takes a batch, writes it, or is done with it.
LEMMA LossSent ==
  ASSUME IInv, LossInv, SenderReceive \/ SendCommitted \/ SendRejected \/ SendFailed \/ AbandonSend
  PROVE  LossInv'
<1>1. /\ queue \in Seq(Batch) /\ inflight \in Seq(Batch) /\ AtMostOne(inflight)
      /\ stored \in Seq(Batch) /\ rejected \in Seq(Batch) /\ abandoned \in Seq(Batch)
      /\ (inflight # <<>>) <=> (sender \in {"send", "backoff"})
      /\ UpTo(rejected, Oldest) /\ UpTo(abandoned, Oldest)
      /\ (pending # <<>> => pending[1].first >= 1)
  BY Zenon DEF IInv, TypeOK, LossInv
<1>2. UNCHANGED <<born, hand, pending, dropped>>
  BY Zenon DEF SenderReceive, SendCommitted, SendRejected, SendFailed, AbandonSend, batcherVars
<1>3. Oldest' = Oldest
  BY <1>2, Zenon DEF Oldest, Newest
<1>4. CASE SenderReceive
  <2>1. /\ queue # <<>> /\ inflight = <<>> /\ queue' = Tail(queue) /\ inflight' = <<Head(queue)>>
        /\ UNCHANGED <<stored, rejected, abandoned>> /\ Head(queue) \in Batch
    BY <1>1, <1>4, TailElements, Zenon DEF SenderReceive
  <2>2. InSome(queue) = Frames(Head(queue)) \cup InSome(queue')
        /\ InSome(inflight') = Frames(Head(queue)) /\ InSome(inflight) = {}
    BY <1>1, <2>1, InSomeSteps, Zenon
  <2>3. InSome(queue)' = InSome(queue') /\ InSome(inflight)' = InSome(inflight') /\ Settled' = Settled
    BY <2>1 DEF InSome, Settled
  <2>4. Past' = Past
    BY <2>2, <2>3, Zenon DEF Past
  <2> QED BY <1>1, <1>2, <1>3, <2>1, <2>4, LossKept, Zenon
<1>5. CASE SendCommitted \/ SendRejected \/ SendFailed \/ AbandonSend
  <2>1. PICK b : b = inflight[1]
    BY Zenon
  <2>2. b \in Batch /\ inflight = <<b>> /\ b.last <= Oldest
    <3>1. Len(inflight) = 1 /\ b \in Batch
      BY <1>1, <1>5, <2>1, AtMostOneCases, Zenon DEF SendCommitted, SendRejected, SendFailed, AbandonSend
    <3>2. UpTo(inflight, Oldest)
      BY WhereFrames, Zenon
    <3> QED BY <1>1, <2>1, <3>1, <3>2 DEF UpTo
  <2>3. /\ InSome(inflight) = Frames(b) /\ InSome(<<>>) = {}
        /\ InSome(Append(stored, b)) = InSome(stored) \cup Frames(b)
        /\ InSome(Append(rejected, b)) = InSome(rejected) \cup Frames(b)
        /\ InSome(Append(abandoned, b)) = InSome(abandoned) \cup Frames(b)
    BY <1>1, <2>2, InSomeSteps, Zenon
  <2>4. UpTo(Append(rejected, b), Oldest) /\ UpTo(Append(abandoned, b), Oldest)
    BY <1>1, <2>2, UpToSteps, WhereFrames, Zenon
  <2>5. known => Frames(b) \subseteq InSome(stored)
    BY <2>1, Zenon DEF IInv, KnownIsStored, InSome
  <2>6. queue' = queue /\ (stored' = stored \/ stored' = Append(stored, b))
        /\ (rejected' = rejected \/ rejected' = Append(rejected, b))
        /\ (abandoned' = abandoned \/ abandoned' = Append(abandoned, b))
    BY <1>5, <2>1, Zenon DEF SendCommitted, SendRejected, SendFailed, AbandonSend, AppendOnce,
       batcherVars, storeVars
  <2>7. \/ inflight' = inflight
        \/ inflight' = <<>> /\ stored' = stored /\ Frames(b) \subseteq InSome(stored)
        \/ inflight' = <<>> /\ \/ stored' = Append(stored, b)
                               \/ rejected' = Append(rejected, b)
                               \/ abandoned' = Append(abandoned, b)
    BY <1>5, <2>1, <2>5, Zenon DEF SendCommitted, SendRejected, SendFailed, AbandonSend, AppendOnce
  <2>8. /\ InSome(queue)' = InSome(queue) /\ InSome(inflight)' = InSome(inflight')
        /\ Settled' = InSome(stored') \cup InSome(rejected') \cup InSome(abandoned')
    BY <2>6, Zenon DEF InSome, Settled
  <2>9. InSome(inflight') \cup Settled' = Frames(b) \cup Settled
    <3>1. Settled \subseteq Settled' /\ Settled' \subseteq Frames(b) \cup Settled
      BY <2>3, <2>6, <2>8, Zenon DEF Settled
    <3>2. InSome(inflight') \subseteq Frames(b)
      BY <2>3, <2>7, Zenon
    <3>3. Frames(b) \subseteq InSome(inflight') \cup Settled'
      BY <2>3, <2>7, <2>8, Zenon
    <3> QED BY <3>1, <3>2, <3>3, Zenon
  <2>10. Past' = Past
    BY <2>3, <2>8, <2>9, Zenon DEF Past
  <2>11. UpTo(rejected', Oldest) /\ UpTo(abandoned', Oldest)
    BY <1>1, <2>4, <2>6, Zenon
  <2> QED BY <1>1, <1>2, <1>3, <2>10, <2>11, LossKept, Zenon
<1> QED BY <1>4, <1>5, Zenon

\* A step that leaves the batches alone.
LEMMA LossSame ==
  ASSUME LossInv, Newest' = Newest,
         UNCHANGED <<pending, queue, inflight, stored, rejected, abandoned, dropped>>
  PROVE  LossInv'
<1>1. Oldest' = Oldest /\ Past' = Past
  BY DEF Oldest, Past, InSome, Settled
<1> QED BY <1>1, LossKept, Zenon DEF LossInv

\* Every step keeps the count.
LEMMA LossStep == ASSUME IInv, LossInv, [Next]_vars PROVE LossInv'
<1>same. ASSUME UNCHANGED <<born, hand, pending, queue, inflight, stored, rejected, abandoned, dropped>>
         PROVE  LossInv'
  BY <1>same, LossSame, Zenon DEF Newest
<1> USE DEF batcherVars, senderVars, storeVars
<1>1. CASE ProcessEvent
  <2>1. Newest' = Newest
    BY <1>1 DEF ProcessEvent, Newest, IInv, TypeOK
  <2> QED BY <1>1, <2>1, LossSame, Zenon DEF ProcessEvent
<1>2. CASE Add
  BY <1>2, LossAdded, Zenon
<1>3. CASE IntervalFlush \/ Reconfigure \/ \E i \in Identities : SwitchFlush(i)
  BY <1>3, LossFlushed, Zenon DEF IntervalFlush, Reconfigure, SwitchFlush
<1>4. CASE BatcherDone \/ BeginShutdown
  BY <1>4, <1>same, LossFlushed, Zenon DEF BatcherDone, BeginShutdown, CloseAndFlush
<1>5. CASE SenderReceive \/ SendCommitted \/ SendRejected \/ SendFailed \/ AbandonSend
  BY <1>5, LossSent, Zenon
<1>6. CASE TimerFires \/ SetRuntimeIdentity \/ SenderDrained \/ SenderCancelled \/ RetrySend
  BY <1>6, <1>same, Zenon DEF TimerFires, SetRuntimeIdentity, SenderDrained, SenderCancelled, RetrySend
<1>7. CASE Terminate \/ EndShutdown \/ LoopFails
  BY <1>7, <1>same, Zenon DEF Terminate, EndShutdown, LoopFails
<1>8. CASE UNCHANGED vars
  BY <1>8, <1>same, Zenon DEF vars
<1> QED BY <1>1, <1>2, <1>3, <1>4, <1>5, <1>6, <1>7, <1>8, Zenon DEF Next, SenderNext

\* LossCounted, for every instance: the dropped counter of Batcher is exactly
\* the number of frames that are nowhere any more, so a full queue and a closed
\* batcher are the only ways a frame is lost before the Sender settles it.
THEOREM LossCountedHolds == Spec => []LossCounted
<1>1. Init => LossInv
  <2> SUFFICES ASSUME Init PROVE LossInv
    BY Zenon
  <2>1. pending = <<>> /\ rejected = <<>> /\ abandoned = <<>> /\ dropped = 0 /\ Oldest = 0
    BY Zenon DEF Init, Oldest, Newest
  <2>2. Gone = {}
    BY <2>1 DEF Gone
  <2>3. Cardinality(Gone) = 0
    BY <2>2, FS_EmptySet, Zenon
  <2> QED BY <2>1, <2>3, EmptyOrder, Zenon DEF LossInv, UpTo
<1>2. IInv /\ LossInv /\ [Next]_vars => LossInv'
  BY LossStep, Zenon
<1>3. IInv /\ LossInv => LossCounted
  BY LossIsGone, Zenon
<1> QED BY <1>1, <1>2, <1>3, Invariance, PTL DEF Spec
==========================================================================
