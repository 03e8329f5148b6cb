----------------------- MODULE TelemetryPipelineProofs -----------------------
(***************************************************************************)
(* Proofs about TelemetryPipeline, for every set of identities, every      *)
(* choice of batch sizes and every queue capacity.                         *)
(***************************************************************************)
EXTENDS TelemetryPipeline, TLAPS

(* What the accounting and the order rest on: frame numbers are handed out *)
(* in order, and the open batch ends at the newest frame that was added.   *)
Newest == IF hand = 0 THEN Len(born) ELSE hand - 1
UpTo(s, n) == \A i \in 1 .. Len(s) : s[i].last <= n

HandIsNewest == hand # 0 => hand = Len(born)
ClosedIsEmpty == closed => pending = <<>>
PendingEndsAtNewest == pending # <<>> => pending[1].last = Newest
PastFrames ==
  UpTo(stored, Newest) /\ UpTo(inflight, Newest) /\ UpTo(queue, Newest) /\ UpTo(pending, Newest)

\* AppendBatch knows the position only of a batch it has written.
KnownIsStored ==
  known => inflight # <<>> /\ \E i \in 1 .. Len(stored) : stored[i] = inflight[1]

\* The inductive invariant.
IInv ==
  /\ TypeOK
  /\ OpenBatchTimed
  /\ KnownIsStored
  /\ HandIsNewest
  /\ ClosedIsEmpty
  /\ PendingEndsAtNewest
  /\ PastFrames
  /\ StoredInOrder
  /\ BatcherAccounting
  /\ SenderAccounting

-----------------------------------------------------------------------------
(* Sequences of at most one element, and order under Append and Tail.      *)

\* A sequence of length at most one is empty or has exactly its first element.
LEMMA AtMostOneCases ==
  ASSUME NEW S, NEW s \in Seq(S), AtMostOne(s), s # <<>>
  PROVE  Len(s) = 1 /\ s[1] \in S
BY DEF AtMostOne

\* The sequences the steps of the pipeline build.
LEMMA SmallSequences ==
  ASSUME NEW S
  PROVE  /\ <<>> \in Seq(S) /\ AtMostOne(<<>>)
         /\ \A e \in S : <<e>> \in Seq(S) /\ AtMostOne(<<e>>) /\ <<e>> # <<>>
         /\ \A s \in Seq(S), e \in S : Append(s, e) \in Seq(S)
         /\ \A s \in Seq(S) : Len(s) \in Nat /\ (s # <<>> => Tail(s) \in Seq(S) /\ Head(s) \in S)
BY DEF AtMostOne

\* The elements of a tail are those of the sequence, one place further.
LEMMA TailElements ==
  ASSUME NEW s \in Seq(Batch), s # <<>>
  PROVE  /\ Tail(s) \in Seq(Batch) /\ Len(Tail(s)) = Len(s) - 1 /\ Len(s) \in Nat \ {0}
         /\ \A i \in 1 .. Len(Tail(s)) : Tail(s)[i] = s[i + 1] /\ i + 1 \in 1 .. Len(s)
         /\ Head(s) = s[1] /\ Head(s) \in Batch
OBVIOUS

\* Removing the oldest batch keeps a sequence ordered.
LEMMA OrderedTail ==
  ASSUME NEW s \in Seq(Batch), s # <<>>, Ordered(s)
  PROVE  Ordered(Tail(s)) /\ Ordered(<<Head(s)>>) /\ Before(<<Head(s)>>, Tail(s))
<1>1. Ordered(Tail(s))
  BY TailElements DEF Ordered
<1>2. 1 \in 1 .. Len(s) /\ Head(s).first <= Head(s).last
  BY TailElements DEF Ordered
<1>3. \A j \in 1 .. Len(Tail(s)) : Head(s).last < Tail(s)[j].first
  BY <1>2, TailElements DEF Ordered
<1>4. Ordered(<<Head(s)>>)
  BY <1>2 DEF Ordered
<1>5. Before(<<Head(s)>>, Tail(s))
  BY <1>3 DEF Before
<1> QED  BY <1>1, <1>4, <1>5, Zenon

\* Adding a newer, well-formed batch keeps a sequence ordered.
LEMMA OrderedAppend ==
  ASSUME NEW s \in Seq(Batch), NEW e \in Batch, Ordered(s), e.first <= e.last, Before(s, <<e>>)
  PROVE  Ordered(Append(s, e))
BY DEF Ordered, Before, Batch

\* Before is preserved when either side gains an element that respects it.
LEMMA BeforeAppendLeft ==
  ASSUME NEW s \in Seq(Batch), NEW t \in Seq(Batch), NEW e \in Batch, Before(s, t), Before(<<e>>, t)
  PROVE  Before(Append(s, e), t)
BY DEF Before, Batch

\* The same on the right.
LEMMA BeforeAppendRight ==
  ASSUME NEW s \in Seq(Batch), NEW t \in Seq(Batch), NEW e \in Batch, Before(s, t), Before(s, <<e>>)
  PROVE  Before(s, Append(t, e))
BY DEF Before, Batch

\* Before holds of the first element of the right side alone, and of the rest.
LEMMA BeforeTail ==
  ASSUME NEW s \in Seq(Batch), NEW t \in Seq(Batch), t # <<>>, Before(s, t)
  PROVE  Before(s, Tail(t)) /\ Before(s, <<t[1]>>)
<1>1. Before(s, Tail(t))
  BY TailElements, Zenon DEF Before
<1>2. \A i \in 1 .. Len(s) : s[i].last < t[1].first
  BY TailElements DEF Before
<1>3. Before(s, <<t[1]>>)
  BY <1>2 DEF Before
<1> QED  BY <1>1, <1>3, Zenon

\* The same on the left.
LEMMA BeforeTailLeft ==
  ASSUME NEW s \in Seq(Batch), NEW t \in Seq(Batch), s # <<>>, Before(s, t)
  PROVE  Before(Tail(s), t) /\ Before(<<s[1]>>, t)
<1>1. Before(Tail(s), t)
  BY TailElements, Zenon DEF Before
<1>2. \A j \in 1 .. Len(t) : s[1].last < t[j].first
  BY TailElements DEF Before
<1>3. Before(<<s[1]>>, t)
  BY <1>2 DEF Before
<1> QED  BY <1>1, <1>3, Zenon

\* Writing the batch in flight, or writing it again, keeps the log ordered.
LEMMA RepeatsAppend ==
  ASSUME NEW s \in Seq(Batch), NEW e \in Batch, OrderedRepeats(s), e.first <= e.last, Repeats(s, <<e>>)
  PROVE  OrderedRepeats(Append(s, e)) /\ Repeats(Append(s, e), <<e>>)
BY DEF OrderedRepeats, Repeats, Batch

\* What is older than a batch may stand before it in the log.
LEMMA BeforeRepeats ==
  ASSUME NEW s, NEW t, Before(s, t)
  PROVE  Repeats(s, t)
BY Zenon DEF Before, Repeats

\* Bounds of the frame numbers under Append and Tail.
LEMMA UpToSteps ==
  ASSUME NEW s \in Seq(Batch), NEW e \in Batch, NEW n \in Nat, UpTo(s, n), e.last <= n
  PROVE  UpTo(Append(s, e), n) /\ UpTo(<<e>>, n) /\ (s # <<>> => UpTo(Tail(s), n))
BY DEF UpTo, Batch

-----------------------------------------------------------------------------
(* Type correctness.                                                       *)

\* What the batcher does with a finished batch of n frames: it is queued and
\* counted as flushed, or lost and counted as dropped.
Queued(b) == /\ queue' = Append(queue, b) /\ flushedBatches' = flushedBatches + 1
             /\ flushed' = flushed + Size(b) /\ dropped' = dropped
Lost(b) == queue' = queue /\ flushedBatches' = flushedBatches
           /\ flushed' = flushed /\ dropped' = dropped + Size(b)
Nothing == UNCHANGED <<queue, flushedBatches, flushed, dropped>>

\* Enqueue does one or the other.
LEMMA EnqueueCases ==
  ASSUME NEW b, Enqueue(b)
  PROVE  Queued(b) \/ Lost(b)
BY Zenon DEF Enqueue, Queued, Lost

\* The open batch, when there is one, is a batch of at least one frame.
LEMMA PendingType ==
  ASSUME TypeOK, Ordered(pending), pending # <<>>
  PROVE  /\ Len(pending) = 1 /\ pending[1] \in Batch /\ pending[1].first <= pending[1].last
         /\ Size(pending[1]) \in Nat /\ PendingSize = Size(pending[1])
<1>1. Len(pending) = 1 /\ pending[1] \in Batch
  BY AtMostOneCases, Zenon DEF TypeOK
<1>2. pending[1].first <= pending[1].last
  BY <1>1 DEF Ordered
<1> QED  BY <1>1, <1>2 DEF Size, Batch, PendingSize

\* A flush empties the open batch into the queue or into the dropped count.
LEMMA FlushCases ==
  ASSUME FlushLocked
  PROVE  /\ pending' = <<>> /\ timer' = FALSE
         /\ \/ pending = <<>> /\ Nothing
            \/ pending # <<>> /\ Queued(pending[1])
            \/ pending # <<>> /\ Lost(pending[1])
BY EnqueueCases, Zenon DEF FlushLocked, Nothing

\* Either way the batcher's state stays well typed.
LEMMA BatchedType ==
  ASSUME TypeOK, NEW b \in Batch, Size(b) \in Nat, Queued(b) \/ Lost(b)
  PROVE  queue' \in Seq(Batch) /\ flushed' \in Nat /\ flushedBatches' \in Nat /\ dropped' \in Nat
<1>1. CASE Queued(b)
  BY <1>1 DEF TypeOK, Queued
<1>2. CASE Lost(b)
  BY <1>2 DEF TypeOK, Lost
<1> QED  BY <1>1, <1>2, Zenon

\* The batch Add builds is well formed and one frame larger than before.
LEMMA GrownType ==
  ASSUME IInv, hand # 0
  PROVE  /\ Grown \in Batch /\ Grown.first <= Grown.last /\ Grown.last = hand
         /\ Size(Grown) = PendingSize + 1 /\ Size(Grown) \in Nat
<1>1. CASE pending = <<>>
  BY <1>1 DEF IInv, TypeOK, Grown, Size, PendingSize, Batch
<1>2. CASE pending # <<>>
  <2>1. /\ pending[1] \in Batch /\ pending[1].first <= pending[1].last
        /\ PendingSize = Size(pending[1])
    BY <1>2, PendingType, Zenon DEF IInv, StoredInOrder
  <2>2. pending[1].last = hand - 1
    BY <1>2, Zenon DEF IInv, PendingEndsAtNewest, Newest
  <2>3. Grown = [pending[1] EXCEPT !.last = hand] /\ hand \in Nat
    BY <1>2, Zenon DEF Grown, IInv, TypeOK
  <2>4. Grown.first = pending[1].first /\ Grown.last = hand /\ Grown \in Batch
    BY <2>1, <2>3, Zenon DEF Batch
  <2> QED  BY <2>1, <2>2, <2>3, <2>4 DEF Size, Batch
<1> QED  BY <1>1, <1>2, Zenon

\* Every step keeps the types.
LEMMA TypeStep ==
  ASSUME IInv, [Next]_vars
  PROVE  TypeOK'
<1>0. FlushLocked => /\ pending' = <<>> /\ timer' = FALSE /\ queue' \in Seq(Batch)
                      /\ flushed' \in Nat /\ flushedBatches' \in Nat /\ dropped' \in Nat
  <2>1. CASE pending = <<>>
    BY <2>1, FlushCases, Zenon DEF IInv, TypeOK, Nothing
  <2>2. CASE pending # <<>>
    <3>1. pending[1] \in Batch /\ Size(pending[1]) \in Nat /\ TypeOK
      BY <2>2, PendingType, Zenon DEF IInv, StoredInOrder
    <3> QED  BY <2>2, <3>1, FlushCases, BatchedType, Zenon
  <2> QED  BY <2>1, <2>2, Zenon
<1> USE DEF IInv, identityVars, batcherVars, senderVars, storeVars
<1>1. CASE ProcessEvent
  <2>1. born' \in Seq(Identities) /\ hand' \in Nat
    BY <1>1, SmallSequences DEF ProcessEvent, TypeOK
  <2> QED  BY <1>1, <2>1, Zenon DEF ProcessEvent, TypeOK
<1>2. CASE Add
  <2>1. CASE closed /\ dropped' = dropped + 1 /\ UNCHANGED <<pending, timer, queue, flushed, flushedBatches>>
    <3>1. dropped' \in Nat /\ hand' \in Nat
      BY <1>2, <2>1 DEF Add, TypeOK
    <3> QED  BY <1>2, <2>1, <3>1, Zenon DEF Add, TypeOK
  <2>2. CASE Enqueue(Grown) /\ pending' = <<>> /\ timer' = FALSE
    <3>1. Queued(Grown) \/ Lost(Grown)
      BY <2>2, EnqueueCases, Zenon
    <3>2. Grown \in Batch /\ Size(Grown) \in Nat
      BY <1>2, GrownType, Zenon DEF Add
    <3>3. queue' \in Seq(Batch) /\ flushed' \in Nat /\ flushedBatches' \in Nat /\ dropped' \in Nat
      BY <3>1, <3>2, BatchedType, Zenon
    <3>4. hand' \in Nat
      BY <1>2 DEF Add
    <3> QED  BY <1>2, <2>2, <3>3, <3>4, SmallSequences, Zenon DEF Add, TypeOK
  <2>3. CASE /\ pending' = <<Grown>> /\ timer' = (timer \/ pending = <<>>)
             /\ UNCHANGED <<queue, flushed, flushedBatches, dropped>>
    <3>1. timer' \in BOOLEAN
      BY <2>3, Zenon DEF TypeOK
    <3>2. Grown \in Batch
      BY <1>2, GrownType, Zenon DEF Add
    <3>3. hand' \in Nat
      BY <1>2 DEF Add
    <3> QED  BY <1>2, <2>3, <3>1, <3>2, <3>3, SmallSequences, Zenon DEF Add, TypeOK
  <2> QED  BY <1>2, <2>1, <2>2, <2>3, Zenon DEF Add
<1>3. CASE IntervalFlush
  BY <1>0, <1>3, SmallSequences, Zenon DEF IntervalFlush, TypeOK
<1>4. CASE Reconfigure
  BY <1>0, <1>4, SmallSequences, Zenon DEF Reconfigure, TypeOK
<1>5. CASE BatcherDone
  <2>1. CASE UNCHANGED batcherVars
    BY <1>5, <2>1, Zenon DEF BatcherDone, TypeOK
  <2>2. CASE FlushLocked /\ closed' = TRUE /\ UNCHANGED batchSize
    BY <1>0, <1>5, <2>2, SmallSequences, Zenon DEF BatcherDone, TypeOK
  <2> QED  BY <1>5, <2>1, <2>2, Zenon DEF BatcherDone, CloseAndFlush
<1>6. CASE \E i \in Identities : SwitchFlush(i)
  <2>1. PICK i \in Identities : SwitchFlush(i)
    BY <1>6, Zenon
  <2>2. switches' \in Nat
    BY <2>1 DEF SwitchFlush, TypeOK
  <2> QED  BY <1>0, <2>1, <2>2, SmallSequences, Zenon DEF SwitchFlush, TypeOK
<1>7. CASE SetRuntimeIdentity
  <2>1. switchTo[1] \in Identities
    BY <1>7, AtMostOneCases, Zenon DEF SetRuntimeIdentity, TypeOK
  <2>2. <<>> \in Seq(Identities) /\ AtMostOne(<<>>)
    BY SmallSequences, Zenon
  <2> QED  BY <1>7, <2>1, <2>2, ZenonT(30) DEF SetRuntimeIdentity, TypeOK
<1>8. CASE SenderReceive
  BY <1>8, SmallSequences, Zenon DEF SenderReceive, TypeOK
<1>9. CASE SenderDrained
  BY <1>9, Zenon DEF SenderDrained, TypeOK
<1>10. CASE SenderCancelled
  BY <1>10, Zenon DEF SenderCancelled, TypeOK
<1>once. ASSUME inflight # <<>>, AppendOnce PROVE stored' \in Seq(Batch)
  BY <1>once, AtMostOneCases, SmallSequences, Zenon DEF AppendOnce, TypeOK
<1>11. CASE SendCommitted
  <2>1. stored' \in Seq(Batch)
    BY <1>11, <1>once, Zenon DEF SendCommitted, TypeOK
  <2>2. sent' \in Nat
    BY <1>11 DEF SendCommitted, TypeOK
  <2> QED  BY <1>11, <2>1, <2>2, SmallSequences, Zenon DEF SendCommitted, TypeOK
<1>12. CASE SendRejected
  BY <1>12, AtMostOneCases, SmallSequences, Zenon DEF SendRejected, TypeOK
<1>13. CASE SendFailed
  <2>1. stored' \in Seq(Batch) /\ known' \in BOOLEAN
    BY <1>13, <1>once, Zenon DEF SendFailed, TypeOK
  <2> QED  BY <1>13, <2>1, Zenon DEF SendFailed, TypeOK
<1>14. CASE RetrySend
  BY <1>14, Zenon DEF RetrySend, TypeOK
<1>15. CASE AbandonSend
  BY <1>15, AtMostOneCases, SmallSequences, Zenon DEF AbandonSend, TypeOK
<1>16. CASE Terminate
  BY <1>16, Zenon DEF Terminate, TypeOK
<1>17. CASE BeginShutdown
  <2>1. CASE UNCHANGED batcherVars
    BY <1>17, <2>1, Zenon DEF BeginShutdown, TypeOK
  <2>2. CASE FlushLocked /\ closed' = TRUE /\ UNCHANGED batchSize
    BY <1>0, <1>17, <2>2, SmallSequences, Zenon DEF BeginShutdown, TypeOK
  <2> QED  BY <1>17, <2>1, <2>2, Zenon DEF BeginShutdown, CloseAndFlush
<1>18. CASE EndShutdown \/ LoopFails
  BY <1>18, ZenonT(30) DEF EndShutdown, LoopFails, TypeOK
<1>19. CASE UNCHANGED vars
  BY <1>19, ZenonT(30) DEF vars, TypeOK
<1>20. CASE TimerFires
  BY <1>20, Zenon DEF TimerFires, TypeOK
<1> QED
  BY <1>1, <1>2, <1>3, <1>4, <1>5, <1>6, <1>7, <1>8, <1>9, <1>10, <1>11, <1>12, <1>13, <1>14,
     <1>15, <1>16, <1>17, <1>18, <1>19, <1>20, Zenon DEF Next, SenderNext

-----------------------------------------------------------------------------
(* Accounting.                                                             *)

\* Frames are never lost to the counters: each step moves them between the
\* loop's hands, the open batch and the two counters.
LEMMA BatcherStep ==
  ASSUME IInv, [Next]_vars
  PROVE  HandIsNewest' /\ ClosedIsEmpty' /\ PendingEndsAtNewest' /\ BatcherAccounting'
<1>00. /\ hand \in Nat /\ born \in Seq(Identities) /\ flushed \in Nat /\ dropped \in Nat
       /\ HandIsNewest /\ ClosedIsEmpty /\ PendingEndsAtNewest /\ BatcherAccounting
  BY Zenon DEF IInv, TypeOK
<1>000. PendingSize \in Nat /\ (pending # <<>> => PendingSize = Size(pending[1]))
  <2>1. CASE pending # <<>>
    BY <2>1, PendingType, Zenon DEF IInv, StoredInOrder
  <2> QED  BY <2>1, Zenon DEF PendingSize
<1> USE <1>00, <1>000 DEF HandIsNewest, ClosedIsEmpty, PendingEndsAtNewest, BatcherAccounting, Newest, PendingSize,
          identityVars, batcherVars, senderVars, storeVars
<1>flush. ASSUME FlushLocked, hand' = hand, born' = born
          PROVE  HandIsNewest' /\ ClosedIsEmpty' /\ PendingEndsAtNewest' /\ BatcherAccounting'
  <2>1. pending' = <<>> /\ PendingSize' = 0 /\ Len(born) \in Nat
    BY <1>flush, FlushCases
  <2>2. \/ flushed' = flushed /\ dropped' = dropped + PendingSize
        \/ flushed' = flushed + PendingSize /\ dropped' = dropped
    BY <1>flush, FlushCases DEF Queued, Lost, Nothing
  <2>3. BatcherAccounting'
    BY <2>1, <2>2, <1>flush
  <2> QED  BY <2>1, <2>3, <1>flush, Zenon
<1>1. CASE ProcessEvent
  BY <1>1 DEF ProcessEvent
<1>2. CASE Add
  <2>0. Grown.last = hand /\ Size(Grown) = PendingSize + 1 /\ hand' = 0 /\ UNCHANGED <<born, closed>>
    BY <1>2, GrownType, Zenon DEF Add
  <2>1. CASE closed /\ dropped' = dropped + 1 /\ UNCHANGED <<pending, timer, queue, flushed, flushedBatches>>
    BY <1>2, <2>0, <2>1 DEF Add
  <2>2. CASE ~closed /\ Enqueue(Grown) /\ pending' = <<>>
    <3>1. \/ flushed' = flushed /\ dropped' = dropped + (PendingSize + 1)
          \/ flushed' = flushed + (PendingSize + 1) /\ dropped' = dropped
      BY <2>0, <2>2, EnqueueCases, Zenon DEF Queued, Lost
    <3>2. PendingSize' = 0 /\ Len(born) \in Nat /\ hand # 0
      BY <1>2, <2>2, Zenon DEF Add
    <3>3. CASE flushed' = flushed /\ dropped' = dropped + (PendingSize + 1)
      BY <2>0, <2>2, <3>2, <3>3
    <3>4. CASE flushed' = flushed + (PendingSize + 1) /\ dropped' = dropped
      BY <2>0, <2>2, <3>2, <3>4
    <3> QED  BY <3>1, <3>3, <3>4, Zenon
  <2>3. CASE ~closed /\ pending' = <<Grown>> /\ UNCHANGED <<queue, flushed, flushedBatches, dropped>>
    <3>1. pending'[1] = Grown /\ pending' # <<>>
      BY <2>3, Zenon
    <3> QED  BY <1>2, <2>0, <2>3, <3>1 DEF Add, Size
  <2> QED  BY <1>2, <2>1, <2>2, <2>3, Zenon DEF Add
<1>3. CASE IntervalFlush
  BY <1>flush, <1>3, Zenon DEF IntervalFlush
<1>4. CASE Reconfigure
  BY <1>flush, <1>4, Zenon DEF Reconfigure
<1>5. CASE BatcherDone
  <2>1. CASE UNCHANGED batcherVars
    BY <1>5, <2>1, Zenon DEF BatcherDone
  <2>2. CASE FlushLocked /\ closed' = TRUE /\ UNCHANGED batchSize
    BY <1>flush, <1>5, <2>2, Zenon DEF BatcherDone
  <2> QED  BY <1>5, <2>1, <2>2, Zenon DEF BatcherDone, CloseAndFlush
<1>6. CASE \E i \in Identities : SwitchFlush(i)
  BY <1>flush, <1>6, Zenon DEF SwitchFlush
<1>7. CASE SetRuntimeIdentity
  BY <1>7, Zenon DEF SetRuntimeIdentity
<1>8. CASE SenderReceive
  BY <1>8, Zenon DEF SenderReceive
<1>9. CASE SenderDrained
  BY <1>9, Zenon DEF SenderDrained
<1>10. CASE SenderCancelled
  BY <1>10, Zenon DEF SenderCancelled
<1>11. CASE SendCommitted
  BY <1>11, Zenon DEF SendCommitted
<1>12. CASE SendRejected
  BY <1>12, Zenon DEF SendRejected
<1>13. CASE SendFailed
  BY <1>13, Zenon DEF SendFailed
<1>14. CASE RetrySend
  BY <1>14, Zenon DEF RetrySend
<1>15. CASE AbandonSend
  BY <1>15, Zenon DEF AbandonSend
<1>16. CASE Terminate
  BY <1>16, Zenon DEF Terminate
<1>17. CASE BeginShutdown
  <2>1. CASE UNCHANGED batcherVars
    BY <1>17, <2>1, Zenon DEF BeginShutdown
  <2>2. CASE FlushLocked /\ closed' = TRUE /\ UNCHANGED batchSize
    BY <1>flush, <1>17, <2>2, Zenon DEF BeginShutdown
  <2> QED  BY <1>17, <2>1, <2>2, Zenon DEF BeginShutdown, CloseAndFlush
<1>18. CASE EndShutdown \/ LoopFails
  BY <1>18 DEF EndShutdown, LoopFails
<1>19. CASE UNCHANGED vars
  BY <1>19, Zenon DEF vars
<1>20. CASE TimerFires
  BY <1>20, Zenon DEF TimerFires
<1> QED
  BY <1>1, <1>2, <1>3, <1>4, <1>5, <1>6, <1>7, <1>8, <1>9, <1>10, <1>11, <1>12, <1>13, <1>14,
     <1>15, <1>16, <1>17, <1>18, <1>19, <1>20, Zenon DEF Next, SenderNext

\* Batches are never lost to the counters either, once the abandoned ones
\* are counted.
LEMMA SenderStep ==
  ASSUME IInv, [Next]_vars
  PROVE  SenderAccounting'
<1>00. /\ stored \in Seq(Batch) /\ rejected \in Seq(Batch) /\ abandoned \in Seq(Batch)
       /\ queue \in Seq(Batch) /\ inflight \in Seq(Batch) /\ Len(inflight) <= 1
       /\ flushedBatches \in Nat /\ sent \in Nat
       /\ (inflight # <<>>) <=> (sender \in {"send", "backoff"})
       /\ SenderAccounting
       /\ Len(queue) \in Nat /\ Len(inflight) \in Nat
       /\ Len(rejected) \in Nat /\ Len(abandoned) \in Nat
  BY DEF IInv, TypeOK, AtMostOne
<1>held. sender \in {"send", "backoff"} => inflight[1] \in Batch /\ Len(inflight) = 1
  BY <1>00, AtMostOneCases, Zenon DEF AtMostOne
<1> USE <1>00 DEF SenderAccounting, identityVars, batcherVars, senderVars, storeVars
<1>queued. ASSUME NEW b, Queued(b), UNCHANGED <<inflight, sent, rejected, abandoned>>
           PROVE  SenderAccounting'
  <2>1. Len(queue') = Len(queue) + 1 /\ flushedBatches' = flushedBatches + 1
    BY <1>queued DEF Queued
  <2> QED  BY <2>1, <1>queued
<1>flush. ASSUME FlushLocked, UNCHANGED <<inflight, sent, rejected, abandoned>>
          PROVE  SenderAccounting'
  <2>1. CASE Nothing
    BY <2>1, <1>flush, Zenon DEF Nothing
  <2>2. CASE pending # <<>> /\ Queued(pending[1])
    BY <2>2, <1>flush, <1>queued, Zenon
  <2>3. CASE Lost(pending[1])
    BY <2>3, <1>flush, Zenon DEF Lost
  <2> QED  BY <1>flush, <2>1, <2>2, <2>3, FlushCases, Zenon
<1>1. CASE ProcessEvent
  BY <1>1, Zenon DEF ProcessEvent
<1>2. CASE Add
  <2>1. CASE UNCHANGED <<queue, flushedBatches>>
    BY <1>2, <2>1, Zenon DEF Add
  <2>2. CASE Enqueue(Grown)
    <3>1. UNCHANGED <<inflight, sent, rejected, abandoned>>
      BY <1>2, Zenon DEF Add
    <3>2. CASE Queued(Grown)
      BY <3>1, <3>2, <1>queued, Zenon
    <3>3. CASE Lost(Grown)
      BY <3>1, <3>3, Zenon DEF Lost
    <3> QED  BY <2>2, <3>2, <3>3, EnqueueCases, Zenon
  <2> QED  BY <1>2, <2>1, <2>2, Zenon DEF Add
<1>3. CASE IntervalFlush
  BY <1>flush, <1>3, Zenon DEF IntervalFlush
<1>4. CASE Reconfigure
  BY <1>flush, <1>4, Zenon DEF Reconfigure
<1>5. CASE BatcherDone
  <2>1. CASE UNCHANGED batcherVars
    BY <1>5, <2>1, Zenon DEF BatcherDone
  <2>2. CASE FlushLocked /\ closed' = TRUE /\ UNCHANGED batchSize
    BY <1>flush, <1>5, <2>2, Zenon DEF BatcherDone
  <2> QED  BY <1>5, <2>1, <2>2, Zenon DEF BatcherDone, CloseAndFlush
<1>6. CASE \E i \in Identities : SwitchFlush(i)
  BY <1>flush, <1>6, Zenon DEF SwitchFlush
<1>7. CASE SetRuntimeIdentity
  BY <1>7, Zenon DEF SetRuntimeIdentity
<1>8. CASE SenderReceive
  BY <1>8 DEF SenderReceive
<1>9. CASE SenderDrained
  BY <1>9, Zenon DEF SenderDrained
<1>10. CASE SenderCancelled
  BY <1>10, Zenon DEF SenderCancelled
<1>11. CASE SendCommitted
  <2>1. Len(inflight) = 1 /\ sent' = sent + 1
    BY <1>11, <1>held, Zenon DEF SendCommitted
  <2>2. Len(inflight') = 0
    BY <1>11, Zenon DEF SendCommitted
  <2> QED  BY <1>11, <2>1, <2>2 DEF SendCommitted
<1>12. CASE SendRejected
  <2>1. inflight[1] \in Batch /\ Len(inflight) = 1 /\ rejected' = Append(rejected, inflight[1])
    BY <1>12, <1>held, Zenon DEF SendRejected
  <2>2. Len(inflight') = 0
    BY <1>12, Zenon DEF SendRejected
  <2>3. Len(rejected') = Len(rejected) + 1
    BY <2>1
  <2> QED  BY <1>12, <2>1, <2>2, <2>3 DEF SendRejected
<1>13. CASE SendFailed
  BY <1>13, Zenon DEF SendFailed
<1>14. CASE RetrySend
  BY <1>14, Zenon DEF RetrySend
<1>15. CASE AbandonSend
  <2>1. inflight[1] \in Batch /\ Len(inflight) = 1 /\ abandoned' = Append(abandoned, inflight[1])
    BY <1>15, <1>held, Zenon DEF AbandonSend
  <2>2. Len(inflight') = 0
    BY <1>15, Zenon DEF AbandonSend
  <2>3. Len(abandoned') = Len(abandoned) + 1
    BY <2>1
  <2> QED  BY <1>15, <2>1, <2>2, <2>3 DEF AbandonSend
<1>16. CASE Terminate
  BY <1>16, Zenon DEF Terminate
<1>17. CASE BeginShutdown
  <2>1. CASE UNCHANGED batcherVars
    BY <1>17, <2>1, Zenon DEF BeginShutdown
  <2>2. CASE FlushLocked /\ closed' = TRUE /\ UNCHANGED batchSize
    BY <1>flush, <1>17, <2>2, Zenon DEF BeginShutdown
  <2> QED  BY <1>17, <2>1, <2>2, Zenon DEF BeginShutdown, CloseAndFlush
<1>18. CASE EndShutdown \/ LoopFails
  BY <1>18, Zenon DEF EndShutdown, LoopFails
<1>19. CASE UNCHANGED vars
  BY <1>19, Zenon DEF vars
<1>20. CASE TimerFires
  BY <1>20, Zenon DEF TimerFires
<1> QED
  BY <1>1, <1>2, <1>3, <1>4, <1>5, <1>6, <1>7, <1>8, <1>9, <1>10, <1>11, <1>12, <1>13, <1>14,
     <1>15, <1>16, <1>17, <1>18, <1>19, <1>20, Zenon DEF Next, SenderNext

-----------------------------------------------------------------------------
(* Order.                                                                  *)

\* A batch of a sequence of batches ends at a frame number.
LEMMA LastIsNat ==
  ASSUME NEW s \in Seq(Batch), NEW i \in 1 .. Len(s)
  PROVE  s[i].last \in Nat
<1>1. s[i] \in Batch
  OBVIOUS
<1> QED  BY <1>1, Zenon DEF Batch

\* The empty sequence is ordered, bounded, and before and after everything.
LEMMA EmptyOrder ==
  /\ Ordered(<<>>) /\ OrderedRepeats(<<>>)
  /\ \A s : Before(s, <<>>) /\ Before(<<>>, s) /\ Repeats(s, <<>>) /\ Repeats(<<>>, s)
  /\ \A n : UpTo(<<>>, n)
BY DEF Ordered, OrderedRepeats, Before, Repeats, UpTo

\* What the batch Add builds follows: everything the open batch follows.
LEMMA GrownFollows ==
  ASSUME IInv, hand # 0, NEW s \in Seq(Batch), UpTo(s, Newest), Before(s, pending)
  PROVE  Before(s, <<Grown>>)
<1>1. \A i \in 1 .. Len(s) : s[i].last < Grown.first
  <2>1. CASE pending = <<>>
    <3>1. Grown.first = hand /\ hand \in Nat /\ Newest = hand - 1
      BY <2>1, Zenon DEF IInv, TypeOK, Grown, Newest
    <3>2. \A i \in 1 .. Len(s) : s[i].last \in Nat /\ s[i].last <= Newest
      BY LastIsNat, Zenon DEF UpTo
    <3> QED  BY <3>1, <3>2
  <2>2. CASE pending # <<>>
    <3>1. Grown.first = pending[1].first /\ Len(pending) = 1
      BY <2>2, PendingType, Zenon DEF IInv, StoredInOrder, Grown, Batch
    <3> QED  BY <3>1 DEF Before
  <2> QED  BY <2>1, <2>2, Zenon
<1> QED  BY <1>1 DEF Before

\* The frame bound only grows.
LEMMA UpToGrows ==
  ASSUME NEW s \in Seq(Batch), NEW m \in Nat, NEW n \in Nat, m <= n, UpTo(s, m)
  PROVE  UpTo(s, n)
<1>1. \A i \in 1 .. Len(s) : s[i].last \in Nat
  BY LastIsNat, Zenon
<1> QED  BY <1>1 DEF UpTo

\* Every step keeps the order of the batches on their way to the log.
LEMMA OrderStep ==
  ASSUME IInv, [Next]_vars
  PROVE  StoredInOrder' /\ PastFrames'
<1>0. /\ stored \in Seq(Batch) /\ inflight \in Seq(Batch) /\ queue \in Seq(Batch)
      /\ pending \in Seq(Batch) /\ AtMostOne(pending) /\ AtMostOne(inflight)
      /\ hand \in Nat /\ Len(born) \in Nat /\ born \in Seq(Identities)
      /\ (inflight # <<>>) <=> (sender \in {"send", "backoff"})
      /\ HandIsNewest /\ PastFrames /\ StoredInOrder
  BY DEF IInv, TypeOK
<1>00. Newest \in Nat
  BY <1>0 DEF Newest, HandIsNewest
<1>same. ASSUME UNCHANGED <<stored, inflight, queue, pending, hand, born>>
         PROVE  StoredInOrder' /\ PastFrames'
  BY <1>0, <1>same, Zenon DEF StoredInOrder, PastFrames, Newest
<1>fin. ASSUME NEW b \in Batch, Queued(b), pending' = <<>>, UNCHANGED <<stored, inflight>>,
               NEW n \in Nat, Newest' = n, Newest <= n,
               b.first <= b.last, b.last <= n,
               Before(stored, <<b>>), Before(inflight, <<b>>), Before(queue, <<b>>)
        PROVE  StoredInOrder' /\ PastFrames'
  <2>1. /\ Ordered(Append(queue, b)) /\ Before(stored, Append(queue, b))
        /\ Before(inflight, Append(queue, b))
    BY <1>0, <1>fin, OrderedAppend, BeforeAppendRight, Zenon DEF StoredInOrder
  <2>2. UpTo(stored, n) /\ UpTo(inflight, n) /\ UpTo(queue, n)
    BY <1>0, <1>00, <1>fin, UpToGrows, Zenon DEF PastFrames
  <2>3. UpTo(Append(queue, b), n)
    BY <1>0, <1>fin, <2>2, UpToSteps, Zenon
  <2>4. queue' = Append(queue, b) /\ stored' = stored /\ inflight' = inflight
    BY <1>fin, Zenon DEF Queued
  <2>5. StoredInOrder'
    BY <1>0, <1>fin, <2>1, <2>4, EmptyOrder, Zenon DEF StoredInOrder
  <2>6. PastFrames'
    BY <1>fin, <2>2, <2>3, <2>4, EmptyOrder, Zenon DEF PastFrames
  <2> QED  BY <2>5, <2>6, Zenon
<1>lost. ASSUME pending' = <<>>, UNCHANGED <<stored, inflight, queue>>,
                NEW n \in Nat, Newest' = n, Newest <= n
         PROVE  StoredInOrder' /\ PastFrames'
  <2>1. UpTo(stored, n) /\ UpTo(inflight, n) /\ UpTo(queue, n)
    BY <1>0, <1>00, <1>lost, UpToGrows, Zenon DEF PastFrames
  <2>2. stored' = stored /\ inflight' = inflight /\ queue' = queue
    BY <1>lost, Zenon
  <2>3. StoredInOrder'
    BY <1>0, <1>lost, <2>2, EmptyOrder, Zenon DEF StoredInOrder
  <2>4. PastFrames'
    BY <1>lost, <2>1, <2>2, EmptyOrder, Zenon DEF PastFrames
  <2> QED  BY <2>3, <2>4, Zenon
<1>flush. ASSUME FlushLocked, UNCHANGED <<stored, inflight, hand, born>>
          PROVE  StoredInOrder' /\ PastFrames'
  <2>1. pending' = <<>> /\ Newest' = Newest /\ Newest <= Newest
    BY <1>00, <1>flush, FlushCases DEF Newest
  <2>2. CASE Nothing \/ Lost(pending[1])
    BY <1>00, <1>flush, <1>lost, <2>1, <2>2, Zenon DEF Nothing, Lost
  <2>3. CASE pending # <<>> /\ Queued(pending[1])
    <3>1. pending[1] \in Batch /\ pending[1].first <= pending[1].last /\ Len(pending) = 1
      BY <2>3, PendingType, Zenon DEF IInv, StoredInOrder
    <3>2. pending[1].last <= Newest
      BY <1>0, <3>1 DEF PastFrames, UpTo
    <3>3. /\ Before(stored, <<pending[1]>>) /\ Before(inflight, <<pending[1]>>)
          /\ Before(queue, <<pending[1]>>)
      BY <1>0, <2>3, BeforeTail, Zenon DEF StoredInOrder
    <3> QED  BY <1>00, <1>flush, <1>fin, <2>1, <2>3, <3>1, <3>2, <3>3, Zenon
  <2> QED  BY <1>flush, <2>2, <2>3, FlushCases, Zenon
<1>written. ASSUME inflight # <<>>, inflight' = inflight \/ inflight' = <<>>,
                   UNCHANGED <<queue, pending, hand, born>>,
                   stored' = stored \/ stored' = Append(stored, inflight[1])
            PROVE  StoredInOrder' /\ PastFrames'
  <2>1. Newest' = Newest
    BY <1>written, Zenon DEF Newest
  <2>2. inflight[1] \in Batch /\ Len(inflight) = 1
    BY <1>0, <1>written, AtMostOneCases, Zenon
  <2>3. /\ inflight[1].first <= inflight[1].last /\ inflight[1].last <= Newest
        /\ inflight = <<inflight[1]>>
    BY <1>0, <2>2 DEF StoredInOrder, Ordered, PastFrames, UpTo
  <2>4. Before(<<inflight[1]>>, queue) /\ Before(<<inflight[1]>>, pending) /\ Repeats(stored, <<inflight[1]>>)
    BY <1>0, <2>3, Zenon DEF StoredInOrder
  <2>5. /\ OrderedRepeats(stored') /\ Repeats(stored', inflight) /\ UpTo(stored', Newest)
        /\ Before(stored', queue) /\ Before(stored', pending)
    <3>1. CASE stored' = stored
      BY <1>0, <3>1, Zenon DEF StoredInOrder, PastFrames
    <3>2. CASE stored' = Append(stored, inflight[1])
      <4>1. OrderedRepeats(stored') /\ Repeats(stored', <<inflight[1]>>)
        BY <1>0, <2>2, <2>3, <2>4, <3>2, RepeatsAppend, Zenon DEF StoredInOrder
      <4>2. Before(stored', queue) /\ Before(stored', pending)
        BY <1>0, <2>2, <2>4, <3>2, BeforeAppendLeft, Zenon DEF StoredInOrder
      <4>3. UpTo(stored', Newest)
        BY <1>0, <1>00, <2>2, <2>3, <3>2, UpToSteps, Zenon DEF PastFrames
      <4> QED  BY <2>3, <4>1, <4>2, <4>3, Zenon
    <3> QED  BY <1>written, <3>1, <3>2, Zenon
  <2>6. StoredInOrder'
    <3>1. CASE inflight' = inflight
      BY <1>0, <1>written, <2>5, <3>1, Zenon DEF StoredInOrder
    <3>2. CASE inflight' = <<>>
      BY <1>0, <1>written, <2>5, <3>2, EmptyOrder, Zenon DEF StoredInOrder
    <3> QED  BY <1>written, <3>1, <3>2, Zenon
  <2>7. PastFrames'
    BY <1>0, <1>written, <2>1, <2>5, EmptyOrder, Zenon DEF PastFrames
  <2> QED  BY <2>6, <2>7, Zenon
<1>1. CASE ProcessEvent
  <2>1. Newest' = Newest
    BY <1>0, <1>1 DEF ProcessEvent, Newest
  <2> QED  BY <1>0, <1>1, <2>1, Zenon DEF ProcessEvent, batcherVars, senderVars, storeVars, StoredInOrder, PastFrames
<1>2. CASE Add
  <2>1. /\ Grown \in Batch /\ Grown.first <= Grown.last /\ Grown.last = hand /\ hand # 0
        /\ UNCHANGED <<stored, inflight, born>> /\ hand' = 0
    BY <1>2, GrownType, Zenon DEF Add, senderVars, storeVars
  <2>2. Newest' \in Nat /\ Newest' = hand /\ Newest <= hand
    BY <1>0, <2>1 DEF Newest, HandIsNewest
  <2>3. Before(stored, <<Grown>>) /\ Before(inflight, <<Grown>>) /\ Before(queue, <<Grown>>)
    BY <1>0, <2>1, GrownFollows, Zenon DEF PastFrames, StoredInOrder
  <2>4. CASE closed /\ UNCHANGED <<pending, timer, queue, flushed, flushedBatches>>
    <3>1. pending' = <<>>
      BY <2>4, Zenon DEF IInv, ClosedIsEmpty
    <3> QED  BY <1>0, <1>lost, <2>1, <2>2, <2>4, <3>1, Zenon
  <2>5. CASE Enqueue(Grown) /\ pending' = <<>>
    <3>1. CASE Queued(Grown)
      BY <1>0, <1>fin, <2>1, <2>2, <2>3, <2>5, <3>1
    <3>2. CASE Lost(Grown)
      BY <1>0, <1>lost, <2>1, <2>2, <2>5, <3>2, Zenon DEF Lost
    <3> QED  BY <2>5, <3>1, <3>2, EnqueueCases, Zenon
  <2>6. CASE pending' = <<Grown>> /\ UNCHANGED <<queue, flushed, flushedBatches, dropped>>
    <3>1. Ordered(<<Grown>>) /\ UpTo(<<Grown>>, hand)
      BY <1>0, <2>1 DEF Ordered, UpTo, Batch
    <3>2. UpTo(stored, hand) /\ UpTo(inflight, hand) /\ UpTo(queue, hand)
      BY <1>0, <1>00, <2>2, UpToGrows, Zenon DEF PastFrames
    <3>3. StoredInOrder'
      BY <1>0, <2>1, <2>3, <2>6, <3>1, Zenon DEF StoredInOrder
    <3>4. PastFrames'
      BY <2>1, <2>2, <2>6, <3>1, <3>2, Zenon DEF PastFrames
    <3> QED  BY <3>3, <3>4, Zenon
  <2> QED  BY <1>2, <2>4, <2>5, <2>6, Zenon DEF Add
<1>3. CASE IntervalFlush
  BY <1>3, <1>flush, Zenon DEF IntervalFlush, senderVars, storeVars
<1>4. CASE Reconfigure
  BY <1>4, <1>flush, Zenon DEF Reconfigure, senderVars, storeVars
<1>5. CASE BatcherDone
  <2>1. CASE UNCHANGED batcherVars
    BY <1>5, <1>same, <2>1, Zenon DEF BatcherDone, batcherVars, senderVars, storeVars
  <2>2. CASE FlushLocked
    BY <1>5, <1>flush, <2>2, Zenon DEF BatcherDone, senderVars, storeVars
  <2> QED  BY <1>5, <2>1, <2>2, Zenon DEF BatcherDone, CloseAndFlush
<1>6. CASE \E i \in Identities : SwitchFlush(i)
  BY <1>6, <1>flush, Zenon DEF SwitchFlush, senderVars, storeVars
<1>7. CASE SetRuntimeIdentity
  BY <1>7, <1>same, Zenon DEF SetRuntimeIdentity, batcherVars, senderVars, storeVars
<1>8. CASE SenderReceive
  <2>1. /\ inflight = <<>> /\ queue # <<>> /\ inflight' = <<Head(queue)>> /\ queue' = Tail(queue)
        /\ UNCHANGED <<stored, pending, hand, born>>
    BY <1>0, <1>8, Zenon DEF SenderReceive
  <2>2. Head(queue) = queue[1] /\ Head(queue) \in Batch /\ Head(queue).last <= Newest
    BY <1>0, <2>1, TailElements DEF PastFrames, UpTo
  <2>3. Ordered(Tail(queue)) /\ Ordered(<<Head(queue)>>) /\ Before(<<Head(queue)>>, Tail(queue))
    BY <1>0, <2>1, OrderedTail, Zenon DEF StoredInOrder
  <2>4. Before(stored, Tail(queue)) /\ Repeats(stored, <<queue[1]>>)
    BY <1>0, <2>1, BeforeTail, BeforeRepeats, Zenon DEF StoredInOrder
  <2>5. Before(Tail(queue), pending) /\ Before(<<queue[1]>>, pending)
    BY <1>0, <2>1, BeforeTailLeft, Zenon DEF StoredInOrder
  <2>6. UpTo(Tail(queue), Newest) /\ UpTo(<<Head(queue)>>, Newest)
    BY <1>0, <1>00, <2>1, <2>2, UpToSteps, Zenon DEF PastFrames
  <2>7. Newest' = Newest
    BY <2>1, Zenon DEF Newest
  <2>8. StoredInOrder'
    BY <1>0, <2>1, <2>2, <2>3, <2>4, <2>5, Zenon DEF StoredInOrder
  <2>9. PastFrames'
    BY <1>0, <2>1, <2>6, <2>7, Zenon DEF PastFrames
  <2> QED  BY <2>8, <2>9, Zenon
<1>9. CASE SenderDrained
  BY <1>9, <1>same, Zenon DEF SenderDrained, batcherVars, senderVars, storeVars
<1>10. CASE SenderCancelled
  BY <1>10, <1>same, Zenon DEF SenderCancelled, batcherVars, senderVars, storeVars
<1>11. CASE SendCommitted
  BY <1>0, <1>11, <1>written, Zenon DEF SendCommitted, AppendOnce, batcherVars
<1>12. CASE SendRejected
  BY <1>0, <1>12, <1>written, Zenon DEF SendRejected, batcherVars
<1>13. CASE SendFailed
  BY <1>0, <1>13, <1>written, Zenon DEF SendFailed, AppendOnce, batcherVars, storeVars
<1>14. CASE RetrySend
  BY <1>14, <1>same, Zenon DEF RetrySend, batcherVars, senderVars, storeVars
<1>15. CASE AbandonSend
  BY <1>0, <1>15, <1>written, Zenon DEF AbandonSend, batcherVars
<1>16. CASE Terminate
  BY <1>16, <1>same, Zenon DEF Terminate, batcherVars, senderVars, storeVars
<1>17. CASE BeginShutdown
  <2>1. CASE UNCHANGED batcherVars
    BY <1>17, <1>same, <2>1, Zenon DEF BeginShutdown, batcherVars, senderVars, storeVars
  <2>2. CASE FlushLocked
    BY <1>17, <1>flush, <2>2, Zenon DEF BeginShutdown, senderVars, storeVars
  <2> QED  BY <1>17, <2>1, <2>2, Zenon DEF BeginShutdown, CloseAndFlush
<1>18. CASE EndShutdown \/ LoopFails
  BY <1>18, <1>same, Zenon DEF EndShutdown, LoopFails, batcherVars, senderVars, storeVars
<1>19. CASE UNCHANGED vars
  BY <1>19, <1>same, Zenon DEF vars, batcherVars, senderVars, storeVars
<1>20. CASE TimerFires
  BY <1>20, <1>same, Zenon DEF TimerFires, senderVars, storeVars
<1> QED
  BY <1>1, <1>2, <1>3, <1>4, <1>5, <1>6, <1>7, <1>8, <1>9, <1>10, <1>11, <1>12, <1>13, <1>14,
     <1>15, <1>16, <1>17, <1>18, <1>19, <1>20, Zenon DEF Next, SenderNext

-----------------------------------------------------------------------------
(* The flush timer, and what the store knows of the batch in flight.       *)

\* Every step keeps an open batch timed.
LEMMA TimerStep ==
  ASSUME IInv, [Next]_vars
  PROVE  OpenBatchTimed'
<1>0. OpenBatchTimed
  BY Zenon DEF IInv
<1>flush. FlushLocked => pending' = <<>>
  BY FlushCases, Zenon
<1> USE <1>0 DEF OpenBatchTimed, batcherVars
<1>1. CASE Add
  <2>1. run' = run
    BY <1>1, Zenon DEF Add
  <2>2. CASE pending' = <<>>
    BY <2>2, Zenon
  <2>3. CASE pending' = pending /\ timer' = timer
    BY <2>1, <2>3, Zenon
  <2>4. CASE timer' = (timer \/ pending = <<>>)
    <3>1. CASE timer \/ pending = <<>>
      BY <2>4, <3>1, Zenon
    <3>2. CASE ~(timer \/ pending = <<>>)
      BY <2>1, <3>2, Zenon
    <3> QED  BY <3>1, <3>2, Zenon
  <2> QED  BY <1>1, <2>2, <2>3, <2>4, Zenon DEF Add
<1>2. CASE TimerFires
  BY <1>2, Zenon DEF TimerFires
<1>3. CASE IntervalFlush \/ Reconfigure \/ \E i \in Identities : SwitchFlush(i)
  BY <1>3, <1>flush, Zenon DEF IntervalFlush, Reconfigure, SwitchFlush
<1>4. CASE BatcherDone
  <2>1. CASE FlushLocked
    BY <2>1, <1>flush, Zenon
  <2>2. CASE closed /\ UNCHANGED batcherVars
    BY <2>2, Zenon DEF IInv, ClosedIsEmpty
  <2> QED  BY <1>4, <2>1, <2>2, Zenon DEF BatcherDone, CloseAndFlush
<1>5. CASE BeginShutdown
  BY <1>5, <1>flush, Zenon DEF BeginShutdown, CloseAndFlush
<1>6. CASE UNCHANGED <<pending, timer, run>>
  BY <1>6, Zenon
<1>7. CASE ProcessEvent \/ SetRuntimeIdentity \/ SenderNext \/ Terminate \/ EndShutdown \/ LoopFails \/ UNCHANGED vars
  BY <1>6, <1>7, Zenon DEF ProcessEvent, SetRuntimeIdentity, SenderNext, SenderReceive, SenderDrained, SenderCancelled,
     SendCommitted, SendRejected, SendFailed, RetrySend, AbandonSend, Terminate, EndShutdown, LoopFails, vars
<1> QED  BY <1>1, <1>2, <1>3, <1>4, <1>5, <1>7, Zenon DEF Next

\* Every step keeps that a known batch is stored.
LEMMA KnownStep ==
  ASSUME IInv, [Next]_vars
  PROVE  KnownIsStored'
<1>0. /\ KnownIsStored /\ stored \in Seq(Batch) /\ inflight \in Seq(Batch) /\ AtMostOne(inflight)
      /\ (inflight # <<>>) <=> (sender \in {"send", "backoff"})
  BY Zenon DEF IInv, TypeOK
<1>1. CASE SendFailed
  <2>1. inflight # <<>> /\ inflight' = inflight /\ inflight[1] \in Batch
    BY <1>0, <1>1, AtMostOneCases, Zenon DEF SendFailed
  <2>2. CASE UNCHANGED storeVars
    BY <1>0, <2>1, <2>2, Zenon DEF storeVars, KnownIsStored
  <2>3. CASE known /\ stored' = stored
    BY <1>0, <2>1, <2>3, Zenon DEF KnownIsStored
  <2>4. CASE stored' = Append(stored, inflight[1])
    <3>1. Len(stored') \in 1 .. Len(stored') /\ stored'[Len(stored')] = inflight[1]
      BY <1>0, <2>1, <2>4
    <3> QED  BY <2>1, <3>1, Zenon DEF KnownIsStored
  <2> QED  BY <1>1, <2>2, <2>3, <2>4, Zenon DEF SendFailed, AppendOnce
<1>2. CASE SenderReceive \/ SendCommitted \/ SendRejected \/ AbandonSend
  <2>1. known' = FALSE
    BY <1>2, Zenon DEF SenderReceive, SendCommitted, SendRejected, AbandonSend
  <2> QED  BY <2>1, Zenon DEF KnownIsStored
<1>3. CASE UNCHANGED <<known, stored, inflight>>
  BY <1>0, <1>3, Zenon DEF KnownIsStored
<1> USE DEF senderVars, storeVars
<1>4. CASE SenderDrained \/ SenderCancelled \/ RetrySend
  BY <1>3, <1>4, Zenon DEF SenderDrained, SenderCancelled, RetrySend
<1>5. CASE ProcessEvent \/ Add \/ TimerFires \/ IntervalFlush \/ Reconfigure \/ BatcherDone
  BY <1>3, <1>5, Zenon DEF ProcessEvent, Add, TimerFires, IntervalFlush, Reconfigure, BatcherDone
<1>6. CASE (\E i \in Identities : SwitchFlush(i)) \/ SetRuntimeIdentity
  BY <1>3, <1>6, Zenon DEF SwitchFlush, SetRuntimeIdentity
<1>7. CASE Terminate \/ BeginShutdown \/ EndShutdown \/ LoopFails \/ UNCHANGED vars
  BY <1>3, <1>7, Zenon DEF Terminate, BeginShutdown, EndShutdown, LoopFails, vars
<1> QED  BY <1>1, <1>2, <1>4, <1>5, <1>6, <1>7, Zenon DEF Next, SenderNext

-----------------------------------------------------------------------------
(* The theorems.                                                           *)

\* The inductive invariant holds in every reachable state.
THEOREM Invariance == Spec => []IInv
<1>1. Init => IInv
  <2> SUFFICES ASSUME Init PROVE IInv
    BY Zenon
  <2>0. \A S : <<>> \in Seq(S) /\ AtMostOne(<<>>)
    BY DEF AtMostOne
  <2>00. /\ born = <<>> /\ switchTo = <<>> /\ pending = <<>> /\ queue = <<>> /\ inflight = <<>>
         /\ known = FALSE /\ stored = <<>> /\ rejected = <<>> /\ abandoned = <<>>
         /\ (inflight # <<>>) <=> (sender \in {"send", "backoff"})
    BY Zenon DEF Init
  <2>1. TypeOK
    BY <2>0, <2>00, PipelineAssumption, Zenon DEF Init, TypeOK
  <2>2. StoredInOrder /\ PastFrames
    BY EmptyOrder, Zenon DEF Init, StoredInOrder, PastFrames
  <2>3. HandIsNewest /\ ClosedIsEmpty /\ PendingEndsAtNewest /\ BatcherAccounting /\ SenderAccounting
    BY DEF Init, HandIsNewest, ClosedIsEmpty, PendingEndsAtNewest, BatcherAccounting, PendingSize,
           SenderAccounting
  <2>4. OpenBatchTimed /\ KnownIsStored
    BY <2>00, Zenon DEF OpenBatchTimed, KnownIsStored
  <2> QED  BY <2>1, <2>2, <2>3, <2>4, Zenon DEF IInv
<1>2. IInv /\ [Next]_vars => IInv'
  BY TypeStep, BatcherStep, SenderStep, OrderStep, TimerStep, KnownStep, Zenon DEF IInv
<1> QED  BY <1>1, <1>2, PTL DEF Spec

\* TypeOK, for every instance: the telemetry state stays well typed.
THEOREM TypeCorrect == Spec => []TypeOK
BY Invariance, PTL DEF IInv

\* BatcherAccounting, for every instance: Batcher.Add and flushLocked lose
\* no frame without counting it, at every queue capacity and batch size.
THEOREM BatcherAccountingHolds == Spec => []BatcherAccounting
BY Invariance, PTL DEF IInv

\* SenderAccounting, for every instance: what Sender.Run takes from the
\* queue is sent, rejected, in flight or abandoned at the end of its context.
THEOREM SenderAccountingHolds == Spec => []SenderAccounting
BY Invariance, PTL DEF IInv

\* OpenBatchTimed, for every instance: whatever stops or receives the flush
\* timer of Batcher, an open batch has it armed or is about to be flushed.
THEOREM OpenBatchTimedHolds == Spec => []OpenBatchTimed
BY Invariance, PTL DEF IInv

\* StoredInOrder, for every instance: the local log is in the order in which
\* the event loop produced the frames, and sendWithRetry repeats a record that
\* a failed SendBatch had written only before any newer batch is written.
THEOREM StoredInOrderHolds == Spec => []StoredInOrder
BY Invariance, PTL DEF IInv

\* NoSendAfterClose, for every instance: flushLocked never sends on the
\* channel CloseAndFlush has closed.
THEOREM NoSendAfterCloseHolds == Spec => NoSendAfterClose
<1>1. IInv /\ [Next]_vars => [closed => flushedBatches' = flushedBatches]_vars
  <2> SUFFICES ASSUME IInv, Next, closed PROVE flushedBatches' = flushedBatches
    BY Zenon DEF vars, batcherVars
  <2>1. pending = <<>>
    BY Zenon DEF IInv, ClosedIsEmpty
  <2>2. FlushLocked => flushedBatches' = flushedBatches
    BY <2>1, Zenon DEF FlushLocked
  <2> QED
    BY <2>2, Zenon DEF Next, SenderNext, ProcessEvent, Add, TimerFires, IntervalFlush, Reconfigure, BatcherDone,
        CloseAndFlush,        SwitchFlush, SetRuntimeIdentity, SenderReceive, SenderDrained, SenderCancelled, SendCommitted,
        SendRejected, SendFailed, RetrySend, AbandonSend, Terminate, BeginShutdown, EndShutdown, LoopFails,
        batcherVars
<1> QED  BY <1>1, Invariance, PTL DEF Spec, NoSendAfterClose
=============================================================================
