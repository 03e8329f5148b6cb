------------------------- MODULE TelemetryPipeline -------------------------
(***************************************************************************)
(* The agent's path from a sensor event to its local store: the daemon's   *)
(* event loop, the Batcher that groups frames into data batches, the       *)
(* bounded queue, the Sender that hands each batch to the store with       *)
(* unbounded retry, the identity switch of an enrollment and the shutdown. *)
(*                                                                         *)
(* Code: internal/agent/telemetry/batcher.go, the event loop and the       *)
(* shutdown of internal/agent/daemon/daemon.go, runtime_identity.go.       *)
(*                                                                         *)
(* A frame is its number in the order the loop produces them, and a batch  *)
(* is its header: the identity it was opened with and the sequence range   *)
(* EventSeqStart..EventSeqEnd that finalizeBatch derives from its frames.  *)
(***************************************************************************)
EXTENDS Naturals, Sequences, FiniteSets

CONSTANTS
  Identities,     \* tenant/agent identities the agent can run under
  Standalone,     \* the identity it starts with
  BatchSizes,     \* values a policy can give to max_batch_items
  QueueCapacity,  \* capacity of the channel between Batcher and Sender
  MaxFrames,      \* bound: frames the sensor produces in a behaviour
  MaxStored,      \* bound: length of the log up to which a retry repeats a record
  MaxSwitches     \* bound: enrollment changes in a behaviour

ASSUME PipelineAssumption ==
  /\ Standalone \in Identities
  /\ BatchSizes # {} /\ BatchSizes \subseteq Nat \ {0}
  /\ QueueCapacity \in Nat \ {0}
  /\ MaxFrames \in Nat
  /\ MaxStored \in Nat
  /\ MaxSwitches \in Nat

VARIABLES
  born,        \* born[n]: identity the normalizer gave frame n
  hand,        \* frame the event loop has normalised and not yet added, or 0
  identity,    \* AgentRuntime.identity
  switchTo,    \* identity an enrollment change is about to set, or <<>>
  switches,    \* enrollment changes so far (bound only)
  pending,     \* Batcher.pending: <<>> or <<batch>>
  queue,       \* Batcher.queue
  batchSize,   \* Batcher.batchSize
  closed,      \* Batcher.closed
  timer,       \* Batcher.timer is armed, or has fired and was not received
  run,         \* Batcher.Run: "select", "flush" (timer received) or "exited"
  flushed,     \* stats: frames put on the queue
  flushedBatches, \* stats: batches put on the queue
  dropped,     \* stats: frames dropped (queue full, or batcher closed)
  sender,      \* Sender goroutine: "recv", "send", "backoff" or "exited"
  inflight,    \* batch held by sendWithRetry: <<>> or <<batch>>
  known,       \* the store has the position of the batch in flight
  stored,      \* records of the local log, in order
  sent,        \* SenderStats.SentBatches
  rejected,    \* batches the appender has terminally rejected
  abandoned,   \* batches sendWithRetry gave up on when its context ended
  drained,     \* SenderStats.Drained
  ctxDone,     \* the daemon's context is cancelled (signal)
  planeDone,   \* dataPlaneCtx is done
  main         \* event loop: "running", "draining" or "stopped"

batcherVars == <<pending, timer, queue, batchSize, closed, flushed, flushedBatches, dropped>>
storeVars == <<known, stored>>
senderVars == <<sender, inflight, storeVars, sent, rejected, abandoned, drained>>
identityVars == <<identity, switchTo, switches>>
vars == <<born, hand, identityVars, batcherVars, run, senderVars, ctxDone, planeDone, main>>

Batch == [identity : Identities, first : Nat, last : Nat]
Frames(b) == b.first .. b.last
Size(b) == b.last - b.first + 1
PendingSize == IF pending = <<>> THEN 0 ELSE Size(pending[1])

-----------------------------------------------------------------------------
Init ==
  /\ born = <<>> /\ hand = 0
  /\ identity = Standalone /\ switchTo = <<>> /\ switches = 0
  /\ pending = <<>> /\ queue = <<>> /\ batchSize \in BatchSizes /\ closed = FALSE
  /\ timer = FALSE /\ run = "select"
  /\ flushed = 0 /\ flushedBatches = 0 /\ dropped = 0
  /\ sender = "recv" /\ inflight = <<>> /\ known = FALSE /\ stored = <<>> /\ sent = 0 /\ rejected = <<>>
  /\ abandoned = <<>> /\ drained = FALSE
  /\ ctxDone = FALSE /\ planeDone = FALSE /\ main = "running"

-----------------------------------------------------------------------------
(* Batcher.  Every operation holds Batcher.mu from start to end, so each   *)
(* is one step.                                                            *)

QueueHasRoom == Len(queue) < QueueCapacity

\* Mutant: the full-queue branch forgets the dropped counter.
EnqueueUncounted(b) ==
  \/ /\ QueueHasRoom
     /\ queue' = Append(queue, b)
     /\ flushed' = flushed + Size(b)
     /\ flushedBatches' = flushedBatches + 1
     /\ UNCHANGED dropped
  \/ /\ ~QueueHasRoom
     /\ UNCHANGED <<queue, flushed, flushedBatches, dropped>>

\* A full queue costs the batch: the select's default branch only counts it.
Enqueue(b) ==
  \/ /\ QueueHasRoom
     /\ queue' = Append(queue, b)
     /\ flushed' = flushed + Size(b)
     /\ flushedBatches' = flushedBatches + 1
     /\ UNCHANGED dropped
  \/ /\ ~QueueHasRoom
     /\ dropped' = dropped + Size(b)
     /\ UNCHANGED <<queue, flushed, flushedBatches>>

\* Whatever there was to flush, the timer is stopped and its channel emptied.
FlushLocked ==
  /\ timer' = FALSE
  /\ \/ /\ pending = <<>>
        /\ UNCHANGED <<pending, queue, flushed, flushedBatches, dropped>>
     \/ /\ pending # <<>>
        /\ Enqueue(pending[1])
        /\ pending' = <<>>

\* The batch under construction, opened with the identity of the moment
\* (newDataBatch reads currentIdentity) when there is none.
Grown == IF pending = <<>>
         THEN [identity |-> identity, first |-> hand, last |-> hand]
         ELSE [pending[1] EXCEPT !.last = hand]

\* Mutant: a closed batcher discards the frame without counting it.
AddClosedUncounted ==
  /\ hand # 0
  /\ hand' = 0
  /\ \/ closed /\ UNCHANGED <<pending, timer, queue, flushed, flushedBatches, dropped>>
     \/ ~closed /\ Enqueue(Grown) /\ pending' = <<>> /\ timer' = FALSE
  /\ UNCHANGED <<born, identityVars, batchSize, closed, run, senderVars, ctxDone, planeDone, main>>

\* Mutant: a batch is opened and the flush timer is left as it is.
AddUnarmed ==
  /\ hand # 0
  /\ hand' = 0
  /\ ~closed /\ Size(Grown) < batchSize
  /\ pending' = <<Grown>>
  /\ UNCHANGED <<timer, queue, flushed, flushedBatches, dropped>>
  /\ UNCHANGED <<born, identityVars, batchSize, closed, run, senderVars, ctxDone, planeDone, main>>

\* Opening a batch arms the flush timer.  The count limit decides a flush;
\* the byte limit can decide one earlier.
Add ==
  /\ hand # 0
  /\ hand' = 0
  /\ \/ /\ closed
        /\ dropped' = dropped + 1
        /\ UNCHANGED <<pending, timer, queue, flushed, flushedBatches>>
     \/ /\ ~closed
        /\ Enqueue(Grown)
        /\ pending' = <<>> /\ timer' = FALSE
     \/ /\ ~closed
        /\ Size(Grown) < batchSize
        /\ pending' = <<Grown>>
        /\ timer' = (timer \/ pending = <<>>)
        /\ UNCHANGED <<queue, flushed, flushedBatches, dropped>>
  /\ UNCHANGED <<born, identityVars, batchSize, closed, run, senderVars, ctxDone, planeDone, main>>

\* Batcher.Run receives from the timer's channel ...
TimerFires ==
  /\ run = "select" /\ timer
  /\ timer' = FALSE /\ run' = "flush"
  /\ UNCHANGED <<born, hand, identityVars, pending, queue, batchSize, closed, flushed, flushedBatches,
                 dropped, senderVars, ctxDone, planeDone, main>>

\* ... and flushes; by then the batch may be another one, or the Batcher closed.
IntervalFlush ==
  /\ run = "flush"
  /\ FlushLocked
  /\ run' = "select"
  /\ UNCHANGED <<born, hand, identityVars, batchSize, closed, senderVars, ctxDone, planeDone, main>>

\* Mutant: the timer is stopped for the new interval and the batch kept.
ReconfigureKeepsBatch ==
  /\ timer' = FALSE
  /\ batchSize' \in BatchSizes
  /\ UNCHANGED <<pending, queue, flushed, flushedBatches, dropped>>
  /\ UNCHANGED <<born, hand, identityVars, closed, run, senderVars, ctxDone, planeDone, main>>

\* A policy change flushes what was collected under the old limits.
Reconfigure ==
  /\ FlushLocked
  /\ batchSize' \in BatchSizes
  /\ UNCHANGED <<born, hand, identityVars, closed, run, senderVars, ctxDone, planeDone, main>>

\* Mutant: close the channel and leave the open batch in place.
CloseWithoutFlush ==
  /\ closed' = TRUE
  /\ UNCHANGED <<pending, timer, queue, batchSize, flushed, flushedBatches, dropped>>

CloseAndFlush ==
  \/ /\ closed
     /\ UNCHANGED batcherVars
  \/ /\ ~closed
     /\ FlushLocked
     /\ closed' = TRUE
     /\ UNCHANGED batchSize

\* Batcher.Run: its context, dataPlaneCtx, is done.
BatcherDone ==
  /\ run = "select" /\ planeDone
  /\ CloseAndFlush
  /\ run' = "exited"
  /\ UNCHANGED <<born, hand, identityVars, senderVars, ctxDone, planeDone, main>>

-----------------------------------------------------------------------------
(* Event loop and enrollment.                                              *)

\* A sensor event (or a tamper signal of the health tick) is normalised
\* under the identity of the moment; the Add that follows is another step.
ProcessEvent ==
  /\ main = "running" /\ hand = 0
  /\ Len(born) < MaxFrames
  /\ born' = Append(born, identity)
  /\ hand' = Len(born) + 1
  /\ UNCHANGED <<identityVars, batcherVars, run, senderVars, ctxDone, planeDone, main>>

\* applyEnrollmentIdentity flushes first ...
SwitchFlush(i) ==
  /\ switchTo = <<>> /\ switches < MaxSwitches
  /\ i # identity
  /\ FlushLocked
  /\ switchTo' = <<i>>
  /\ switches' = switches + 1
  /\ UNCHANGED <<born, hand, identity, batchSize, closed, run, senderVars, ctxDone, planeDone, main>>

\* ... and then sets the identity, with nothing held in between.
SetRuntimeIdentity ==
  /\ switchTo # <<>>
  /\ identity' = switchTo[1]
  /\ switchTo' = <<>>
  /\ UNCHANGED <<born, hand, switches, batcherVars, run, senderVars, ctxDone, planeDone, main>>

-----------------------------------------------------------------------------
(* Sender.  A select with several ready cases takes any of them.           *)

SenderReceive ==
  /\ sender = "recv" /\ queue # <<>>
  /\ inflight' = <<Head(queue)>> /\ known' = FALSE
  /\ queue' = Tail(queue)
  /\ sender' = "send"
  /\ UNCHANGED <<born, hand, identityVars, pending, timer, batchSize, closed, flushed, flushedBatches,
                 dropped, run, stored, sent, rejected, abandoned, drained, ctxDone, planeDone, main>>

\* The channel is closed and empty.
SenderDrained ==
  /\ sender = "recv" /\ closed /\ queue = <<>>
  /\ drained' = TRUE
  /\ sender' = "exited"
  /\ UNCHANGED <<born, hand, identityVars, batcherVars, run, inflight, storeVars, sent, rejected, abandoned,
                 ctxDone, planeDone, main>>

SenderCancelled ==
  /\ sender = "recv" /\ planeDone
  /\ sender' = "exited"
  /\ UNCHANGED <<born, hand, identityVars, batcherVars, run, inflight, storeVars, sent, rejected, abandoned,
                 drained, ctxDone, planeDone, main>>

\* SendBatch: AppendBatch writes the record unless it knows its position.
AppendOnce == stored' = IF known THEN stored ELSE Append(stored, inflight[1])

\* Mutant: return to the receive loop with the batch still held.
SendCommittedHeld ==
  /\ sender = "send"
  /\ AppendOnce
  /\ sent' = sent + 1 /\ sender' = "recv"
  /\ UNCHANGED <<born, hand, identityVars, batcherVars, run, inflight, known, rejected, abandoned, drained,
                 ctxDone, planeDone, main>>

SendCommitted ==
  /\ sender = "send"
  /\ AppendOnce
  /\ sent' = sent + 1
  /\ inflight' = <<>> /\ known' = FALSE
  /\ sender' = "recv"
  /\ UNCHANGED <<born, hand, identityVars, batcherVars, run, rejected, abandoned, drained,
                 ctxDone, planeDone, main>>

\* Mutant: a terminal rejection is not counted.
SendRejectedUncounted ==
  /\ sender = "send"
  /\ inflight' = <<>> /\ known' = FALSE
  /\ sender' = "recv"
  /\ UNCHANGED <<born, hand, identityVars, batcherVars, run, stored, sent, rejected, abandoned, drained,
                 ctxDone, planeDone, main>>

SendRejected ==
  /\ sender = "send"
  /\ rejected' = Append(rejected, inflight[1])
  /\ inflight' = <<>> /\ known' = FALSE
  /\ sender' = "recv"
  /\ UNCHANGED <<born, hand, identityVars, batcherVars, run, stored, sent, abandoned, drained,
                 ctxDone, planeDone, main>>

\* Mutant: a failed batch goes back to the end of the queue.
SendFailedRequeued ==
  /\ sender = "send" /\ ~closed
  /\ queue' = Append(queue, inflight[1])
  /\ inflight' = <<>> /\ known' = FALSE
  /\ sender' = "recv"
  /\ UNCHANGED <<born, hand, identityVars, pending, timer, batchSize, closed, flushed, flushedBatches,
                 dropped, run, stored, sent, rejected, abandoned, drained, ctxDone, planeDone, main>>

\* An error, a missing ack or a retryable one: wait, then try again.  The
\* record may have been written: without its position when a statement of
\* AppendBatch failed after the write, with it when AppendSignals failed.
SendFailed ==
  /\ sender = "send"
  /\ sender' = "backoff"
  /\ \/ UNCHANGED storeVars
     \/ Len(stored) < MaxStored /\ AppendOnce /\ known' \in {known, TRUE}
  /\ UNCHANGED <<born, hand, identityVars, batcherVars, run, inflight, sent, rejected, abandoned,
                 drained, ctxDone, planeDone, main>>

RetrySend ==
  /\ sender = "backoff"
  /\ sender' = "send"
  /\ UNCHANGED <<born, hand, identityVars, batcherVars, run, inflight, storeVars, sent, rejected, abandoned,
                 drained, ctxDone, planeDone, main>>

\* sendWithRetry returns without a word when the context ends in a backoff;
\* Run then goes round its select once more.
AbandonSend ==
  /\ sender = "backoff" /\ planeDone
  /\ abandoned' = Append(abandoned, inflight[1])
  /\ inflight' = <<>> /\ known' = FALSE
  /\ sender' = "recv"
  /\ UNCHANGED <<born, hand, identityVars, batcherVars, run, stored, sent, rejected, drained,
                 ctxDone, planeDone, main>>

-----------------------------------------------------------------------------
(* Shutdown.                                                               *)

\* SIGTERM cancels the daemon's context, and dataPlaneCtx with it.
Terminate ==
  /\ main = "running" /\ ~ctxDone
  /\ ctxDone' = TRUE
  /\ planeDone' = TRUE
  /\ UNCHANGED <<born, hand, identityVars, batcherVars, run, senderVars, main>>

\* shutdownAndReport, on the cancelled context or on the end of the event
\* stream: close the batcher and start to wait for the Sender.
BeginShutdown ==
  /\ main = "running" /\ hand = 0
  /\ CloseAndFlush
  /\ main' = "draining"
  /\ UNCHANGED <<born, hand, identityVars, run, senderVars, ctxDone, planeDone>>

\* waitForSenderDrained returns: the Sender reports Drained, or the grace
\* period is over.  The data plane is cancelled and the final health taken.
EndShutdown ==
  /\ main = "draining"
  /\ main' = "stopped"
  /\ planeDone' = TRUE
  /\ UNCHANGED <<born, hand, identityVars, batcherVars, run, senderVars, ctxDone>>

\* An event without content or a sensor that cannot report its health ends
\* the loop with an error: Run returns and nothing is drained.
LoopFails ==
  /\ main = "running" /\ hand = 0
  /\ main' = "stopped"
  /\ UNCHANGED <<born, hand, identityVars, batcherVars, run, senderVars, ctxDone, planeDone>>

\* The process is gone once the final report is out.
Running == main # "stopped"

SenderNext ==
  \/ SenderReceive \/ SenderDrained \/ SenderCancelled
  \/ SendCommitted \/ SendRejected \/ SendFailed \/ RetrySend \/ AbandonSend

Next ==
  /\ Running
  /\ \/ ProcessEvent \/ Add \/ TimerFires \/ IntervalFlush \/ Reconfigure \/ BatcherDone
     \/ \E i \in Identities : SwitchFlush(i)
     \/ SetRuntimeIdentity
     \/ SenderNext
     \/ Terminate \/ BeginShutdown \/ EndShutdown \/ LoopFails

Spec == Init /\ [][Next]_vars

\* The Go scheduler runs every goroutine that can run and a running timer
\* fires.  The appender is the local store: it does not fail for ever.
Fairness ==
  /\ WF_vars(Running /\ Add)
  /\ WF_vars(Running /\ TimerFires)
  /\ WF_vars(Running /\ IntervalFlush)
  /\ WF_vars(Running /\ SenderReceive)
  /\ WF_vars(Running /\ RetrySend)
  /\ SF_vars(Running /\ SendCommitted)

FairSpec == Spec /\ Fairness

-----------------------------------------------------------------------------
(* Properties                                                              *)

AtMostOne(s) == Len(s) <= 1

\* Type invariant of the daemon's telemetry state.
TypeOK ==
  /\ born \in Seq(Identities) /\ hand \in Nat
  /\ identity \in Identities
  /\ switchTo \in Seq(Identities) /\ AtMostOne(switchTo) /\ switches \in Nat
  /\ pending \in Seq(Batch) /\ AtMostOne(pending) /\ queue \in Seq(Batch)
  /\ batchSize \in BatchSizes /\ closed \in BOOLEAN
  /\ timer \in BOOLEAN /\ run \in {"select", "flush", "exited"}
  /\ flushed \in Nat /\ flushedBatches \in Nat /\ dropped \in Nat
  /\ sender \in {"recv", "send", "backoff", "exited"}
  /\ inflight \in Seq(Batch) /\ AtMostOne(inflight)
  /\ (inflight # <<>>) <=> (sender \in {"send", "backoff"})
  /\ known \in BOOLEAN /\ sent \in Nat
  /\ stored \in Seq(Batch) /\ rejected \in Seq(Batch) /\ abandoned \in Seq(Batch)
  /\ drained \in BOOLEAN /\ ctxDone \in BOOLEAN /\ planeDone \in BOOLEAN
  /\ main \in {"running", "draining", "stopped"}

\* Every frame the event loop produced is in its hands, in the open batch,
\* or in exactly one of the batcher's flushed and dropped counters: a full
\* queue, a closed batcher and every kind of flush included.
BatcherAccounting ==
  Len(born) = (IF hand = 0 THEN 0 ELSE 1) + PendingSize + flushed + dropped

\* Every batch the batcher counts as flushed is on the queue, in the hands
\* of the Sender, or in the Sender's sent or rejected count, however often it
\* was retried or written; the abandoned ones are those no counter shows.
SenderAccounting ==
  flushedBatches = Len(queue) + Len(inflight) + sent + Len(rejected) + Len(abandoned)

\* An open batch is never left without its timer: the timer is armed, or Run
\* has received it and is about to flush, whichever of a count flush, a policy
\* change, an identity switch and a late interval flush stopped it in between.
OpenBatchTimed == pending # <<>> => timer \/ run = "flush"

Ordered(s) ==
  \A i \in 1 .. Len(s) :
    s[i].first <= s[i].last /\ \A j \in 1 .. Len(s) : i < j => s[i].last < s[j].first
Before(s, t) == \A i \in 1 .. Len(s), j \in 1 .. Len(t) : s[i].last < t[j].first
\* The same where a record may be written again.
Repeats(s, t) == \A i \in 1 .. Len(s), j \in 1 .. Len(t) : s[i] = t[j] \/ s[i].last < t[j].first
OrderedRepeats(s) ==
  \A i \in 1 .. Len(s) :
    s[i].first <= s[i].last /\ \A j \in 1 .. Len(s) : i < j => s[i] = s[j] \/ s[i].last < s[j].first

\* The local log is in production order, whatever is retried, rejected or
\* dropped: no batch overtakes another, a record that a failed SendBatch had
\* written is repeated only as a whole and only before any newer one, and
\* what is still on its way is newer than everything stored, but for the
\* batch in flight, which may be stored already.
StoredInOrder ==
  /\ OrderedRepeats(stored) /\ Ordered(inflight) /\ Ordered(queue) /\ Ordered(pending)
  /\ Repeats(stored, inflight) /\ Before(stored, queue) /\ Before(stored, pending)
  /\ Before(inflight, queue) /\ Before(inflight, pending) /\ Before(queue, pending)

InSome(s) == UNION {Frames(s[i]) : i \in 1 .. Len(s)}
OnTheWay == {hand} \cup InSome(pending) \cup InSome(queue) \cup InSome(inflight)
Settled == InSome(stored) \cup InSome(rejected) \cup InSome(abandoned)

\* No silent loss before the queue: the frames that are nowhere any more
\* are exactly as many as the dropped counter reports to health.
LossCounted ==
  dropped = Cardinality((1 .. Len(born)) \ (OnTheWay \cup Settled))

\* The queue is a Go channel that shutdown closes: a later send on it would
\* panic, whichever of Add, the flush timer, a policy change, an identity
\* switch or the second of the two closers comes next.
NoSendAfterClose == [][closed => flushedBatches' = flushedBatches]_vars

\* A frame the agent produced is eventually in the local store, rejected
\* or dropped with count, unless the agent is told to stop.
FrameSettles ==
  \A n \in 1 .. MaxFrames : (n \in OnTheWay) ~> (n \notin OnTheWay \/ main # "running" \/ planeDone)

\* What a finished drain claims (telemetry_test.go, daemon_test.go): when
\* the Sender reports Drained, every batch that was flushed was sent (or
\* rejected with count).
DrainedMeansSent == drained => flushedBatches = sent + Len(rejected)

\* architecture.md: an enrollment switches the agent atomically, so a batch
\* never carries frames normalised under another identity than its header's.
HeaderMatchesFrames ==
  \A i \in 1 .. Len(stored) : \A n \in Frames(stored[i]) : born[n] = stored[i].identity
=============================================================================
