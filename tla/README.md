# SysArmor in TLA+

SysArmor collects security telemetry on endpoints and analyses it in a cloud
service. This directory holds TLA+ specifications of its parts, the TLC
configurations that check them on small instances, and TLAPS proofs that hold for
every value of the constants. `PROJECT.json` records, definition by definition,
which lines of the source each one models.

## The system

| Part | Code | Process |
| --- | --- | --- |
| Sensors (Tetragon supervisor, event translation) | `internal/sensors` | agent |
| Event loop, detection, telemetry Batcher and Sender | `internal/agent/daemon`, `internal/endpoint`, `internal/agent/telemetry` | agent |
| Local store: segment files and SQLite | `internal/agent/localstore` | agent |
| Enrollment, network supervisor, export pipeline | `internal/agent/daemon`, `internal/agent/localstore` | agent |
| Control loop: policies, content, responses | `internal/agent/daemon`, `policy`, `content` | agent |
| Data plane and control plane | `internal/gateway` | Gateway |
| Operator API, enrollment issue, policies, approvals | `internal/manager` | Manager |
| Working sets over Postgres | `internal/store` | Gateway, Manager, Worker |
| Raw topic, dead letters | `internal/platform/kafka` | Kafka |
| Projection and analysis | `internal/workers/ingest`, `internal/analytics` | Worker |
| Events, Findings, Incidents | `internal/platform/opensearch` | OpenSearch |

An event travels through all of them. The agent's event loop normalises it and
adds it to an open batch. A full or old batch goes on a bounded queue. The Sender
takes it off and writes it to the local store, and retries as long as the store
fails. If the agent is enrolled, an export pipeline reads the local log from the
enrollment boundary, sends each batch to the Gateway, and moves a checkpoint when
the Gateway acknowledges. The Gateway appends the batch to Kafka and records its
cursor in the agent's session. A Worker fetches it, merges it with the history of
its scope, writes documents to OpenSearch, and commits the offset.

In the other direction an operator creates control commands at the Manager. The
Gateway delivers them when the agent opens its control stream, and the agent
acknowledges them there.

What makes this hard:

* Every hand-over has its own notion of "done" (flushed, stored, acknowledged,
  committed), and a crash may fall between any two.
* Enrollment changes the identity while batches are on their way, and export
  pipelines of an earlier enrollment may linger.
* The local store spreads one append over a file, three tables and memory.
* Manager, Gateway and Worker each keep a working set: their own in-memory copy of
  what they touched, never refreshed. Each save writes the whole copy back.
* An uploaded batch may be appended to Kafka several times, and out of order.

What correctness means here: nothing reported as stored is lost without count; the
checkpoint, the acknowledgement and the committed offset never run ahead of the
data; order is kept; what is waiting gets done once faults end; and a recorded
outcome is one that happened.

## Modules

| Module | Models | Proofs |
| --- | --- | --- |
| `TelemetryPipeline` | sensor event to local store | `TelemetryPipelineProofs`, `TelemetryLossProofs` |
| `LocalStore` | segment files, rows, reclaim, recovery | none, see below |
| `BatchLog` | what the local store promises; `LocalStore` implements it | |
| `ExportPipeline` | enrollment, upload, checkpoint | `ExportPipelineProofs` |
| `GatewayIngest` | upload to Kafka, sessions | `GatewayIngestProofs` |
| `IngestWorker` | Kafka to OpenSearch | `IngestWorkerProofs` |
| `ControlCommands` | one command through Manager, Gateway, agent | `ControlCommandsProofs` |

Each `MC*` module extends one of these and names the values its configurations use.
Definitions introduced by a comment "Mutant:" are faulty variants of the definition
they precede. They are part of no specification; putting one in the place of the
original shows that a property depends on it.

### TelemetryPipeline

The state is that of `AgentRuntime` (`identity`), `Batcher` (`pending`, `queue`,
`batchSize`, `closed`, its timer and its counters), the `Sender` goroutine (`sender`,
`inflight` and its counters) and the daemon's loop and contexts (`main`, `ctxDone`,
`planeDone`). A frame is its number, and a batch is its header: identity, first and
last sequence number. The goroutines are the event loop (`ProcessEvent`, `Add`),
`Batcher.Run`, policy changes (`Reconfigure`), an enrollment change (`SwitchFlush`, then
`SetRuntimeIdentity`, two steps because the code takes two locks), the Sender, and
shutdown (`Terminate`, `BeginShutdown`, `EndShutdown`, `LoopFails`). `Run` receives the
timer (`TimerFires`) and then flushes (`IntervalFlush`); other flushes may come between
the two. The limit on a batch's bytes is a nondeterministic early flush.

`SendBatch` may fail before or after its record is in the file. If it failed after, the
store may remember the record (`known`), and the retry appends nothing; or not, and the
retry appends it again. `AppendOnce` says so. Which of these happens, statement by
statement, is the matter of `LocalStore`.

### LocalStore and BatchLog

One action is one statement: creating a segment file, writing its header, inserting
its row, writing a record, updating the row, the cursor and the signals; sealing is a
step for the file (sync, close, rename) and one for the row. A file is a sequence of a
header, whole records and torn fragments. Faults are failing SQL statements (`"db"`),
failing file operations (`"io"`), short writes (`"short"`) and power loss (`"power"`),
which cuts a file back to a length not below what was synced. A failed sync leaves the
writer usable; a failed close or rename leaves it closed for the rest of the process.
The public `Seal` runs the same two steps under the same mutex, between appends.

`Crash` takes the memory. `Open` is recovery as the code does it, file by file in the
order of their names: truncation of the active segment, rebuilding of rows and
positions, advancing of the cursor. A fragment with records behind it is either cut off
with them (its length reaches beyond the end) or makes `Open` fail (its checksum is
wrong), and which of the two depends on bytes the model does not have, so it is a choice.
An `Open` that fails has changed what it had read up to there. `EnforceCapacity` runs
concurrently in steps of its own, since it takes no lock.

`BatchLog` is the abstract view: a log that only grows, the batches reported as
stored, and a mark that moves over the log. Its `log` is the concatenation of what is
readable in the segments, its `mark` the number of records the checkpoint covers.

### ExportPipeline

The handlers of Enroll and Unenroll are sequences of steps (`EnrollStats`,
`EnrollPersist`, `EnrollIdentity`, `EnrollStart`; `UnenrollPersist`, `UnenrollStop`,
`UnenrollIdentity`), so that two requests, or a request and a pipeline, interleave.
Enrollments are numbered by eras, and each era has its own export pipeline goroutine
`exp[k]`, because a stopped pipeline may still finish its cycle. A cycle reads the
checkpoint (`Poll`), then the log (`ReadWindow` or `ReadFailed`), then for each batch of
the window takes a skip, or a send, its acknowledgement or failure, and the save of the
checkpoint. `exp[k].base` is a history variable: the checkpoint at the start of the
pipeline. The code lets an operator enroll over an enrollment; `Reenroll` and
`Histories` say what operators do in an instance, and no handler looks at them.
`Restart` is a crash: sequence numbers resume from the stored cursor and the enrollment
row decides what starts.

### GatewayIngest

Each stream runs `handleBatch` in steps: `CheckDuplicate` (rows, or the working set
when the query fails), `AppendRaw` (an error may hide a message that was written),
`RecordDataBatchAppend` in the working set, `SaveSnapshot` and `SaveWrite` (the copy
is taken under a lock, the rows are written outside it), `Reply`. The agent may give up
a stream (`Abandon`) that then goes on. A restarted Gateway has an empty working set.

The Gateway uses a `NoopProducer` when no brokers are configured: every append succeeds
and nothing is written. `producer` says which one a behaviour has. `AckedInKafka` is
claimed for the Kafka writer; with the other one an acknowledged batch is nowhere but in
the agent's own log.

### IngestWorker

Each worker runs `Run` and `processWithRetry`: fetch, read the history, bulk-index with
partial success, save, commit, or dead letter and commit. Workers exit at any step and
the group assigns the partition to another, also while the first still has a message in
hand. The commit of such a former owner is not refused: nothing in the Worker looks
whether the partition is still its own, so the commit may succeed and may set the
group's offset back. This leads to a message being fetched again and to nothing else, as
`NothingSkipped` and `CommittedProjected` show. `next` is the position of each worker's
reader. What an Incident was computed from (a set of batches) stands for its content.
`RefreshLag` says that a search sees documents only after an index refresh.

### ControlCommands

One command has a copy in each process's working set (`mem`) and a row. Requests of
operators, hellos and acknowledgements are handlers that change the copy, take a
snapshot and write the whole of it back. Two commands meet only in these saves, so
every other request of a process is a save for this command (`Other`). The agent
handles the frame it gets and reports an outcome, one of `Answers`; `Recorded` is the
status `applyControlCommandAck` makes of it. `answered` is a history variable: the agent
has answered since the command last began to wait. "rejected" stands for rejected and
failed, "canceled" for canceled and expired; the code treats each pair alike.

## What is checked

| Run (module, configuration) | Instance | States | Checks |
| --- | --- | --- | --- |
| telemetry, `MCTelemetryPipeline.cfg` | 2 identities, batch sizes 1 and 2, queue of 1, 3 frames, repeated records up to a log of 2, 1 identity switch | 486,518 | `BatcherAccounting`, `SenderAccounting`, `OpenBatchTimed`, `StoredInOrder`, `LossCounted`, `NoSendAfterClose`, `FrameSettles` |
| export, `MCExportPipeline.cfg` | 1 cloud identity, 1 request at a time, enrolling again and history included; event and signal batches, 2 batches, 2 enrollments, 1 crash | 1,887,274 | `CheckpointCovered`, `CheckpointEarned`, `UploadGapFree`, `CheckpointMonotonic` |
| export_live, `MCExportPipelineLive.cfg` | 3 batches, 1 enrollment, 1 crash | 13,325 | `EventsUploaded` |
| localstore, `MCLocalStore.cfg` | 3 sequence numbers, 3 segments of 2 records, public Seal, 2 crashes, 1 failing statement or file operation | 201,901 | `LossAccounted`, `CheckpointSound`, `RowsMatchFiles`, `IsBatchLog` |
| localstore_reclaim, `MCLocalStoreReclaim.cfg` | 3 sequence numbers, 3 segments of 1 record, reclaim, every kind of fault, 1 crash | 1,146,183 | `NoSequenceReuse`, `SignalsKept` |
| ingest_gateway, `MCGatewayIngest.cfg` | 1 agent, 2 streams, 2 batches, 4 messages, 2 restarts, either producer | 367,270 | `AckedInKafka` |
| ingest_worker, `MCIngestWorker.cfg` | 2 workers, 2 batches (one malformed), 2 messages, 2 attempts | 98,048 | `CommittedProjected`, `NothingSkipped`, `EventuallyProjected` |
| control, `MCControlCommands.cfg` | 1 request and 1 stream at a time, degraded and rejected answers | 537,016 | `OutcomeReported`, `EventuallyAnswered` |

Each run also checks the type invariant of its module, except `export_live` and
`localstore_reclaim`, whose sibling runs do. Four more runs end in a counterexample;
they are described under *Disagreements*.

Why these bounds are enough for the cases that matter:

* telemetry: with a queue of one and three frames, the queue fills while the Sender
  holds a batch and a further one is flushed, so every drop path and every flush path is
  taken. A log of two is long enough for a record to be repeated and followed by another.
  One switch suffices for a batch opened before and closed after it.
* export: two enrollments let a pipeline of the first linger in the second. Two batches
  give one that is foreign, or lost on the way, and one behind it that must not be passed
  or uploaded out of turn. `ReadLimit` is at least the length of the log in the runs that
  pass; what a smaller one does is a disagreement of its own.
* localstore: three segments are one sealed, one being sealed and one being created. Two
  crashes let the recovery of one be interrupted by the next life's writes.
* ingest: two streams are enough for a late append and for two saves in the wrong
  order. Two workers are enough for one to lose the partition with a message in hand.
* control: one handler on each side, each at any of its steps, gives every overlap of
  a stale copy with a save; a second command appears as `Other`.

Deadlock is checked where the system never stops by itself (ingest, control). In the
other runs a finished instance (all frames settled, log at its bound, process stopped)
is a state without successors, and the configuration says so.

The only symmetry used is that of streams and agents in `MCGatewayIngest`; that run
checks invariants only.

### Fairness

* telemetry: weak fairness of the goroutines and of an armed timer, which the Go
  scheduler and runtime give; strong fairness of the store's success, since
  `sendWithRetry` retries without end and the store is assumed not to fail for ever.
  None of it is assumed after the process stops.
* export_live: weak fairness of the goroutines; strong fairness of reading the log and,
  batch by batch, of the Gateway's acknowledgement and of the checkpoint's save. A batch
  the Gateway rejects for good is therefore outside this run (see *Not modelled*).
* ingest_worker: strong fairness of each service the Workers call, weak fairness of the
  restart, and that the group finally stops taking the partition from a live worker.
  Without the last assumption two workers can take it from each other for ever. A history
  document that never decodes is a permanent error of the history read, for which the
  code has no way out but to retry and exit; strong fairness of `ReadHistory` leaves it out.
* control: faults end at some time (`Settle`); then calls end, the agent handles what it
  gets and reconnects, and finally no stream breaks in the middle of a hello or of the
  agent's work. That a stream breaks at all is not assumed. The Gateway sends commands
  only in its reply to a hello, so on a stream that lives on, a command created later is
  not delivered; `EventuallyAnswered` names this as its one exception.

## What is proved

The proofs hold for all values of the constants that satisfy the named assumption of
each module (the bounds are natural numbers, capacities and sizes are positive, the
sets are disjoint where the code's are).

| Theorem | States |
| --- | --- |
| `TelemetryPipelineProofs!BatcherAccountingHolds`, `SenderAccountingHolds` | every frame and every batch is counted exactly once |
| `TelemetryPipelineProofs!OpenBatchTimedHolds` | an open batch is never without its timer |
| `TelemetryPipelineProofs!StoredInOrderHolds` | no batch overtakes another on the way to the local log; a record is repeated only as a whole and before any newer one |
| `TelemetryPipelineProofs!NoSendAfterCloseHolds` | nothing is put on the closed queue |
| `TelemetryLossProofs!LossCountedHolds` | the frames that are nowhere any more are exactly as many as the drop counter says |
| `ExportPipelineProofs!CheckpointMonotonicHolds` | the checkpoint never moves back, with any number of handlers |
| `ExportPipelineProofs!CheckpointEarnedHolds` | the running pipeline has moved the checkpoint over no batch of its own that it has not uploaded, whatever operators do |
| `GatewayIngestProofs!Acknowledged` | with a Kafka producer, an acknowledged batch is in Kafka |
| `IngestWorkerProofs!Projected`, `SkipsNothing` | a committed message, and every message a worker has left behind, is projected or dead-lettered |
| `ControlCommandsProofs!OutcomesReal` | applied means put in force by the agent, rejected means refused by it |
| `TypeCorrect` in each of the five components | type correctness |

The arguments:

* **Telemetry.** The order of the stored batches is not inductive by itself, because
  the next batch must be newer than all earlier ones. `IInv` adds that the frame in hand
  is the newest produced, that the open batch ends at the newest frame added
  (`PendingEndsAtNewest`), that everything further on ends no later (`PastFrames`), that
  a batch the store knows is the one in flight and is stored (`KnownIsStored`), and that a
  closed Batcher has no open batch (`ClosedIsEmpty`, from which `NoSendAfterClose`
  follows).
* **Loss.** `LossInv` says the same of the frames that have left the Batcher: those in no
  batch further on are as many as the counter says. The order proved before makes the
  frames of a dropped batch disjoint from all others, so that the two numbers grow alike.
* **Export.** `CheckpointMonotonic` needs only that the position of a busy pipeline lies
  in the log and beyond the checkpoint it started from (`Bounds`). `CheckpointEarned` adds
  that a window has no hole (`Closed`, from what `ReadBatches` returns), that the running
  pipeline has uploaded what it owes below its position, and that what it is about to
  save has arrived (`Passed`). Other pipelines cannot disturb this, since a cancelled
  pipeline writes no checkpoint. Nothing is assumed about requests, so it holds also
  where `CheckpointCovered`, which speaks of all batches of the enrollment, fails.
* **Gateway.** `AckedInKafka` rests on `CursorsInKafka`: a cursor anywhere (working set,
  row, snapshot being saved) names a batch in the topic, so a "duplicate" verdict is as
  good as an append. `HandlersOK` says at which steps a handler has a verdict.
* **Worker.** `WorkersOK` says of each worker, owner or not, that what lies before the
  message in its hand is done, and that a worker about to commit has projected the
  message or put it aside. So any commit, a late one too, is a commit of something done,
  and a reader that starts from the committed offset passes nothing.
* **Control.** `CopiesReal` extends the claim to every place a status can be: working
  sets, rows just read, snapshots, acknowledgements. `UpdateKnown` says that a handler
  about to change the command has a request to do it for.

Each inductive invariant lists one step per action; facts about sequences, windows and
steps are lemmas in the same module.

Only model-checked: all liveness properties (`FrameSettles`, `EventsUploaded`,
`EventuallyProjected`, `EventuallyAnswered`), since reasoning about fairness and ENABLED
is beyond the prover; `CheckpointCovered` and `UploadGapFree`, which hold for one identity
and one request at a time; and everything about `LocalStore`, its refinement of `BatchLog`
included.

## Disagreements

Four runs end in a counterexample to something the documents or tests say.

* **export_limit** (`MCExportPipelineLimit.cfg`, `EventsUploaded`). `exportAvailable`
  reads at most 1000 batches from the enrollment boundary and only then skips those
  before the checkpoint. Once 1000 batches lie between the two, each read returns old
  ones only, and nothing is uploaded again. With a limit of 2 and 3 batches TLC shows the
  cycle. `docs/architecture.md:68` promises that the upload resumes from the checkpoint.
* **localstore_header** (`MCLocalStoreHeader.cfg`, `Restartable`). A crash after the
  segment file is created and before its header is written leaves an active segment
  shorter than a header. `readSegment` answers EOF and `Open` fails at every later start.
  `docs/architecture.md:80` says that an incomplete tail of the active segment can be cut
  off to the last whole record, and that an illegal header makes the start fail. The file
  is an active segment that ends too early, as the first half says; the code treats it
  as the second half says of a header that is wrong.
* **ingest_replay** (`MCIngestWorkerReplay.cfg`, `ReplayConverges`). Kafka receives
  batch 1, batch 2, and batch 1 again (`GatewayIngest` allows this: an abandoned stream
  may append late). The second copy of batch 1 recomputes the scope for the window that
  ends at batch 1, and the Incident loses batch 2. `docs/architecture.md:123` says that
  repeated batches lead to the same result.
* **control_ended** (`MCControlCommandsEnded.cfg`, `EndedStaysEnded`). The Gateway lists
  a pending command during a hello, an operator cancels it, and the Gateway's save writes
  "sent" over "canceled". Later saves of either process write older copies back in the
  same way. `internal/store/store_test.go:213` requires that a canceled command is not
  listed as pending.

### Further configurations

These configurations also end in counterexamples. They show the limits of what the
passing runs claim, and each can be run as it stands.

| Configuration | Property | What happens |
| --- | --- | --- |
| `MCTelemetryPipelineHeader` | `HeaderMatchesFrames` | A frame normalised before an identity switch is added after it; the batch's header names another identity than its frame. |
| `MCTelemetryPipelineDrained` | `DrainedMeansSent` | The context ends during a backoff; the batch is given up without count, and the Sender then reports Drained. |
| `MCExportPipelineConcurrent` | `StandaloneIsOffline` | An Unenroll runs between two steps of an Enroll; the agent is standalone and its network runs. |
| `MCExportPipelineReenroll` | `NothingLeftBehind` | Enrolling over an enrollment changes the identity while the old pipeline runs; it skips the new identity's batches as foreign and moves the checkpoint past them. |
| `MCExportPipelineHistory` | `HistoryCovered` | With `upload_history`, batches from before bear the standalone identity and are skipped as foreign. |
| `MCExportPipelineSignals` | `SignalsCovered` | The boundary is an event sequence number; a batch of signals only is compared with it by its signal numbers and left out. |
| `MCLocalStorePower` | `LossAccounted` | A batch is reported as stored after the write; the file is synced only when its segment is sealed, so a power loss takes the batch uncounted. |
| `MCLocalStoreShort` | `LossAccounted` | A short write leaves a fragment; a record written behind it is reported as stored, cannot be read, and is cut off at the next start. |
| `MCLocalStoreCount` | `LossAccounted` | Reclaim deletes files and rows before it writes the drop counter; a crash in between leaves the loss uncounted. |
| `MCLocalStoreReuse` | `CheckpointSound` | Reclaim frees the highest segment id; the next segment takes it again and lies behind the checkpoint of the old one. |
| `MCIngestWorkerRefresh` | `HistoryMerged` | A document written since the last index refresh is missing from the history of the next batch. |

`LossAccounted` and `CheckpointSound` are therefore claimed only without reclaim, power
loss and short writes; `NoSequenceReuse` and `SignalsKept` hold with all of them.
`CheckpointCovered` and `UploadGapFree` are claimed for one cloud identity and one request
at a time: two requests at once, or enrolling from one identity to another, break them or
leave batches behind as the table says.

## Not modelled

* Inside modelled parts: bytes and encodings of records and frames; authentication
  (a request that fails it changes nothing); metrics and health reports; the Redis hot
  session, which no decision reads; local ingest in the Gateway, a development mode.
* The sensor channel before the event loop: events still buffered there at shutdown are
  not read.
* A batch the Gateway rejects for good. The export pipeline neither skips nor counts it
  and stops there in each cycle. It belongs to the composition of upload and ingest.
* `EnforceCapacity`, `PruneSignals` and the public `Seal` are modelled, but the running
  agent calls none of them; the runs with `Reclaims` and `Seals` say what holds if it does.
* Matchers of detection rules, document layout, distribution of artifacts, queries,
  operator login, migrations, TLS set-up, the command line and the web interface: pure
  functions of strings, single-row writes, or reads. Generated code.

## Plan

The next modules, in order:

1. `ResponseApproval`: responses and evidence pullbacks over two working sets, approval,
   delivery. `PendingResponses` looks only at the Gateway's own working set.
2. `ControlConnection`: sequence numbers, replies remembered per request id, gaps, and a
   hello that fails because of one payload that cannot be decoded.
3. Upload composed with ingest: `ExportPipeline` and `GatewayIngest` over the
   acknowledged append, then `IngestWorker` behind them; end to end, a batch behind the
   checkpoint is in Kafka, and a rejected batch blocks those after it.
4. `EndpointPolicy` and the agent's content store: parse, compile, persist, swap; restore
   after a failed write; load after a crash.
5. `Detection`: sequence and correlation rules as state machines (groups, windows,
   eviction at the limits, suppression) against a definition over whole histories.
6. `EnrollmentIssue` and `EnrollmentClient`: one-time tickets, certificates, credential
   files, the identity and enrollment rows.
7. `PolicyAssignment`: assignment rank and effective policy as a pure algorithm.
8. The Tetragon supervisor; rarity and convergence of analytics as pure algorithms.

Theorems planned with them: type correctness, `NoSequenceReuse` and the refinement of
`BatchLog` for `LocalStore`; `CheckpointCovered` and `UploadGapFree` for one identity;
the end-to-end statement of item 3; the bounds of the detection engine's tables.

## Running

    tlc -config MCTelemetryPipeline.cfg MCTelemetryPipeline
    tlapm TelemetryPipelineProofs.tla

Every configuration is named after its MC module, with a suffix for a variant.
