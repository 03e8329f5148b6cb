--------------------------- MODULE ExportPipeline ---------------------------
(***************************************************************************)
(* Upload of the agent's local log to the cloud: the enrollment handlers   *)
(* that decide who uploads and from where, the network supervisor, and the *)
(* export pipeline goroutine of each enrollment, which reads the log from  *)
(* the enrollment boundary, sends what is its own and moves a checkpoint.  *)
(*                                                                         *)
(* Code: internal/agent/daemon/export_pipeline.go, exporter.go,            *)
(* network_supervisor.go, enrollment_control.go, runtime_identity.go;      *)
(* localstore/checkpoint.go, enrollment.go, cursor.go, ReadBatches.        *)
(*                                                                         *)
(* A batch is its header: the identity, the kind (a batch with events, or  *)
(* one with signals only) and the sequence number ReadBatches filters on.  *)
(* A log position (segment, offset) is the index in the log; the order of  *)
(* positions is the order of appends.  An era numbers the enrollments.     *)
(***************************************************************************)
EXTENDS Naturals, Sequences, FiniteSets

CONSTANTS
  Owners,       \* cloud identities (tenant, agent) a certificate can name
  Standalone,   \* the local identity
  Kinds,        \* kinds of batches produced: "event", "signal"
  Handlers,     \* local control requests that can be served at once
  Histories,    \* values of upload_history an operator uses
  Reenroll,     \* do operators enroll an agent that is managed
  ReadLimit,    \* ReadOptions.Limit
  MaxLog,       \* bound: batches produced
  MaxEras,      \* bound: enrollments
  MaxCrashes    \* bound: process crashes

ASSUME ExportAssumption ==
  /\ Standalone \notin Owners
  /\ Kinds \subseteq {"event", "signal"}
  /\ Histories \subseteq BOOLEAN /\ Reenroll \in BOOLEAN
  /\ ReadLimit \in Nat \ {0}
  /\ MaxLog \in Nat /\ MaxEras \in Nat /\ MaxCrashes \in Nat

VARIABLES
  eventSeq, signalSeq,  \* last sequence numbers given out (memory)
  identity,    \* AgentRuntime.identity and the era that set it
  pipe,        \* batches between the Batcher and the store (memory)
  log,         \* batches in the segment files
  cursor,      \* sequence_cursor row
  enrollment,  \* enrollment row
  op,          \* op[h]: what the handler h is about to do
  live,        \* era whose network the supervisor holds, 0 for none
  exp,         \* exp[k]: the export pipeline goroutine of era k
  ckpt,        \* upload checkpoint row, 0 for none
  cloud,       \* <<k, n>>: batch n reached the Gateway, sent by exporter k
  eras, crashes

agentVars == <<eventSeq, signalSeq, identity, pipe>>
storeVars == <<log, cursor>>
bounds == <<eras, crashes>>
vars == <<agentVars, storeVars, enrollment, op, live, exp, ckpt, cloud, bounds>>

Eras == 1 .. MaxEras
Identity == [owner : Owners \cup {Standalone}, era : 0 .. MaxEras]
Record == [owner : Owners \cup {Standalone}, era : 0 .. MaxEras, kind : {"event", "signal"}, seq : Nat]
Enrollment == [managed : BOOLEAN, owner : Owners \cup {Standalone}, era : 0 .. MaxEras,
               from : Nat, history : BOOLEAN]
LocalMode == [managed |-> FALSE, owner |-> Standalone, era |-> 0, from |-> 0, history |-> FALSE]
LocalIdentity == [owner |-> Standalone, era |-> 0]
Idle == [step |-> "idle", en |-> LocalMode]
NoExporter == [state |-> "off", owner |-> Standalone, from |-> 0, pos |-> 0, window |-> {}, base |-> 0]

Init ==
  /\ eventSeq = 0 /\ signalSeq = 0 /\ identity = LocalIdentity
  /\ pipe = <<>> /\ log = <<>> /\ cursor = [event |-> 0, signal |-> 0]
  /\ enrollment = LocalMode /\ op = [h \in Handlers |-> Idle]
  /\ live = 0 /\ exp = [k \in Eras |-> NoExporter]
  /\ ckpt = 0 /\ cloud = {} /\ eras = 0 /\ crashes = 0

-----------------------------------------------------------------------------
(* Production and storage of batches.                                      *)

\* newDataBatch stamps the identity of the moment.  A batch of signals only
\* has no event sequence, so batchSequence falls back to the signal one.
Produce(kind) ==
  /\ Len(log) + Len(pipe) < MaxLog
  /\ pipe = <<>>
  /\ \/ /\ kind = "event"
        /\ eventSeq' = eventSeq + 1 /\ UNCHANGED signalSeq
        /\ pipe' = Append(pipe, [owner |-> identity.owner, era |-> identity.era,
                                 kind |-> kind, seq |-> eventSeq + 1])
     \/ /\ kind = "signal"
        /\ signalSeq' = signalSeq + 1 /\ UNCHANGED eventSeq
        /\ pipe' = Append(pipe, [owner |-> identity.owner, era |-> identity.era,
                                 kind |-> kind, seq |-> signalSeq + 1])
  /\ UNCHANGED <<identity, storeVars, enrollment, op, live, exp, ckpt, cloud, bounds>>

\* AppendBatch, with the sequence cursor it persists.
Store ==
  /\ pipe # <<>>
  /\ log' = Append(log, Head(pipe))
  /\ cursor' = [cursor EXCEPT ![Head(pipe).kind] = Head(pipe).seq]
  /\ pipe' = <<>>
  /\ UNCHANGED <<eventSeq, signalSeq, identity, enrollment, op, live, exp, ckpt, cloud, bounds>>

-----------------------------------------------------------------------------
(* Enrollment handlers.  The steps of one handler are not under a lock.    *)

\* Mutant: the boundary is one off.
BoundaryOffByOne(history) == cursor.event - 1

\* Stats: the boundary is after the last stored event, or the oldest one.
Boundary(history) ==
  IF history THEN IF log = <<>> THEN 0 ELSE log[1].seq
             ELSE cursor.event + 1

\* Enroll does not look at the enrollment in force.
EnrollStats(h, o, history) ==
  /\ op[h].step = "idle" /\ eras < MaxEras
  /\ eras' = eras + 1
  /\ op' = [op EXCEPT ![h] = [step |-> "persist",
             en |-> [managed |-> TRUE, owner |-> o, era |-> eras + 1,
                     from |-> Boundary(history), history |-> history]]]
  /\ UNCHANGED <<agentVars, storeVars, enrollment, live, exp, ckpt, cloud, crashes>>

\* SetManaged commits, or fails and the request is answered "rejected".
EnrollPersist(h) ==
  /\ op[h].step = "persist"
  /\ \/ /\ enrollment' = op[h].en
        /\ op' = [op EXCEPT ![h] = [@ EXCEPT !.step = "identity"]]
     \/ /\ op' = [op EXCEPT ![h] = Idle]
        /\ UNCHANGED enrollment
  /\ UNCHANGED <<agentVars, storeVars, live, exp, ckpt, cloud, bounds>>

EnrollIdentity(h) ==
  /\ op[h].step = "identity"
  /\ identity' = [owner |-> op[h].en.owner, era |-> op[h].en.era]
  /\ op' = [op EXCEPT ![h] = [@ EXCEPT !.step = "start"]]
  /\ UNCHANGED <<eventSeq, signalSeq, pipe, storeVars, enrollment, live, exp, ckpt, cloud, bounds>>

\* base, a history variable, is the checkpoint the pipeline starts with.
Started(en) ==
  [state |-> "idle", owner |-> en.owner, from |-> en.from, pos |-> 0, window |-> {}, base |-> ckpt]

\* networkSupervisor.ApplyEnrollment: cancel the old network, start the new
\* one.  (It keeps the old one for an equal enrollment, but each enrollment
\* has credential files of its own, whose paths are compared too.)
EnrollStart(h) ==
  /\ op[h].step = "start"
  /\ live' = op[h].en.era
  /\ exp' = [exp EXCEPT ![op[h].en.era] = Started(op[h].en)]
  /\ op' = [op EXCEPT ![h] = Idle]
  /\ UNCHANGED <<agentVars, storeVars, enrollment, ckpt, cloud, bounds>>

\* Unenroll, of a standalone agent too: SetStandalone, StopManaged, identity.
UnenrollPersist(h) ==
  /\ op[h].step = "idle"
  /\ enrollment' = LocalMode
  /\ op' = [op EXCEPT ![h] = [@ EXCEPT !.step = "stop"]]
  /\ UNCHANGED <<agentVars, storeVars, live, exp, ckpt, cloud, bounds>>

UnenrollStop(h) ==
  /\ op[h].step = "stop"
  /\ live' = 0
  /\ op' = [op EXCEPT ![h] = [@ EXCEPT !.step = "restore"]]
  /\ UNCHANGED <<agentVars, storeVars, enrollment, exp, ckpt, cloud, bounds>>

UnenrollIdentity(h) ==
  /\ op[h].step = "restore"
  /\ identity' = LocalIdentity
  /\ op' = [op EXCEPT ![h] = Idle]
  /\ UNCHANGED <<eventSeq, signalSeq, pipe, storeVars, enrollment, live, exp, ckpt, cloud, bounds>>

\* The requests that arrive: unless Reenroll, operators unenroll an agent
\* before they enroll it again (nothing in the code makes them).
HandlerNext(h) ==
  \/ /\ Reenroll \/ ~enrollment.managed
     /\ \E o \in Owners, history \in Histories : EnrollStats(h, o, history)
  \/ EnrollPersist(h) \/ EnrollIdentity(h) \/ EnrollStart(h)
  \/ UnenrollPersist(h) \/ UnenrollStop(h) \/ UnenrollIdentity(h)

-----------------------------------------------------------------------------
(* The export pipeline of era k.  Its context is cancelled when k # live.  *)

\* Mutant: the pipeline is not bound to its enrollment's context.
NeverCancelled(k) == FALSE

Cancelled(k) == k # live

\* ReadBatches scans the log from its start, keeps the batches from the
\* boundary on, and stops when it has ReadLimit of them.
InRange(from) == {n \in 1 .. Len(log) : log[n].seq >= from}
Scanned(from, n) == {m \in InRange(from) : m <= n}
ReadBatches(from, w) ==
  /\ \E n \in 0 .. Len(log) : w = Scanned(from, n)
  /\ Cardinality(w) <= ReadLimit
  /\ w = InRange(from) \/ Cardinality(w) = ReadLimit

\* beforeCheckpoint is strict: the checkpointed batch itself is read again.
FirstPosition == IF ckpt = 0 THEN 1 ELSE ckpt

\* exportAvailable reads the checkpoint, ...
Poll(k) ==
  /\ exp[k].state = "idle" /\ ~Cancelled(k)
  /\ exp' = [exp EXCEPT ![k] = [@ EXCEPT !.state = "read", !.pos = FirstPosition]]
  /\ UNCHANGED <<agentVars, storeVars, enrollment, op, live, ckpt, cloud, bounds>>

\* Mutant: the batches are not taken in the order of the log.
IsNextAny(k, n) == n \in {m \in exp[k].window : m >= exp[k].pos}

\* Mutant: the boundary itself is excluded.
TodoStrict(k) == {n \in exp[k].window : n >= exp[k].pos /\ log[n].seq > exp[k].from}

Todo(k) == {n \in exp[k].window : n >= exp[k].pos}
IsNext(k, n) == n \in Todo(k) /\ \A m \in Todo(k) : n <= m
Own(k, n) == log[n].owner = exp[k].owner

\* exportAvailable returns; Run leaves its loop if the context is done.
Return(k) ==
  exp' = [exp EXCEPT ![k] = IF Cancelled(k) THEN NoExporter
                            ELSE [@ EXCEPT !.state = "idle", !.pos = 0, !.window = {}]]

\* ... then the batches, or one of the two reads fails.
ReadWindow(k) ==
  /\ exp[k].state = "read"
  /\ \E w \in SUBSET (1 .. Len(log)) :
       /\ ReadBatches(exp[k].from, w)
       /\ exp' = [exp EXCEPT ![k] = [@ EXCEPT !.state = "walk", !.window = w]]
  /\ UNCHANGED <<agentVars, storeVars, enrollment, op, live, ckpt, cloud, bounds>>

ReadFailed(k) ==
  /\ exp[k].state = "read"
  /\ Return(k)
  /\ UNCHANGED <<agentVars, storeVars, enrollment, op, live, ckpt, cloud, bounds>>

CycleDone(k) ==
  /\ exp[k].state = "walk" /\ Todo(k) = {}
  /\ Return(k)
  /\ UNCHANGED <<agentVars, storeVars, enrollment, op, live, ckpt, cloud, bounds>>

\* SaveCheckpoint runs under the pipeline's context: cancelled, it fails.
SaveCheckpoint(k, n) ==
  \/ /\ ~Cancelled(k)
     /\ ckpt' = n
     /\ exp' = [exp EXCEPT ![k] = [@ EXCEPT !.state = "walk", !.pos = n + 1]]
  \/ /\ Return(k)
     /\ UNCHANGED ckpt

SkipForeign(k) ==
  /\ exp[k].state = "walk"
  /\ \E n \in Todo(k) : IsNext(k, n) /\ ~Own(k, n) /\ SaveCheckpoint(k, n)
  /\ UNCHANGED <<agentVars, storeVars, enrollment, op, live, cloud, bounds>>

BeginExport(k) ==
  /\ exp[k].state = "walk"
  /\ \E n \in Todo(k) : /\ IsNext(k, n) /\ Own(k, n)
                        /\ exp' = [exp EXCEPT ![k] = [@ EXCEPT !.state = "send", !.pos = n]]
  /\ UNCHANGED <<agentVars, storeVars, enrollment, op, live, ckpt, cloud, bounds>>

\* SendBatch takes no context.  The batch arrives and is acknowledged
\* (accepted or duplicate), ...
Acknowledged(k) ==
  /\ exp[k].state = "send"
  /\ cloud' = cloud \cup {<<k, exp[k].pos>>}
  /\ exp' = [exp EXCEPT ![k] = [@ EXCEPT !.state = "save"]]
  /\ UNCHANGED <<agentVars, storeVars, enrollment, op, live, ckpt, bounds>>

\* Mutant: a batch that was not committed is checkpointed all the same.
ExportFailedSaved(k) ==
  /\ exp[k].state = "send"
  /\ exp' = [exp EXCEPT ![k] = [@ EXCEPT !.state = "save"]]
  /\ UNCHANGED <<agentVars, storeVars, enrollment, op, live, ckpt, cloud, bounds>>

\* Mutant: a failed batch is left for the next cycle and the walk goes on.
ExportFailedContinues(k) ==
  /\ exp[k].state = "send"
  /\ exp' = [exp EXCEPT ![k] = [@ EXCEPT !.state = "walk", !.pos = exp[k].pos + 1]]
  /\ UNCHANGED <<agentVars, storeVars, enrollment, op, live, ckpt, cloud, bounds>>

\* ... or the answer is an error, a retryable or a terminal ack, or is lost
\* on the way back.
ExportFailed(k) ==
  /\ exp[k].state = "send"
  /\ cloud' \in {cloud, cloud \cup {<<k, exp[k].pos>>}}
  /\ Return(k)
  /\ UNCHANGED <<agentVars, storeVars, enrollment, op, live, ckpt, bounds>>

Save(k) ==
  /\ exp[k].state = "save"
  /\ SaveCheckpoint(k, exp[k].pos)
  /\ UNCHANGED <<agentVars, storeVars, enrollment, op, live, cloud, bounds>>

\* Run wakes from its timer and finds the context cancelled.
Exit(k) ==
  /\ exp[k].state = "idle" /\ Cancelled(k)
  /\ exp' = [exp EXCEPT ![k] = NoExporter]
  /\ UNCHANGED <<agentVars, storeVars, enrollment, op, live, ckpt, cloud, bounds>>

ExporterNext(k) ==
  \/ Poll(k) \/ ReadWindow(k) \/ ReadFailed(k) \/ CycleDone(k) \/ SkipForeign(k) \/ BeginExport(k)
  \/ Acknowledged(k) \/ ExportFailed(k) \/ Save(k) \/ Exit(k)

-----------------------------------------------------------------------------
\* The process dies and starts again: memory is gone, the sequence numbers
\* resume from the stored cursor, and Run applies the enrollment row.
Restart ==
  /\ crashes < MaxCrashes /\ crashes' = crashes + 1
  /\ eventSeq' = cursor.event /\ signalSeq' = cursor.signal
  /\ identity' = [owner |-> enrollment.owner, era |-> enrollment.era]
  /\ pipe' = <<>>
  /\ op' = [h \in Handlers |-> Idle]
  /\ live' = enrollment.era
  /\ exp' = [k \in Eras |-> IF k = enrollment.era THEN Started(enrollment) ELSE NoExporter]
  /\ UNCHANGED <<storeVars, enrollment, ckpt, cloud, eras>>

Next ==
  \/ \E kind \in Kinds : Produce(kind)
  \/ Store
  \/ \E h \in Handlers : HandlerNext(h)
  \/ \E k \in Eras : ExporterNext(k)
  \/ Restart

Spec == Init /\ [][Next]_vars

\* Goroutines run, and a reachable Gateway and a working database answer in
\* the end: no batch fails to be sent for ever, no checkpoint to be written,
\* no read of the log to succeed.
Fairness ==
  /\ WF_vars(Store)
  /\ \A k \in Eras :
       /\ WF_vars(Poll(k)) /\ SF_vars(ReadWindow(k))
       /\ WF_vars(CycleDone(k)) /\ WF_vars(BeginExport(k))
       /\ \A n \in 1 .. MaxLog :
            /\ SF_vars(Acknowledged(k) /\ exp[k].pos = n)
            /\ SF_vars((SkipForeign(k) \/ Save(k)) /\ exp'[k].state = "walk" /\ ckpt' = n)
  /\ \A h \in Handlers : WF_vars(EnrollPersist(h) \/ EnrollIdentity(h) \/ EnrollStart(h)
                                 \/ UnenrollStop(h) \/ UnenrollIdentity(h))

FairSpec == Spec /\ Fairness

-----------------------------------------------------------------------------
(* Properties                                                              *)

\* Type invariant of the upload state.
TypeOK ==
  /\ eventSeq \in Nat /\ signalSeq \in Nat /\ identity \in Identity
  /\ pipe \in Seq(Record) /\ log \in Seq(Record)
  /\ cursor \in [{"event", "signal"} -> Nat]
  /\ enrollment \in Enrollment
  /\ op \in [Handlers -> [step : {"idle", "persist", "identity", "start", "stop", "restore"},
                          en : Enrollment]]
  /\ live \in 0 .. MaxEras
  /\ exp \in [Eras -> [state : {"off", "idle", "read", "walk", "send", "save"},
                       owner : Owners \cup {Standalone}, from : Nat, pos : Nat,
                       window : SUBSET Nat, base : Nat]]
  /\ ckpt \in Nat
  /\ \A u \in cloud : u[1] \in Eras /\ u[2] \in Nat
  /\ eras \in 0 .. MaxEras /\ crashes \in Nat

Uploaded(n) == \E k \in Eras : <<k, n>> \in cloud

\* Event batches produced under the enrollment of era k.
Due(k, n) == n \in 1 .. Len(log) /\ log[n].era = k /\ log[n].kind = "event"

\* The checkpoint never passes, nor rests on, an event batch the present
\* enrollment has to upload and that has not reached the Gateway: not when
\* an ack is lost, another identity's batch is skipped, the enrollment
\* changes hands, an old pipeline lingers or the agent crashes.
CheckpointCovered ==
  \A n \in 1 .. ckpt : enrollment.managed /\ Due(enrollment.era, n) => Uploaded(n)

\* Since it started, the running pipeline has moved the checkpoint over no
\* batch that was its to send, one of its identity at or after its boundary,
\* unless the batch reached the Gateway by its hand.  It is so whatever the
\* operators do: other requests at the same time, enrolling over an
\* enrollment, uploading the history.
CheckpointEarned ==
  live # 0 =>
    \A n \in exp[live].base + 1 .. ckpt :
      Own(live, n) /\ log[n].seq >= exp[live].from => <<live, n>> \in cloud

\* An enrollment's event batches reach the Gateway without a gap.
UploadGapFree ==
  \A u \in cloud : \A m \in 1 .. u[2] :
    Due(u[1], u[2]) /\ Due(u[1], m) => Uploaded(m)

\* The checkpoint never moves back, in particular not by the hand of a
\* pipeline whose enrollment is over.
CheckpointMonotonic == [][ckpt' >= ckpt]_ckpt

\* A stored event batch of an enrollment reaches the Gateway if the agent
\* stays enrolled: the network may fail, but not for ever.
EventsUploaded ==
  \A k \in Eras, n \in 1 .. MaxLog :
    (Due(k, n) /\ enrollment.era = k) ~> (Uploaded(n) \/ enrollment.era # k)

\* agent-management.md: what is generated after the boundary is uploaded,
\* signal-only batches (tamper signals) included.
SignalsCovered ==
  \A n \in 1 .. ckpt : enrollment.managed /\ log[n].era = enrollment.era => Uploaded(n)

\* architecture.md: only an acknowledgement moves the checkpoint, so nothing
\* the present enrollment produced lies behind it without one.
NothingLeftBehind ==
  \A n \in 1 .. ckpt : n < ckpt /\ enrollment.managed /\ Due(enrollment.era, n) => Uploaded(n)

\* sysarmorctl: --upload-history uploads the history created before.
HistoryCovered ==
  \A n \in 1 .. ckpt : enrollment.history /\ log[n].seq >= enrollment.from => Uploaded(n)

\* architecture.md: a standalone agent is not connected to the cloud (once
\* the requests that change its mode are answered).
StandaloneIsOffline ==
  (~enrollment.managed /\ \A h \in Handlers : op[h].step = "idle") => live = 0
=============================================================================
