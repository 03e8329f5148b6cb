----------------------------- MODULE LocalStore -----------------------------
(***************************************************************************)
(* The agent's local store: batches in append-only segment files, the      *)
(* SQLite rows about them, the steps of SendBatch that write both, reclaim *)
(* of space, and what Open rebuilds after a crash.                         *)
(*                                                                         *)
(* Code: internal/agent/localstore (segment_writer.go, segment_reader.go,  *)
(* capacity.go, cursor.go, checkpoint.go, signals.go, store.go) and        *)
(* localStoreBatchSender of internal/agent/daemon/daemon.go.               *)
(*                                                                         *)
(* A file is a sequence of items: its header, whole records, and "torn"    *)
(* items, what is left of a write that stopped halfway, which make what    *)
(* follows unreadable (its length reaches into what follows).  An offset   *)
(* is an index in it.  Every batch has one event and one signal, both with the   *)
(* batch's sequence number; boot tells apart batches of two process lives  *)
(* (their batch ids are time stamps).  One statement is one atomic step.   *)
(***************************************************************************)
EXTENDS Naturals, Sequences, FiniteSets, FiniteSetsExt, SequencesExt

CONSTANTS
  SegmentSize,     \* items a segment takes, its header included
  SignalMaxCount,  \* signals PruneSignals keeps
  Reclaims,        \* is EnforceCapacity called
  Seals,           \* is the public Seal called
  Faults,          \* what can fail: "db", "io", "short" (write), "power"
  MaxSeq, MaxSegments, MaxCrashes, MaxFaults   \* bounds

ASSUME LocalStoreAssumption ==
  /\ SegmentSize \in Nat \ {0} /\ SignalMaxCount \in Nat \ {0}
  /\ Reclaims \in BOOLEAN /\ Seals \in BOOLEAN
  /\ Faults \subseteq {"db", "io", "short", "power"}
  /\ MaxSeq \in Nat /\ MaxSegments \in Nat /\ MaxCrashes \in Nat /\ MaxFaults \in Nat

VARIABLES
  mode,       \* "up", "down", or "refused": Open returned an error
  file,       \* file[id]: ext, items, how many of them are synced
  row,        \* row[id] of the table segments
  writer,     \* Store.writer, id 0 for nil
  opening,    \* the id ensureWriter is creating a segment for
  positions,  \* Store.batchPositions
  pc,         \* where the running AppendBatch / SendBatch is
  sealer,     \* where a call of the public Seal is
  hand,       \* <<batch>> the sender is delivering, or <<>>
  seq,        \* last sequence number the agent gave out (memory)
  cursor,     \* Store.cursor (memory)
  savedCursor,\* sequence_cursor row
  signals,    \* signals table
  ckpt,       \* upload_checkpoint row: position <<segment, offset>>
  reclaim,    \* the running EnforceCapacity
  dropped,    \* dropped_batches_storage
  acked,      \* batches SendBatch reported as stored
  uploaded,   \* batches the exporter had acknowledged
  boot, faults

diskVars == <<file, row>>
memVars == <<writer, opening, positions, pc, sealer, hand, seq, cursor>>
ghosts == <<acked, uploaded>>
bounds == <<boot, faults>>
vars == <<mode, diskVars, memVars, savedCursor, signals, ckpt, reclaim, dropped, ghosts, bounds>>

Segments == 1 .. MaxSegments
Batch == [seq : 1 .. MaxSeq, boot : 0 .. MaxCrashes]
NoBatch == [seq |-> 0, boot |-> 0]
Header == [kind |-> "header", batch |-> NoBatch]
Torn == [kind |-> "torn", batch |-> NoBatch]
Rec(b) == [kind |-> "record", batch |-> b]
NoFile == [ext |-> "none", items |-> <<>>, synced |-> 0]
NoRow == [state |-> "none", count |-> 0]
NoWriter == [id |-> 0, records |-> 0, size |-> 0, closed |-> FALSE]
NotReclaiming == [step |-> "idle", todo |-> <<>>, drops |-> 0]

Init ==
  /\ mode = "up" /\ file = [i \in Segments |-> NoFile] /\ row = [i \in Segments |-> NoRow]
  /\ writer = NoWriter /\ opening = 0 /\ positions = {} /\ pc = "idle" /\ sealer = "none" /\ hand = <<>>
  /\ seq = 0 /\ cursor = 0 /\ savedCursor = 0 /\ signals = {} /\ ckpt = <<0, 0>>
  /\ reclaim = NotReclaiming /\ dropped = 0
  /\ acked = {} /\ uploaded = {} /\ boot = 0 /\ faults = 0

Files == {i \in Segments : file[i].ext # "none"}
\* Positions of the whole records, and the batch at a position.
PositionsIn(f) == UNION {{i} \X {n \in DOMAIN f[i].items : f[i].items[n].kind = "record"} : i \in Segments}
Positions == PositionsIn(file)
At(p) == file[p[1]].items[p[2]].batch
Before(p, q) == p[1] < q[1] \/ (p[1] = q[1] /\ p[2] < q[2])

\* A fault of this kind happens now.
Fault(kind) == kind \in Faults /\ faults < MaxFaults /\ faults' = faults + 1

\* SendBatch returns an error: the sender tries again, or gives up.
Fail ==
  /\ pc' = "idle"
  /\ hand' \in {hand, <<>>}

-----------------------------------------------------------------------------
(* SendBatch.                                                              *)

Produce ==
  /\ mode = "up" /\ hand = <<>> /\ seq < MaxSeq
  /\ seq' = seq + 1
  /\ hand' = <<[seq |-> seq + 1, boot |-> boot]>>
  /\ UNCHANGED <<mode, diskVars, writer, opening, positions, pc, sealer, cursor, savedCursor, signals, ckpt,
                 reclaim, dropped, ghosts, bounds>>

Known == \E p \in positions : p.batch = hand[1]

Full == writer.records > 0 /\ writer.size + 1 > SegmentSize

\* AppendBatch up to its first effect: a known batch is stored already.
BeginAppend ==
  /\ mode = "up" /\ pc = "idle" /\ sealer = "none" /\ hand # <<>>
  /\ pc' = IF Known THEN "signals"
           ELSE IF writer.id = 0 THEN "create"
           ELSE IF Full THEN "seal" ELSE "write"
  /\ UNCHANGED <<mode, diskVars, writer, opening, positions, sealer, hand, seq, cursor, savedCursor, signals, ckpt,
                 reclaim, dropped, ghosts, bounds>>

RowIds == {i \in Segments : row[i].state # "none"}

nextSegmentID == Max(RowIds \cup {0}) + 1

\* ensureWriter: the file is created, or opened where a failed attempt left it.
CreateSegment ==
  /\ pc = "create" /\ nextSegmentID \in Segments
  /\ file' = [file EXCEPT ![nextSegmentID] = [@ EXCEPT !.ext = "open"]]
  /\ opening' = nextSegmentID /\ pc' = "header"
  /\ UNCHANGED <<mode, row, writer, positions, sealer, hand, seq, cursor, savedCursor, signals, ckpt,
                 reclaim, dropped, ghosts, bounds>>

Put(i, item) == file' = [file EXCEPT ![i] = [@ EXCEPT !.items = Append(@, item)]]

WriteHeader ==
  /\ pc = "header"
  /\ \/ /\ Put(opening, Header)
        /\ writer' = [id |-> opening, records |-> 0, size |-> 1, closed |-> FALSE]
        /\ pc' = "insert"
        /\ UNCHANGED <<hand, faults>>
     \/ /\ Fault("short") /\ Fail
        /\ Put(opening, Torn)
        /\ UNCHANGED writer
  /\ UNCHANGED <<mode, row, opening, positions, sealer, seq, cursor, savedCursor, signals, ckpt,
                 reclaim, dropped, ghosts, boot>>

\* upsertSegment for the writer's segment.
upsertSegment(state) ==
  row' = [row EXCEPT ![writer.id] = [state |-> state, count |-> writer.records]]

InsertRow ==
  /\ pc = "insert"
  /\ \/ upsertSegment("open") /\ pc' = "write" /\ UNCHANGED <<hand, faults>>
     \/ Fault("db") /\ Fail /\ UNCHANGED row
  /\ UNCHANGED <<mode, file, writer, opening, positions, sealer, seq, cursor, savedCursor, signals, ckpt,
                 reclaim, dropped, ghosts, boot>>

\* sealLocked: Sync, Close, Rename, ...
FileSealed ==
  /\ ~writer.closed
  /\ file' = [file EXCEPT ![writer.id] = [@ EXCEPT !.ext = "seg", !.synced = Len(file[writer.id].items)]]
  /\ writer' = [writer EXCEPT !.closed = TRUE]
  /\ UNCHANGED faults

\* ... of which Sync fails, and the writer goes on; or Close or Rename, and
\* it is closed for good; Sync always fails on a closed writer.
SealFails ==
  \/ ~writer.closed /\ Fault("io") /\ UNCHANGED <<file, writer>>
  \/ /\ ~writer.closed /\ Fault("io")
     /\ file' = [file EXCEPT ![writer.id] = [@ EXCEPT !.synced = Len(file[writer.id].items)]]
     /\ writer' = [writer EXCEPT !.closed = TRUE]
  \/ writer.closed /\ UNCHANGED <<file, writer, faults>>

SealFile ==
  /\ pc = "seal"
  /\ \/ FileSealed /\ pc' = "sealrow" /\ UNCHANGED hand
     \/ SealFails /\ Fail
  /\ UNCHANGED <<mode, row, opening, positions, sealer, seq, cursor, savedCursor, signals, ckpt,
                 reclaim, dropped, ghosts, boot>>

RowSealed == upsertSegment("sealed") /\ writer' = NoWriter /\ UNCHANGED faults
RowFails == Fault("db") /\ UNCHANGED <<row, writer>>

SealRow ==
  /\ pc = "sealrow"
  /\ \/ RowSealed /\ pc' = "create" /\ UNCHANGED hand
     \/ RowFails /\ Fail
  /\ UNCHANGED <<mode, file, opening, positions, sealer, seq, cursor, savedCursor, signals, ckpt,
                 reclaim, dropped, ghosts, boot>>

\* The public Seal, a call of its own under the mutex of AppendBatch.
Seal ==
  /\ Seals /\ mode = "up" /\ pc \in {"idle", "signals"} /\ sealer = "none" /\ writer.id # 0
  /\ sealer' = "file"
  /\ UNCHANGED <<mode, diskVars, writer, opening, positions, pc, hand, seq, cursor, savedCursor, signals,
                 ckpt, reclaim, dropped, ghosts, bounds>>

SealerFile ==
  /\ sealer = "file"
  /\ \/ FileSealed /\ sealer' = "row"
     \/ SealFails /\ sealer' = "none"
  /\ UNCHANGED <<mode, row, opening, positions, pc, hand, seq, cursor, savedCursor, signals, ckpt,
                 reclaim, dropped, ghosts, boot>>

SealerRow ==
  /\ sealer = "row" /\ sealer' = "none"
  /\ RowSealed \/ RowFails
  /\ UNCHANGED <<mode, file, opening, positions, pc, hand, seq, cursor, savedCursor, signals, ckpt,
                 reclaim, dropped, ghosts, boot>>

WriteRecord ==
  /\ pc = "write"
  /\ \/ /\ ~writer.closed
        /\ Put(writer.id, Rec(hand[1]))
        /\ writer' = [writer EXCEPT !.records = @ + 1, !.size = @ + 1]
        /\ pc' = "upsert" /\ UNCHANGED <<hand, faults>>
     \/ /\ ~writer.closed /\ Fault("short") /\ Fail
        /\ Put(writer.id, Torn) /\ UNCHANGED writer
     \/ writer.closed /\ Fail /\ UNCHANGED <<file, writer, faults>>
  /\ UNCHANGED <<mode, row, opening, positions, sealer, seq, cursor, savedCursor, signals, ckpt,
                 reclaim, dropped, ghosts, boot>>

UpsertRow ==
  /\ pc = "upsert"
  /\ \/ upsertSegment("open") /\ pc' = "cursor" /\ UNCHANGED <<hand, faults>>
     \/ Fault("db") /\ Fail /\ UNCHANGED row
  /\ UNCHANGED <<mode, file, writer, opening, positions, sealer, seq, cursor, savedCursor, signals, ckpt,
                 reclaim, dropped, ghosts, boot>>

\* advanceSequenceCursor, persistSequenceCursor, and the position is known.
PersistCursor ==
  /\ pc = "cursor"
  /\ cursor' = Max({cursor, hand[1].seq})
  /\ \/ /\ savedCursor' = Max({savedCursor, cursor'})
        /\ positions' = positions \cup {[batch |-> hand[1], pos |-> <<writer.id, writer.size>>]}
        /\ pc' = "signals" /\ UNCHANGED <<hand, faults>>
     \/ Fault("db") /\ Fail /\ UNCHANGED <<savedCursor, positions>>
  /\ UNCHANGED <<mode, diskVars, writer, opening, sealer, seq, signals, ckpt, reclaim, dropped, ghosts, boot>>

\* Mutant: a batch is reported as stored whether or not its signals are.
AppendSignalsIgnored ==
  /\ pc = "signals" /\ acked' = acked \cup {hand[1]} /\ hand' = <<>> /\ pc' = "idle"
  /\ \/ signals' = signals \cup {hand[1].seq} /\ UNCHANGED faults
     \/ Fault("db") /\ UNCHANGED signals
  /\ UNCHANGED <<mode, diskVars, writer, opening, positions, sealer, seq, cursor, savedCursor, ckpt,
                 reclaim, dropped, uploaded, boot>>

\* AppendSignals, then SendBatch reports success.
AppendSignals ==
  /\ pc = "signals"
  /\ \/ /\ signals' = signals \cup {hand[1].seq}
        /\ acked' = acked \cup {hand[1]}
        /\ hand' = <<>> /\ pc' = "idle" /\ UNCHANGED faults
     \/ Fault("db") /\ Fail /\ UNCHANGED <<signals, acked>>
  /\ UNCHANGED <<mode, diskVars, writer, opening, positions, sealer, seq, cursor, savedCursor, ckpt,
                 reclaim, dropped, uploaded, boot>>

Sender ==
  \/ Produce \/ BeginAppend \/ CreateSegment \/ WriteHeader \/ InsertRow \/ SealFile \/ SealRow
  \/ WriteRecord \/ UpsertRow \/ PersistCursor \/ AppendSignals
  \/ Seal \/ SealerFile \/ SealerRow

-----------------------------------------------------------------------------
(* ReadBatches and the exporter's use of it; no lock is shared with the    *)
(* writer.                                                                 *)

\* readSegment: the header and every record parse.
Whole(items) ==
  /\ Len(items) > 0 /\ items[1] = Header
  /\ \A n \in 2 .. Len(items) : items[n].kind = "record"

Readable == \A i \in Files : Whole(file[i].items)

\* Mutant: the batch at the checkpoint and the next one are both taken as sent.
AfterSkipping(p) == \E q \in Positions : Before(ckpt, q) /\ Before(q, p)

\* beforeCheckpoint: what the exporter sends next.
After(p) == Before(ckpt, p)

\* The next batch after the checkpoint is acknowledged; then SaveCheckpoint,
\* which may fail or not be reached.
Upload ==
  /\ mode = "up" /\ Readable
  /\ \E p \in Positions :
       /\ After(p) /\ \A q \in Positions : Before(q, p) => ~After(q)
       /\ ckpt' \in {p, ckpt}
       /\ uploaded' = uploaded \cup {At(p)}
  /\ UNCHANGED <<mode, diskVars, memVars, savedCursor, signals, reclaim, dropped, acked, bounds>>

-----------------------------------------------------------------------------
(* EnforceCapacity: no lock; whether the store is over its limits depends  *)
(* on the free space too, so it is not determined here.                    *)

Sealed(sent) == {i \in Segments : row[i].state = "sealed" /\ (ckpt[1] > i) = sent}
Candidate(i, sent) == [id |-> i, count |-> row[i].count, uploaded |-> sent]

\* Uploaded segments first, each group oldest first.
capacityCandidates ==
  LET List(sent) == LET ids == SetToSortSeq(Sealed(sent), <)
                    IN  [k \in DOMAIN ids |-> Candidate(ids[k], sent)]
  IN  List(TRUE) \o List(FALSE)

\* PruneSignals keeps the newest ones.
Newest(S) == {n \in S : Cardinality({k \in S : k > n}) < SignalMaxCount}

ReclaimBegin ==
  /\ Reclaims /\ mode = "up" /\ reclaim.step = "idle"
  /\ signals' = Newest(signals)
  /\ \/ reclaim' = [step |-> "remove", todo |-> capacityCandidates, drops |-> 0]
     \/ UNCHANGED reclaim
  /\ UNCHANGED <<mode, diskVars, memVars, savedCursor, ckpt, dropped, ghosts, bounds>>

\* The file goes; if that fails the call returns without counting anything.
ReclaimRemove ==
  /\ reclaim.step = "remove" /\ reclaim.todo # <<>>
  /\ \/ /\ file' = [file EXCEPT ![Head(reclaim.todo).id] = NoFile]
        /\ reclaim' = [reclaim EXCEPT !.step = "delete"]
        /\ UNCHANGED faults
     \/ Fault("io") /\ reclaim' = NotReclaiming /\ UNCHANGED file
  /\ UNCHANGED <<mode, row, memVars, savedCursor, signals, ckpt, dropped, ghosts, boot>>

Lost(c) == IF c.uploaded THEN 0 ELSE c.count

\* The row goes, or the call returns likewise.
ReclaimDelete ==
  /\ reclaim.step = "delete"
  /\ \/ /\ row' = [row EXCEPT ![Head(reclaim.todo).id] = NoRow]
        /\ \E over \in BOOLEAN :
             reclaim' = [step |-> IF over THEN "remove" ELSE "count", todo |-> Tail(reclaim.todo),
                         drops |-> reclaim.drops + Lost(Head(reclaim.todo))]
        /\ UNCHANGED faults
     \/ Fault("db") /\ reclaim' = NotReclaiming /\ UNCHANGED row
  /\ UNCHANGED <<mode, file, memVars, savedCursor, signals, ckpt, dropped, ghosts, boot>>

\* recordDroppedBatches.
ReclaimCount ==
  /\ \/ reclaim.step = "count"
     \/ reclaim.step = "remove" /\ reclaim.todo = <<>>
  /\ \/ dropped' = dropped + reclaim.drops /\ UNCHANGED faults
     \/ Fault("db") /\ UNCHANGED dropped
  /\ reclaim' = NotReclaiming
  /\ UNCHANGED <<mode, diskVars, memVars, savedCursor, signals, ckpt, ghosts, boot>>

Reclaim == ReclaimBegin \/ ReclaimRemove \/ ReclaimDelete \/ ReclaimCount

-----------------------------------------------------------------------------
(* Crash and Open.                                                         *)

Forget ==
  /\ mode' = "down" /\ writer' = NoWriter /\ opening' = 0 /\ positions' = {} /\ pc' = "idle" /\ sealer' = "none"
  /\ hand' = <<>> /\ seq' = 0 /\ cursor' = 0 /\ reclaim' = NotReclaiming

\* The process dies; a write it was in may have been done in part.
Crash ==
  /\ mode = "up" /\ boot < MaxCrashes /\ boot' = boot + 1
  /\ Forget
  /\ \/ UNCHANGED file
     \/ pc = "header" /\ Put(opening, Torn)
     \/ pc = "write" /\ ~writer.closed /\ Put(writer.id, Torn)
  /\ UNCHANGED <<row, savedCursor, signals, ckpt, dropped, ghosts, faults>>

\* The machine loses power: only synced items are sure to be there.
PowerLoss ==
  /\ mode = "up" /\ boot < MaxCrashes /\ boot' = boot + 1
  /\ Fault("power") /\ Forget
  /\ \E i \in Files :
       \E n \in file[i].synced .. Len(file[i].items) :
         file' = [file EXCEPT ![i] = [@ EXCEPT !.items = SubSeq(@, 1, n)]]
  /\ UNCHANGED <<row, savedCursor, signals, ckpt, dropped, ghosts>>

TornAt(i) == {n \in 2 .. Len(file[i].items) : file[i].items[n] = Torn}

\* Mutant: the open segment is cut back to its header.
TruncatedToHeader(i, inside) ==
  IF file[i].ext = "open" /\ TornAt(i) # {} THEN [file[i] EXCEPT !.items = <<Header>>] ELSE file[i]

\* readRecords on a torn record of the open segment: if the length it states
\* reaches beyond the end of the file, the file is cut there; if not (i is in
\* inside, and records follow) its checksum is wrong and it stays.
Truncated(i, inside) ==
  IF \/ file[i].ext # "open" \/ TornAt(i) = {}
     \/ i \in inside /\ Min(TornAt(i)) < Len(file[i].items)
  THEN file[i]
  ELSE [file[i] EXCEPT !.items = SubSeq(@, 1, Min(TornAt(i)) - 1)]

OpenFiles == {i \in Files : file[i].ext = "open"}

\* Files recoverSegments stops at: one that does not parse, a second open one.
Unreadable(inside) == {i \in Files : ~Whole(Truncated(i, inside).items)}
Stops(inside) == Unreadable(inside) \cup {i \in OpenFiles : \E j \in OpenFiles : j < i}

\* The files it has read by then, in the order of their names.
ReadFiles(inside) == {i \in Files \ Unreadable(inside) : \A j \in Stops(inside) : i <= j}
Recovered(inside) == [i \in Segments |-> IF i \in ReadFiles(inside) THEN Truncated(i, inside) ELSE file[i]]

\* Mutant: the cursor is rebuilt from the segment files alone.
RecoveredCursorFiles(f) == Max({0} \cup {f[p[1]].items[p[2]].batch.seq : p \in PositionsIn(f)})

\* loadSequenceCursor, then every record read advances it.
RecoveredCursor(f) == Max({savedCursor} \cup {f[p[1]].items[p[2]].batch.seq : p \in PositionsIn(f)})

\* Mutant: the sealed segments are left alone.
ReconciledOpenOnly(f, done) == [i \in Segments |->
  IF i \in done \cap OpenFiles THEN [state |-> "open", count |-> Len(f[i].items) - 1] ELSE row[i]]

\* reconcileSegment: the row of every file read; rows without a file stay.
Reconciled(f, done) == [i \in Segments |->
  IF i \in done
  THEN [state |-> IF f[i].ext = "open" THEN "open" ELSE "sealed", count |-> Len(f[i].items) - 1]
  ELSE row[i]]

\* Mutant: the record count of the recovered segment is left at zero.
RecoveredWriterUncounted(f) ==
  IF OpenFiles = {} THEN NoWriter
  ELSE LET i == CHOOSE i \in OpenFiles : TRUE
       IN  [id |-> i, records |-> 0, size |-> Len(f[i].items), closed |-> FALSE]

\* openRecoveredWriter.
RecoveredWriter(f) ==
  IF OpenFiles = {} THEN NoWriter
  ELSE LET i == CHOOSE i \in OpenFiles : TRUE
       IN  [id |-> i, records |-> Len(f[i].items) - 1, size |-> Len(f[i].items), closed |-> FALSE]

\* Open recovers the store, or returns an error with part of it recovered.
Open ==
  /\ mode = "down"
  /\ \E inside \in SUBSET OpenFiles :
       LET f == Recovered(inside)
       IN  /\ file' = f
           /\ row' = Reconciled(f, ReadFiles(inside))
           /\ \/ /\ Stops(inside) = {} /\ mode' = "up"
                 /\ writer' = RecoveredWriter(f)
                 /\ positions' = {[batch |-> f[p[1]].items[p[2]].batch, pos |-> p] : p \in PositionsIn(f)}
                 /\ cursor' = RecoveredCursor(f) /\ savedCursor' = cursor' /\ seq' = cursor'
              \/ /\ Stops(inside) # {} /\ mode' = "refused"
                 /\ UNCHANGED <<writer, positions, cursor, savedCursor, seq>>
  /\ UNCHANGED <<opening, pc, sealer, hand, signals, ckpt, reclaim, dropped, ghosts, bounds>>

Next == Sender \/ Upload \/ Reclaim \/ Crash \/ PowerLoss \/ Open

Spec == Init /\ [][Next]_vars

-----------------------------------------------------------------------------
(* Properties.                                                             *)

\* The state has its types (segment_writer.go, store.go).
TypeOK ==
  /\ mode \in {"up", "down", "refused"}
  /\ \A i \in Segments :
       /\ file[i].ext \in {"none", "open", "seg"} /\ file[i].synced \in 0 .. Len(file[i].items)
       /\ row[i].state \in {"none", "open", "sealed"} /\ row[i].count \in Nat
  /\ writer.id \in 0 .. MaxSegments /\ writer.size = (IF writer.id = 0 THEN 0 ELSE writer.records + 1)
  /\ \A p \in positions : p.batch \in Batch
  /\ pc \in {"idle", "create", "header", "insert", "seal", "sealrow", "write", "upsert", "cursor", "signals"}
  /\ sealer \in {"none", "file", "row"}
  /\ hand \in {<<>>} \cup {<<b>> : b \in Batch}
  /\ seq \in 0 .. MaxSeq /\ cursor \in 0 .. MaxSeq /\ savedCursor \in 0 .. MaxSeq
  /\ signals \subseteq 1 .. MaxSeq /\ acked \subseteq Batch /\ uploaded \subseteq Batch

\* Records ReadBatches and Open get at: nothing before them in the file is torn.
Intact(p) == Whole(SubSeq(file[p[1]].items, 1, p[2]))
Missing == {b \in acked \ uploaded : ~\E p \in Positions : At(p) = b /\ Intact(p)}
CountOf(i) == IF file[i].ext = "none" THEN row[i].count ELSE 0
Uncounted == reclaim.drops + FoldSet(LAMBDA i, n : n + CountOf(i), 0, Segments)

\* A batch SendBatch reported as stored can be read back, was uploaded, or is
\* among those counted as dropped (a reclaim that is under way, or a row left
\* without its file, is still to be counted).
LossAccounted == Cardinality(Missing) <= dropped + Uncounted

\* What lies at or before the checkpoint was acknowledged: beforeCheckpoint
\* never passes over a batch that has not been uploaded.
CheckpointSound == \A p \in Positions : Before(ckpt, p) \/ At(p) \in uploaded

\* No sequence number is given to two stored batches, whatever crash or reclaim
\* came in between (loadSequenceCursor and advanceSequenceCursor on recovery).
NoSequenceReuse ==
  \A p, q \in {At(r) : r \in Positions} \cup acked : p.seq = q.seq => p = q

\* A reported batch has its signals in the table, or newer ones pushed them out
\* (SendBatch retried after AppendSignals failed).
SignalsKept ==
  \A b \in acked : b.seq \in signals \/ Cardinality({n \in signals : n > b.seq}) >= SignalMaxCount

\* No crash leaves the agent with a store that Open refuses.
Restartable == mode # "refused"

\* While the agent runs, the row of every sealed file says so and counts its
\* records, whatever statement failed before: the one exception is the file
\* the writer still holds, whose row upsertSegment has yet to write.  So
\* capacityCandidates counts what the files hold.
RowsMatchFiles ==
  mode = "up" =>
    \A i \in Files \ OpenFiles :
      i # writer.id => row[i] = [state |-> "sealed", count |-> Len(file[i].items) - 1]

RecordsOf(i) ==
  LET items == Truncated(i, {}).items IN [n \in 1 .. Len(items) - 1 |-> items[n + 1].batch]
Contents == FlattenSeq([i \in Segments |-> RecordsOf(i)])
Covered == Cardinality({p \in Positions : ~Before(ckpt, p)})

\* The store is the append-only log the export pipeline takes it for.
Log == INSTANCE BatchLog WITH Batches <- Batch, log <- Contents, stored <- acked, mark <- Covered
IsBatchLog == Log!LogSpec
====
