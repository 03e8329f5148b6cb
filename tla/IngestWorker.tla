---------------------------- MODULE IngestWorker ----------------------------
(***************************************************************************)
(* The ingest Worker: fetch from the raw topic, projection together with   *)
(* the history of the scope, dead letters, commit of the offset.           *)
(*                                                                         *)
(* Code: internal/workers/ingest, the consumer of internal/platform/kafka, *)
(* internal/platform/opensearch.                                           *)
(*                                                                         *)
(* A batch is a number, the time of its newest event.  The topic has one   *)
(* partition (ensureTopic); the Gateway appends batches in any order and   *)
(* more than once (GatewayIngest).  All batches are in one analysis scope, *)
(* so there is one Incident document; the batches it was computed from     *)
(* stand for its content.                                                  *)
(***************************************************************************)
EXTENDS Integers, Sequences, FiniteSets

CONSTANTS
  Workers, NoWorker,     \* consumers of the group
  Malformed,             \* batches with an unsupported schema version
  RefreshLag,            \* are written documents searchable only after a refresh
  Window,                \* the history window
  Attempts,              \* attempts of processWithRetry
  MaxBatch, MaxKafka     \* bounds

Batches == 1 .. MaxBatch

ASSUME WorkerAssumption ==
  /\ NoWorker \notin Workers
  /\ Malformed \subseteq Batches /\ RefreshLag \in BOOLEAN
  /\ Window \in Nat /\ Attempts \in Nat \ {0}
  /\ MaxBatch \in Nat /\ MaxKafka \in Nat

VARIABLES
  kafka,       \* the raw topic
  owner,       \* worker the partition is assigned to
  committed,   \* committed offset of the group
  next,        \* per worker: messages its reader has delivered or skipped
  wstep, at, try, derived,    \* per worker: Run, and the message in its hands
  docs,        \* batches whose Event documents are indexed
  searchable,  \* the ones a search finds
  incident,    \* batches the Incident document was computed from
  dlq          \* batches in the dead letter topic

workerVars == <<owner, next, wstep, at, try, derived>>
indexVars == <<docs, searchable, incident>>
vars == <<kafka, workerVars, committed, indexVars, dlq>>

Init ==
  /\ kafka = <<>> /\ owner = NoWorker /\ committed = 0
  /\ wstep = [w \in Workers |-> "down"] /\ at = [w \in Workers |-> 0] /\ next = [w \in Workers |-> 0]
  /\ try = [w \in Workers |-> 0] /\ derived = [w \in Workers |-> {}]
  /\ docs = {} /\ searchable = {} /\ incident = {} /\ dlq = {}

-----------------------------------------------------------------------------
\* The Gateway appends a batch, or a batch once more.
Produce ==
  /\ Len(kafka) < MaxKafka
  /\ \E b \in Batches : kafka' = Append(kafka, b)
  /\ UNCHANGED <<workerVars, committed, indexVars, dlq>>

Work(w, s) == wstep' = [wstep EXCEPT ![w] = s]
InHand(w) == kafka[at[w]]

\* Run returns an error, or the process dies; the group notices.
Exits(w) ==
  /\ Work(w, "down")
  /\ owner' = IF owner = w THEN NoWorker ELSE owner
  /\ next' = [next EXCEPT ![w] = 0] /\ at' = [at EXCEPT ![w] = 0]
  /\ try' = [try EXCEPT ![w] = 0] /\ derived' = [derived EXCEPT ![w] = {}]

WorkerExit(w) ==
  /\ wstep[w] # "down" /\ Exits(w)
  /\ UNCHANGED <<kafka, committed, indexVars, dlq>>

WorkerStart(w) ==
  /\ wstep[w] = "down" /\ Work(w, "idle")
  /\ UNCHANGED <<kafka, owner, next, at, try, derived, committed, indexVars, dlq>>

\* Mutant: the committed offset is taken for the last processed one.
AssignAfter(w) ==
  /\ wstep[w] # "down"
  /\ owner' = w /\ next' = [next EXCEPT ![w] = committed + 1]
  /\ UNCHANGED <<kafka, wstep, at, try, derived, committed, indexVars, dlq>>

\* The group assigns the partition to w, whose reader starts at the committed
\* offset.  The reader rejoins in the background: w, like the previous owner,
\* may be at work on a message of an earlier assignment.
Assign(w) ==
  /\ wstep[w] # "down"
  /\ owner' = w /\ next' = [next EXCEPT ![w] = committed]
  /\ UNCHANGED <<kafka, wstep, at, try, derived, committed, indexVars, dlq>>

\* Fetch, decode, schema and identity checks.
Fetch(w) ==
  /\ wstep[w] = "idle" /\ owner = w /\ next[w] < Len(kafka)
  /\ next' = [next EXCEPT ![w] = @ + 1] /\ at' = [at EXCEPT ![w] = next[w] + 1]
  /\ Work(w, IF kafka[next[w] + 1] \in Malformed THEN "reject" ELSE "history")
  /\ UNCHANGED <<kafka, owner, try, derived, committed, indexVars, dlq>>

\* Mutant: the last attempt's error is logged and Run goes on with the next message.
AgainContinues(w) ==
  /\ try' = [try EXCEPT ![w] = IF @ + 1 < Attempts THEN @ + 1 ELSE 0] /\ derived' = [derived EXCEPT ![w] = {}]
  /\ Work(w, IF try[w] + 1 < Attempts THEN "history" ELSE "idle")
  /\ UNCHANGED <<owner, next, at>>

\* Mutant: the last attempt's error is not returned.
AgainSwallowed(w) ==
  /\ try' = [try EXCEPT ![w] = @ + 1] /\ derived' = [derived EXCEPT ![w] = {}]
  /\ Work(w, IF try[w] + 1 < Attempts THEN "history" ELSE "commit")
  /\ UNCHANGED <<owner, next, at>>

\* processWithRetry after a transient error: another attempt, or Run returns it.
Again(w) ==
  IF try[w] + 1 < Attempts
  THEN /\ try' = [try EXCEPT ![w] = @ + 1] /\ derived' = [derived EXCEPT ![w] = {}]
       /\ Work(w, "history") /\ UNCHANGED <<owner, next, at>>
  ELSE Exits(w)

\* The 15 minutes up to the time of batch b.
Recent(b, found) == {x \in found : x <= b /\ x + Window >= b}

\* history.Read, mergeEvents, and the analysis of the scope.
ReadHistory(w) ==
  /\ wstep[w] = "history"
  /\ derived' = [derived EXCEPT ![w] = {InHand(w)} \cup Recent(InHand(w), searchable)]
  /\ Work(w, "bulk")
  /\ UNCHANGED <<kafka, owner, next, at, try, committed, indexVars, dlq>>

HistoryFails(w) ==
  /\ wstep[w] = "history" /\ Again(w)
  /\ UNCHANGED <<kafka, committed, indexVars, dlq>>

\* The items of a bulk request that succeed.
Index(w, items) ==
  /\ docs' = IF "batch" \in items THEN docs \cup {InHand(w)} ELSE docs
  /\ incident' = IF "incident" \in items THEN derived[w] ELSE incident
  /\ searchable' = IF RefreshLag THEN searchable ELSE docs'

BulkIndex(w) ==
  /\ wstep[w] = "bulk"
  /\ Index(w, {"batch", "incident"}) /\ Work(w, "save")
  /\ derived' = [derived EXCEPT ![w] = {}]
  /\ UNCHANGED <<kafka, owner, next, at, try, committed, dlq>>

\* Some items fail: transient wins over permanent.
BulkFailsTransient(w) ==
  /\ wstep[w] = "bulk"
  /\ \E items \in SUBSET {"batch", "incident"} : Index(w, items)
  /\ Again(w)
  /\ UNCHANGED <<kafka, committed, dlq>>

BulkFailsPermanent(w) ==
  /\ wstep[w] = "bulk"
  /\ \E items \in (SUBSET {"batch", "incident"}) \ {{"batch", "incident"}} : Index(w, items)
  /\ Work(w, "reject")
  /\ derived' = [derived EXCEPT ![w] = {}]
  /\ UNCHANGED <<kafka, owner, next, at, try, committed, dlq>>

\* Save and SaveMetrics.
SaveState(w) ==
  /\ wstep[w] = "save" /\ Work(w, "commit")
  /\ UNCHANGED <<kafka, owner, next, at, try, derived, committed, indexVars, dlq>>

SaveFails(w) ==
  /\ wstep[w] = "save" /\ Again(w)
  /\ UNCHANGED <<kafka, committed, indexVars, dlq>>

\* Mutant: the message is set aside without a dead letter or a commit.
RejectSkips(w) ==
  /\ wstep[w] = "reject" /\ Work(w, "idle")
  /\ UNCHANGED <<kafka, owner, next, at, try, derived, committed, indexVars, dlq>>

\* reject: the dead letter first.
Reject(w) ==
  /\ wstep[w] = "reject"
  /\ dlq' = dlq \cup {InHand(w)} /\ Work(w, "commit")
  /\ UNCHANGED <<kafka, owner, next, at, try, derived, committed, indexVars>>

\* CommitMessages: the offset of the message in hand.  Neither the reader nor
\* the broker asks whether the partition is still assigned to this member.
Commit(w) ==
  /\ wstep[w] = "commit"
  /\ committed' = at[w] /\ Work(w, "idle")
  /\ at' = [at EXCEPT ![w] = 0] /\ try' = [try EXCEPT ![w] = 0]
  /\ UNCHANGED <<kafka, owner, next, derived, indexVars, dlq>>

\* The commit takes effect and the worker does not learn it.
CommitUnheard(w) ==
  /\ wstep[w] = "commit"
  /\ committed' = at[w] /\ Exits(w)
  /\ UNCHANGED <<kafka, indexVars, dlq>>

Refresh ==
  /\ searchable # docs /\ searchable' = docs
  /\ UNCHANGED <<kafka, workerVars, committed, docs, incident, dlq>>

Progress(w) ==
  \/ Fetch(w) \/ ReadHistory(w) \/ BulkIndex(w) \/ SaveState(w) \/ Reject(w) \/ Commit(w)

Worker(w) ==
  \/ Progress(w) \/ WorkerExit(w) \/ WorkerStart(w) \/ Assign(w)
  \/ HistoryFails(w) \/ BulkFailsTransient(w) \/ BulkFailsPermanent(w) \/ SaveFails(w) \/ CommitUnheard(w)

-----------------------------------------------------------------------------
Next == Produce \/ Refresh \/ \E w \in Workers : Worker(w)

Spec == Init /\ [][Next]_vars

(***************************************************************************)
(* Each service the Workers call answers again and again: an operation     *)
(* that is tried infinitely often succeeds sometimes, for one of the       *)
(* workers.  A worker's loop, its restart by the supervisor and the        *)
(* group's assignment go on.  Finally the group stops to take the          *)
(* partition from a worker that lives: no worker finishes a message if     *)
(* each loses it halfway.                                                  *)
(***************************************************************************)
Fairness ==
  /\ SF_vars(\E w \in Workers : Fetch(w)) /\ SF_vars(\E w \in Workers : ReadHistory(w))
  /\ SF_vars(\E w \in Workers : BulkIndex(w)) /\ SF_vars(\E w \in Workers : SaveState(w))
  /\ SF_vars(\E w \in Workers : Reject(w)) /\ SF_vars(\E w \in Workers : Commit(w))
  /\ WF_vars(\E w \in Workers : WorkerStart(w))
  /\ SF_vars(\E w \in Workers : owner = NoWorker /\ Assign(w))
  /\ <>[][\A w \in Workers : Assign(w) => owner = NoWorker]_vars

FairSpec == Spec /\ Fairness

-----------------------------------------------------------------------------
(* Properties.                                                             *)

\* Every variable has its type; offsets are offsets of the topic, and only
\* indexed documents are found.
TypeOK ==
  /\ kafka \in Seq(Batches)
  /\ owner \in Workers \cup {NoWorker} /\ committed \in 0 .. Len(kafka)
  /\ wstep \in [Workers -> {"down", "idle", "history", "bulk", "save", "reject", "commit"}]
  /\ at \in [Workers -> 0 .. Len(kafka)] /\ next \in [Workers -> 0 .. Len(kafka)]
  /\ try \in [Workers -> 0 .. Attempts]
  /\ derived \in [Workers -> SUBSET Batches]
  /\ docs \subseteq Batches /\ searchable \subseteq docs /\ incident \subseteq Batches /\ dlq \subseteq Batches

Done(n) == \A i \in 1 .. n : kafka[i] \in docs \cup dlq

\* The reader of a worker without a message has passed nothing that is not done.  What comes
\* before a message in hand is done; the reader has delivered just this message,
\* or was set back to where all is done; before the commit the message is done.
WorkerOK(w) ==
  /\ wstep[w] \in {"down", "idle"} => Done(next[w])
  /\ wstep[w] \in {"history", "bulk", "save", "reject", "commit"} =>
       /\ at[w] >= 1 /\ Done(at[w] - 1)
       /\ next[w] = at[w] \/ Done(next[w])
       /\ wstep[w] \in {"save", "commit"} => InHand(w) \in docs \cup dlq

WorkersOK ==
  /\ owner # NoWorker => wstep[owner] # "down"
  /\ \A w \in Workers : WorkerOK(w)

\* Every message before the committed offset is projected or is in the dead
\* letter topic: a worker that fails, exits or loses the partition at any step,
\* and a former owner that commits late and puts the offset back, never commits
\* past a message nobody projected.
CommittedProjected == Done(committed)

\* A worker that asks for its next message has left none behind: whatever
\* rebalances, failures and late commits came before, every message its reader
\* has passed is projected or in the dead letter topic.
NothingSkipped == \A w \in Workers : wstep[w] = "idle" => Done(next[w])

\* Every message of the topic is eventually projected or in the dead letter
\* topic, although the workers may exit again and again.
EventuallyProjected ==
  \A i \in 1 .. MaxKafka : (Len(kafka) >= i) ~> (Len(kafka) >= i /\ kafka[i] \in docs \cup dlq)

\* An analysis merges the current batch with every Event of the window that
\* is in OpenSearch.
HistoryMerged ==
  \A w \in Workers : wstep[w] = "bulk" =>
    \A x \in docs : (InHand(w) - x \in 0 .. Window) => x \in derived[w]

\* architecture.md: a repeated batch is replayed to the same logical result.
\* Processing a batch the Incident document was already computed from takes
\* nothing out of it.
ReplayConverges ==
  [][\A w \in Workers :
       (wstep[w] = "bulk" /\ wstep'[w] # "bulk" /\ InHand(w) \in incident) => incident \subseteq incident']_vars
=============================================================================
