--------------------------- MODULE GatewayIngest ---------------------------
(***************************************************************************)
(* The Gateway's handling of uploaded DataBatches: duplicate check against *)
(* the agent's session, append to Kafka, session row, acknowledgement.     *)
(*                                                                         *)
(* Code: internal/gateway/runtime.go and grpc.go, the producer of          *)
(* internal/platform/kafka, the session part of internal/store.            *)
(* IngestWorker takes over at the topic.                                   *)
(*                                                                         *)
(* A batch is <<agent, n>>.  A session is the set of its LastAckCursor:    *)
(* {n}, {0} for a session with an empty cursor, {} for no session.         *)
(***************************************************************************)
EXTENDS Integers, Sequences, FiniteSets

CONSTANTS
  Agents, Handlers,                \* agents, and streams that can be open at once
  MaxBatch, MaxKafka, MaxCrashes   \* bounds

ASSUME GatewayAssumption == MaxBatch \in Nat /\ MaxKafka \in Nat /\ MaxCrashes \in Nat

VARIABLES
  producer,    \* "writer", or "noop" if no brokers are configured
  next,        \* next[a]: the batch agent a uploads next
  waits,       \* waits[a]: the streams agent a waits on, at most one
  told,        \* batches acknowledged to their agents as accepted or duplicate
  step, req, verdict, snap,   \* per stream: handleBatch
  memCursor,   \* sessions in the Gateway's working set
  dbCursor,    \* agent_sessions rows
  kafka,       \* the raw topic
  crashes

agentVars == <<next, waits, told>>
vars == <<producer, agentVars, step, req, verdict, snap, memCursor, dbCursor, kafka, crashes>>

Batches == Agents \X (1 .. MaxBatch)
Sessions == [Agents -> SUBSET (0 .. MaxBatch)]
NoSession == [a \in Agents |-> {}]
InKafka == {kafka[i] : i \in 1 .. Len(kafka)}

Init ==
  /\ producer \in {"writer", "noop"}
  /\ next = [a \in Agents |-> 1] /\ waits = [a \in Agents |-> {}] /\ told = {}
  /\ step = [h \in Handlers |-> "idle"] /\ req = [h \in Handlers |-> <<>>]
  /\ verdict = [h \in Handlers |-> "retryable"] /\ snap = [h \in Handlers |-> NoSession]
  /\ memCursor = NoSession /\ dbCursor = NoSession /\ kafka = <<>> /\ crashes = 0

-----------------------------------------------------------------------------
Go(h, s) == step' = [step EXCEPT ![h] = s]

\* The exporter sends the batch after its checkpoint, or once more the batch
\* at the checkpoint.
Send(a, h) ==
  /\ waits[a] = {} /\ step[h] = "idle"
  /\ \E n \in {next[a], next[a] - 1} \cap (1 .. MaxBatch) : req' = [req EXCEPT ![h] = <<a, n>>]
  /\ waits' = [waits EXCEPT ![a] = {h}]
  /\ Go(h, "check")
  /\ UNCHANGED <<producer, next, told, verdict, snap, memCursor, dbCursor, kafka, crashes>>

\* isDuplicateBatch: the session rows, or the working set if the query fails.
CheckDuplicate(h) ==
  /\ step[h] = "check"
  /\ \E cursor \in {memCursor, dbCursor} :
       IF req[h][2] \in cursor[req[h][1]]
       THEN Go(h, "record") /\ verdict' = [verdict EXCEPT ![h] = "duplicate"]
       ELSE Go(h, "append") /\ UNCHANGED verdict
  /\ UNCHANGED <<producer, agentVars, req, snap, memCursor, dbCursor, kafka, crashes>>

\* WriterProducer.Append, the topic being full at the bound; NoopProducer.Append
\* writes nothing and returns no error.
Appended(h) ==
  CASE producer = "noop" -> {kafka}
    [] producer = "writer" -> IF Len(kafka) < MaxKafka THEN {Append(kafka, req[h])} ELSE {}

\* Mutant: the append is not waited for.
AppendRawAsync(h) ==
  /\ step[h] = "append"
  /\ kafka' \in {kafka} \cup Appended(h)
  /\ Go(h, "record") /\ verdict' = [verdict EXCEPT ![h] = "accepted"]
  /\ UNCHANGED <<producer, agentVars, req, snap, memCursor, dbCursor, crashes>>

\* appendRawBatch; an error may hide that the message was written.
AppendRaw(h) ==
  /\ step[h] = "append"
  /\ \/ kafka' \in Appended(h) /\ Go(h, "record") /\ verdict' = [verdict EXCEPT ![h] = "accepted"]
     \/ kafka' \in {kafka} \cup Appended(h) /\ Go(h, "reply") /\ UNCHANGED verdict
  /\ UNCHANGED <<producer, agentVars, req, snap, memCursor, dbCursor, crashes>>

\* RecordDataBatchAppend in the working set.
RecordDataBatchAppend(h) ==
  /\ step[h] = "record"
  /\ memCursor' = [memCursor EXCEPT ![req[h][1]] = {req[h][2]}]
  /\ Go(h, "snapshot")
  /\ UNCHANGED <<producer, agentVars, req, verdict, snap, dbCursor, kafka, crashes>>

\* A control stream of the agent opens: RecordControlSessionOpen, then Save.
OpenControlSession(a, h) ==
  /\ step[h] = "idle"
  /\ memCursor' = [memCursor EXCEPT ![a] = IF @ = {} THEN {0} ELSE @]
  /\ req' = [req EXCEPT ![h] = <<a, 0>>]
  /\ Go(h, "snapshot")
  /\ UNCHANGED <<producer, agentVars, verdict, snap, dbCursor, kafka, crashes>>

\* Save copies the working set under the lock ...
SaveSnapshot(h) ==
  /\ step[h] = "snapshot"
  /\ snap' = [snap EXCEPT ![h] = memCursor]
  /\ Go(h, "save")
  /\ UNCHANGED <<producer, agentVars, req, verdict, memCursor, dbCursor, kafka, crashes>>

\* The rows after the copied sessions are upserted.
Upserted(h) == [a \in Agents |-> IF snap[h][a] # {} THEN snap[h][a] ELSE dbCursor[a]]

\* ... and upserts the copied sessions outside it; an error may hide a commit.
SaveWrite(h) ==
  /\ step[h] = "save"
  /\ \/ dbCursor' = Upserted(h) /\ UNCHANGED verdict
     \/ dbCursor' \in {dbCursor, Upserted(h)} /\ verdict' = [verdict EXCEPT ![h] = "retryable"]
  /\ Go(h, "reply")
  /\ UNCHANGED <<producer, agentVars, req, snap, memCursor, kafka, crashes>>

Committing(v) == v \in {"accepted", "duplicate"}

\* The handler's variables end with the call.
Forget(h) ==
  /\ req' = [req EXCEPT ![h] = <<>>]
  /\ verdict' = [verdict EXCEPT ![h] = "retryable"]
  /\ snap' = [snap EXCEPT ![h] = NoSession]

\* Mutant: any committing ack advances the agent, whichever batch it is for.
ReplyUnmatched(h) ==
  /\ step[h] = "reply"
  /\ LET a == req[h][1]
         heard == h \in waits[a] /\ Committing(verdict[h])
     IN  /\ told' = IF heard THEN told \cup {req[h]} ELSE told
         /\ next' = IF heard THEN [next EXCEPT ![a] = @ + 1] ELSE next
         /\ waits' = [waits EXCEPT ![a] = @ \ {h}]
  /\ Go(h, "idle") /\ Forget(h)
  /\ UNCHANGED <<producer, memCursor, dbCursor, kafka, crashes>>

\* The ack reaches the agent if it still waits for it.
Reply(h) ==
  /\ step[h] = "reply"
  /\ LET a == req[h][1] n == req[h][2]
         heard == h \in waits[a] /\ Committing(verdict[h])
     IN  /\ told' = IF heard THEN told \cup {req[h]} ELSE told
         /\ next' = IF heard /\ n = next[a] THEN [next EXCEPT ![a] = n + 1] ELSE next
         /\ waits' = [waits EXCEPT ![a] = @ \ {h}]
  /\ Go(h, "idle") /\ Forget(h)
  /\ UNCHANGED <<producer, memCursor, dbCursor, kafka, crashes>>

\* The stream breaks or the agent restarts; the handler does not notice.
Abandon(a) ==
  /\ waits[a] # {}
  /\ waits' = [waits EXCEPT ![a] = {}]
  /\ UNCHANGED <<producer, next, told, step, req, verdict, snap, memCursor, dbCursor, kafka, crashes>>

\* A Gateway starts with an empty working set.
GatewayCrash ==
  /\ crashes < MaxCrashes /\ crashes' = crashes + 1
  /\ step' = [h \in Handlers |-> "idle"]
  /\ waits' = [a \in Agents |-> {}]
  /\ req' = [h \in Handlers |-> <<>>] /\ verdict' = [h \in Handlers |-> "retryable"]
  /\ snap' = [h \in Handlers |-> NoSession] /\ memCursor' = NoSession
  /\ UNCHANGED <<producer, next, told, dbCursor, kafka>>

Gateway(h) ==
  \/ CheckDuplicate(h) \/ AppendRaw(h) \/ RecordDataBatchAppend(h)
  \/ SaveSnapshot(h) \/ SaveWrite(h) \/ Reply(h)

-----------------------------------------------------------------------------
Next ==
  \/ \E a \in Agents, h \in Handlers : Send(a, h) \/ OpenControlSession(a, h)
  \/ \E a \in Agents : Abandon(a)
  \/ \E h \in Handlers : Gateway(h)
  \/ GatewayCrash

Spec == Init /\ [][Next]_vars

-----------------------------------------------------------------------------
(* Properties.                                                             *)

\* Every variable has its type.
TypeOK ==
  /\ producer \in {"writer", "noop"}
  /\ next \in [Agents -> 1 .. MaxBatch + 1]
  /\ waits \in [Agents -> SUBSET Handlers]
  /\ told \subseteq Batches
  /\ step \in [Handlers -> {"idle", "check", "append", "record", "snapshot", "save", "reply"}]
  /\ req \in [Handlers -> (Agents \X (0 .. MaxBatch)) \cup {<<>>}]
  /\ verdict \in [Handlers -> {"accepted", "duplicate", "retryable"}]
  /\ snap \in [Handlers -> Sessions] /\ memCursor \in Sessions /\ dbCursor \in Sessions
  /\ kafka \in Seq(Batches)
  /\ crashes \in 0 .. MaxCrashes

\* What the handlers hold: a batch in the steps that use one, the retryable
\* verdict until the append.
HandlersOK ==
  \A h \in Handlers :
    /\ step[h] # "idle" => req[h] \in Agents \X (0 .. MaxBatch)
    /\ step[h] \in {"check", "append", "record"} => req[h] \in Batches
    /\ step[h] \in {"idle", "check", "append"} => verdict[h] = "retryable"
    /\ step[h] = "record" => Committing(verdict[h])
    /\ Committing(verdict[h]) => req[h] \in Batches

Recorded(sessions) == \A a \in Agents, n \in 1 .. MaxBatch : n \in sessions[a] => <<a, n>> \in InKafka

\* With brokers, a cursor anywhere (working set, row, copy being saved) and a
\* request past the append name a batch that is in the topic.
CursorsInKafka ==
  producer = "writer" =>
    /\ Recorded(memCursor) /\ Recorded(dbCursor)
    /\ \A h \in Handlers : Recorded(snap[h])
    /\ \A h \in Handlers : Committing(verdict[h]) => req[h] \in InKafka

\* A batch the Gateway acknowledged to its agent as accepted or as a duplicate
\* is in Kafka, if brokers are configured: whatever fails between the append,
\* the session row and the reply, and whatever two Saves or two streams of the
\* agent do to the row.
AckedInKafka == producer = "writer" => told \subseteq InKafka
=============================================================================
