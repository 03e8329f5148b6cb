------------------------ MODULE GatewayIngestProofs ------------------------
(***************************************************************************)
(* Proofs about GatewayIngest, for any number of agents, streams and       *)
(* batches: with brokers configured, what an agent is told is in Kafka.    *)
(*                                                                         *)
(* AckedInKafka alone is not inductive: an acknowledgement may rest on a   *)
(* cursor that was read earlier.  The invariant adds that every cursor     *)
(* that exists anywhere, and every request with a positive verdict, names  *)
(* a batch of the topic; and what each step of a handler may rely on.      *)
(***************************************************************************)
EXTENDS GatewayIngest, TLAPS

IInv == TypeOK /\ HandlersOK /\ CursorsInKafka /\ AckedInKafka

\* The topic as a sequence, and the set of its messages, after an append.
LEMMA KafkaGrows ==
  ASSUME kafka \in Seq(Batches), NEW b \in Batches, kafka' = Append(kafka, b)
  PROVE  /\ kafka' \in Seq(Batches) /\ Len(kafka') = Len(kafka) + 1
         /\ \A i \in 1 .. Len(kafka) : kafka'[i] = kafka[i]
         /\ b \in InKafka' /\ InKafka \subseteq InKafka'
<1>1. /\ kafka' \in Seq(Batches) /\ Len(kafka') = Len(kafka) + 1
      /\ \A i \in 1 .. Len(kafka) : kafka'[i] = kafka[i]
      /\ kafka'[Len(kafka) + 1] = b
  OBVIOUS
<1>2. Len(kafka) \in Nat
  OBVIOUS
<1>3. Len(kafka) + 1 \in 1 .. Len(kafka')
  BY <1>1, <1>2
<1>4. b \in InKafka'
  BY <1>1, <1>3 DEF InKafka
<1>5. InKafka \subseteq InKafka'
  BY <1>1, <1>2 DEF InKafka
<1> QED
  BY <1>1, <1>4, <1>5

\* The initial state satisfies the invariant.
LEMMA InitInv == Init => IInv
<1> SUFFICES ASSUME Init PROVE IInv
  OBVIOUS
<1>1. kafka \in Seq(Batches)
  BY DEF Init
<1> QED
  BY <1>1, GatewayAssumption DEF Init, IInv, TypeOK, HandlersOK, CursorsInKafka, AckedInKafka, Recorded, Sessions, NoSession, Committing

\* An upload begins.
LEMMA SendStep ==
  ASSUME NEW a \in Agents, NEW h \in Handlers, IInv, Send(a, h)
  PROVE  IInv'
<1>1. InKafka' = InKafka
  BY DEF Send, InKafka
<1>11. TypeOK'
  BY GatewayAssumption, <1>1 DEF Send, Go, Forget, Committing, Batches, Sessions, NoSession, agentVars, IInv, TypeOK, HandlersOK
<1>12. HandlersOK'
  BY GatewayAssumption, <1>1 DEF Send, Go, Forget, Committing, Batches, Sessions, NoSession, agentVars, IInv, TypeOK, HandlersOK
<1>13. CursorsInKafka'
  BY GatewayAssumption, <1>1 DEF Send, Go, Forget, Committing, Batches, Sessions, NoSession, agentVars, IInv, TypeOK, HandlersOK, CursorsInKafka, Recorded
<1>14. AckedInKafka'
  BY GatewayAssumption, <1>1 DEF Send, Go, Forget, Committing, Batches, Sessions, NoSession, agentVars, IInv, TypeOK, HandlersOK, CursorsInKafka, AckedInKafka
<1> QED
  BY <1>11, <1>12, <1>13, <1>14 DEF IInv

\* A control stream opens.
LEMMA OpenControlSessionStep ==
  ASSUME NEW a \in Agents, NEW h \in Handlers, IInv, OpenControlSession(a, h)
  PROVE  IInv'
<1>1. InKafka' = InKafka
  BY DEF OpenControlSession, InKafka
<1>11. TypeOK'
  BY GatewayAssumption, <1>1 DEF OpenControlSession, Go, Forget, Committing, Batches, Sessions, NoSession, agentVars, IInv, TypeOK, HandlersOK
<1>12. HandlersOK'
  BY GatewayAssumption, <1>1 DEF OpenControlSession, Go, Forget, Committing, Batches, Sessions, NoSession, agentVars, IInv, TypeOK, HandlersOK
<1>13. CursorsInKafka'
  BY GatewayAssumption, <1>1 DEF OpenControlSession, Go, Forget, Committing, Batches, Sessions, NoSession, agentVars, IInv, TypeOK, HandlersOK, CursorsInKafka, Recorded
<1>14. AckedInKafka'
  BY GatewayAssumption, <1>1 DEF OpenControlSession, Go, Forget, Committing, Batches, Sessions, NoSession, agentVars, IInv, TypeOK, HandlersOK, CursorsInKafka, AckedInKafka
<1> QED
  BY <1>11, <1>12, <1>13, <1>14 DEF IInv

\* The agent gives up a stream.
LEMMA AbandonStep ==
  ASSUME NEW a \in Agents, IInv, Abandon(a)
  PROVE  IInv'
<1>1. InKafka' = InKafka
  BY DEF Abandon, InKafka
<1>11. TypeOK'
  BY GatewayAssumption, <1>1 DEF Abandon, IInv, TypeOK, HandlersOK
<1>12. HandlersOK'
  BY GatewayAssumption, <1>1 DEF Abandon, IInv, TypeOK, HandlersOK
<1>13. CursorsInKafka'
  BY GatewayAssumption, <1>1 DEF Abandon, IInv, TypeOK, HandlersOK, CursorsInKafka, Recorded
<1>14. AckedInKafka'
  BY GatewayAssumption, <1>1 DEF Abandon, IInv, TypeOK, HandlersOK, CursorsInKafka, AckedInKafka
<1> QED
  BY <1>11, <1>12, <1>13, <1>14 DEF IInv

\* The duplicate check: a match names a batch in the topic.
LEMMA CheckDuplicateStep ==
  ASSUME NEW h \in Handlers, IInv, CheckDuplicate(h)
  PROVE  IInv'
<1>1. InKafka' = InKafka
  BY DEF CheckDuplicate, InKafka
<1>11. TypeOK'
  BY GatewayAssumption, <1>1 DEF CheckDuplicate, Go, Forget, Committing, Batches, Sessions, NoSession, agentVars, IInv, TypeOK, HandlersOK
<1>12. HandlersOK'
  BY GatewayAssumption, <1>1 DEF CheckDuplicate, Go, Forget, Committing, Batches, Sessions, NoSession, agentVars, IInv, TypeOK, HandlersOK
<1>13. CursorsInKafka'
  BY GatewayAssumption, <1>1 DEF CheckDuplicate, Go, Forget, Committing, Batches, Sessions, NoSession, agentVars, IInv, TypeOK, HandlersOK, CursorsInKafka, Recorded
<1>14. AckedInKafka'
  BY GatewayAssumption, <1>1 DEF CheckDuplicate, Go, Forget, Committing, Batches, Sessions, NoSession, agentVars, IInv, TypeOK, HandlersOK, CursorsInKafka, AckedInKafka
<1> QED
  BY <1>11, <1>12, <1>13, <1>14 DEF IInv

\* The append: the one step that grows the topic.
LEMMA AppendRawStep ==
  ASSUME NEW h \in Handlers, IInv, AppendRaw(h)
  PROVE  IInv'
<1>1. /\ req[h] \in Batches /\ kafka \in Seq(Batches) /\ step[h] = "append"
      /\ producer \in {"writer", "noop"}
  BY DEF AppendRaw, IInv, HandlersOK, TypeOK
<1>2. kafka' = kafka \/ kafka' = Append(kafka, req[h])
  BY <1>1 DEF AppendRaw, Appended
<1>3. InKafka \subseteq InKafka'
  BY <1>1, <1>2, KafkaGrows DEF InKafka
<1>4. \/ verdict' = verdict
      \/ verdict' = [verdict EXCEPT ![h] = "accepted"] /\ (producer = "writer" => req[h] \in InKafka')
  BY <1>1, KafkaGrows DEF AppendRaw, Appended
<1>5. \/ step' = [step EXCEPT ![h] = "record"] /\ verdict' = [verdict EXCEPT ![h] = "accepted"]
      \/ step' = [step EXCEPT ![h] = "reply"] /\ verdict' = verdict
  <2>1. \/ Go(h, "record") /\ verdict' = [verdict EXCEPT ![h] = "accepted"]
        \/ Go(h, "reply") /\ UNCHANGED verdict
    BY Zenon DEF AppendRaw
  <2> QED
    BY <2>1 DEF Go
<1>6. UNCHANGED <<producer, next, waits, told, req, snap, memCursor, dbCursor, crashes>>
  BY DEF AppendRaw, agentVars
<1>7. kafka' \in Seq(Batches)
  BY <1>1, <1>2
<1>8. /\ step' \in [Handlers -> {"idle", "check", "append", "record", "snapshot", "save", "reply"}]
      /\ verdict' \in [Handlers -> {"accepted", "duplicate", "retryable"}]
  <2>1. /\ step \in [Handlers -> {"idle", "check", "append", "record", "snapshot", "save", "reply"}]
        /\ verdict \in [Handlers -> {"accepted", "duplicate", "retryable"}]
    BY DEF IInv, TypeOK
  <2> QED
    BY <1>5, <2>1
<1>11. TypeOK'
  BY <1>6, <1>7, <1>8 DEF IInv, TypeOK
<1>12. HandlersOK'
  BY GatewayAssumption, <1>1, <1>3, <1>4, <1>5, <1>6 DEF Committing, Batches, Sessions, IInv, TypeOK, HandlersOK
<1>13. CursorsInKafka'
  BY GatewayAssumption, <1>1, <1>3, <1>4, <1>5, <1>6 DEF Committing, Batches, Sessions, IInv, TypeOK, HandlersOK, CursorsInKafka, Recorded
<1>14. AckedInKafka'
  BY GatewayAssumption, <1>1, <1>3, <1>4, <1>5, <1>6 DEF Committing, Batches, Sessions, IInv, TypeOK, HandlersOK, CursorsInKafka, AckedInKafka
<1> QED
  BY <1>11, <1>12, <1>13, <1>14 DEF IInv

\* The cursor in the working set.
LEMMA RecordDataBatchAppendStep ==
  ASSUME NEW h \in Handlers, IInv, RecordDataBatchAppend(h)
  PROVE  IInv'
<1>1. InKafka' = InKafka
  BY DEF RecordDataBatchAppend, InKafka
<1>11. TypeOK'
  BY GatewayAssumption, <1>1 DEF RecordDataBatchAppend, Go, Forget, Committing, Batches, Sessions, NoSession, agentVars, IInv, TypeOK, HandlersOK
<1>12. HandlersOK'
  BY GatewayAssumption, <1>1 DEF RecordDataBatchAppend, Go, Forget, Committing, Batches, Sessions, NoSession, agentVars, IInv, TypeOK, HandlersOK
<1>2. memCursor' = [memCursor EXCEPT ![req[h][1]] = {req[h][2]}] /\ step[h] = "record"
      /\ UNCHANGED <<producer, req, verdict, snap, dbCursor>>
  BY DEF RecordDataBatchAppend
<1>3. req[h] \in Batches /\ Committing(verdict[h])
  BY <1>2 DEF IInv, HandlersOK
<1>4. req[h][1] \in Agents /\ req[h][2] \in 1 .. MaxBatch /\ req[h] = <<req[h][1], req[h][2]>>
  BY <1>3 DEF Batches
<1>13. CursorsInKafka'
  <2> SUFFICES ASSUME producer = "writer" PROVE CursorsInKafka'
    BY <1>2 DEF CursorsInKafka
  <2>1. req[h] \in InKafka /\ Recorded(memCursor) /\ Recorded(dbCursor)
        /\ \A g \in Handlers : Recorded(snap[g]) /\ (Committing(verdict[g]) => req[g] \in InKafka)
    BY <1>3 DEF IInv, CursorsInKafka
  <2>2. Recorded(memCursor)'
    BY <1>1, <1>2, <1>4, <2>1 DEF Recorded, IInv, TypeOK, Sessions
  <2>3. Recorded(dbCursor)' /\ \A g \in Handlers : Recorded(snap[g])'
    BY <1>1, <1>2, <2>1 DEF Recorded
  <2>4. \A g \in Handlers : Committing(verdict[g])' => req'[g] \in InKafka'
    BY <1>1, <1>2, <2>1 DEF Committing
  <2> QED
    BY <2>2, <2>3, <2>4 DEF CursorsInKafka, Committing
<1>14. AckedInKafka'
  BY GatewayAssumption, <1>1 DEF RecordDataBatchAppend, Go, Forget, Committing, Batches, Sessions, NoSession, agentVars, IInv, TypeOK, HandlersOK, CursorsInKafka, AckedInKafka
<1> QED
  BY <1>11, <1>12, <1>13, <1>14 DEF IInv

\* The copy that Save takes.
LEMMA SaveSnapshotStep ==
  ASSUME NEW h \in Handlers, IInv, SaveSnapshot(h)
  PROVE  IInv'
<1>1. InKafka' = InKafka
  BY DEF SaveSnapshot, InKafka
<1>11. TypeOK'
  BY GatewayAssumption, <1>1 DEF SaveSnapshot, Go, Forget, Committing, Batches, Sessions, NoSession, agentVars, IInv, TypeOK, HandlersOK
<1>12. HandlersOK'
  BY GatewayAssumption, <1>1 DEF SaveSnapshot, Go, Forget, Committing, Batches, Sessions, NoSession, agentVars, IInv, TypeOK, HandlersOK
<1>13. CursorsInKafka'
  BY GatewayAssumption, <1>1 DEF SaveSnapshot, Go, Forget, Committing, Batches, Sessions, NoSession, agentVars, IInv, TypeOK, HandlersOK, CursorsInKafka, Recorded
<1>14. AckedInKafka'
  BY GatewayAssumption, <1>1 DEF SaveSnapshot, Go, Forget, Committing, Batches, Sessions, NoSession, agentVars, IInv, TypeOK, HandlersOK, CursorsInKafka, AckedInKafka
<1> QED
  BY <1>11, <1>12, <1>13, <1>14 DEF IInv

\* The rows, possibly from an old copy.
LEMMA SaveWriteStep ==
  ASSUME NEW h \in Handlers, IInv, SaveWrite(h)
  PROVE  IInv'
<1>1. InKafka' = InKafka
  BY DEF SaveWrite, InKafka
<1>2. snap[h] \in Sessions /\ dbCursor \in Sessions
  BY DEF IInv, TypeOK
<1>3. dbCursor' \in Sessions
  BY <1>2 DEF SaveWrite, Upserted, Sessions
<1>4. /\ step' \in [Handlers -> {"idle", "check", "append", "record", "snapshot", "save", "reply"}]
      /\ verdict' \in [Handlers -> {"accepted", "duplicate", "retryable"}]
  BY DEF SaveWrite, Go, IInv, TypeOK
<1>11. TypeOK'
  BY <1>3, <1>4 DEF SaveWrite, agentVars, IInv, TypeOK
<1>12. HandlersOK'
  BY GatewayAssumption, <1>1 DEF SaveWrite, Go, Forget, Committing, Batches, Sessions, NoSession, agentVars, IInv, TypeOK, HandlersOK
<1>13. CursorsInKafka'
  <2> SUFFICES ASSUME producer = "writer" PROVE CursorsInKafka'
    BY DEF CursorsInKafka, SaveWrite
  <2>1. Recorded(memCursor) /\ Recorded(dbCursor)
        /\ \A g \in Handlers : Recorded(snap[g]) /\ (Committing(verdict[g]) => req[g] \in InKafka)
    BY DEF IInv, CursorsInKafka
  <2>2. UNCHANGED <<producer, memCursor, snap, req>>
        /\ (verdict' = verdict \/ verdict' = [verdict EXCEPT ![h] = "retryable"])
    BY DEF SaveWrite
  <2>3. \A a \in Agents : dbCursor'[a] = snap[h][a] \/ dbCursor'[a] = dbCursor[a]
    BY DEF SaveWrite, Upserted
  <2>4. Recorded(dbCursor)'
    BY <1>1, <2>1, <2>3 DEF Recorded
  <2>5. Recorded(memCursor)' /\ \A g \in Handlers : Recorded(snap[g])'
    BY <1>1, <2>1, <2>2 DEF Recorded
  <2>6. \A g \in Handlers : Committing(verdict[g])' => req'[g] \in InKafka'
    BY <1>1, <2>1, <2>2 DEF Committing, IInv, TypeOK
  <2> QED
    BY <2>4, <2>5, <2>6 DEF CursorsInKafka, Committing
<1>14. AckedInKafka'
  BY GatewayAssumption, <1>1 DEF SaveWrite, Go, Forget, Committing, Batches, Sessions, NoSession, agentVars, IInv, TypeOK, HandlersOK, CursorsInKafka, AckedInKafka
<1> QED
  BY <1>11, <1>12, <1>13, <1>14 DEF IInv

\* The acknowledgement.
LEMMA ReplyStep ==
  ASSUME NEW h \in Handlers, IInv, Reply(h)
  PROVE  IInv'
<1>1. InKafka' = InKafka
  BY DEF Reply, InKafka
<1>11. TypeOK'
  BY GatewayAssumption, <1>1 DEF Reply, Go, Forget, Committing, Batches, Sessions, NoSession, agentVars, IInv, TypeOK, HandlersOK
<1>12. HandlersOK'
  BY GatewayAssumption, <1>1 DEF Reply, Go, Forget, Committing, Batches, Sessions, NoSession, agentVars, IInv, TypeOK, HandlersOK
<1>13. CursorsInKafka'
  BY GatewayAssumption, <1>1 DEF Reply, Go, Forget, Committing, Batches, Sessions, NoSession, agentVars, IInv, TypeOK, HandlersOK, CursorsInKafka, Recorded
<1>14. AckedInKafka'
  BY GatewayAssumption, <1>1 DEF Reply, Go, Forget, Committing, Batches, Sessions, NoSession, agentVars, IInv, TypeOK, HandlersOK, CursorsInKafka, AckedInKafka
<1> QED
  BY <1>11, <1>12, <1>13, <1>14 DEF IInv

\* A restart.
LEMMA GatewayCrashStep ==
  ASSUME IInv, GatewayCrash
  PROVE  IInv'
<1>1. InKafka' = InKafka
  BY DEF GatewayCrash, InKafka
<1>11. TypeOK'
  BY GatewayAssumption, <1>1 DEF GatewayCrash, Go, Forget, Committing, Batches, Sessions, NoSession, agentVars, IInv, TypeOK, HandlersOK
<1>12. HandlersOK'
  BY GatewayAssumption, <1>1 DEF GatewayCrash, Go, Forget, Committing, Batches, Sessions, NoSession, agentVars, IInv, TypeOK, HandlersOK
<1>13. CursorsInKafka'
  BY GatewayAssumption, <1>1 DEF GatewayCrash, Go, Forget, Committing, Batches, Sessions, NoSession, agentVars, IInv, TypeOK, HandlersOK, CursorsInKafka, Recorded
<1>14. AckedInKafka'
  BY GatewayAssumption, <1>1 DEF GatewayCrash, Go, Forget, Committing, Batches, Sessions, NoSession, agentVars, IInv, TypeOK, HandlersOK, CursorsInKafka, AckedInKafka
<1> QED
  BY <1>11, <1>12, <1>13, <1>14 DEF IInv

\* Nothing happens.
LEMMA Stutter ==
  ASSUME IInv, UNCHANGED vars
  PROVE  IInv'
<1>1. UNCHANGED <<producer, next, waits, told, step, req, verdict, snap, memCursor, dbCursor, kafka, crashes>>
  BY DEF vars, agentVars
<1>2. InKafka' = InKafka
  BY <1>1 DEF InKafka
<1>3. TypeOK'
  BY <1>1 DEF IInv, TypeOK
<1>4. HandlersOK'
  BY <1>1 DEF IInv, HandlersOK
<1>5. CursorsInKafka'
  BY <1>1, <1>2 DEF IInv, CursorsInKafka, Recorded
<1>6. AckedInKafka'
  BY <1>1, <1>2 DEF IInv, AckedInKafka
<1> QED
  BY <1>3, <1>4, <1>5, <1>6 DEF IInv

\* Every step of the Gateway and of its agents keeps the invariant.
LEMMA StepInv == IInv /\ [Next]_vars => IInv'
<1> SUFFICES ASSUME IInv, [Next]_vars PROVE IInv'
  OBVIOUS
<1>1. ASSUME NEW a \in Agents, NEW h \in Handlers, Send(a, h) \/ OpenControlSession(a, h) PROVE IInv'
  BY <1>1, SendStep, OpenControlSessionStep
<1>2. ASSUME NEW a \in Agents, Abandon(a) PROVE IInv'
  BY <1>2, AbandonStep
<1>3. ASSUME NEW h \in Handlers, Gateway(h) PROVE IInv'
  BY <1>3, CheckDuplicateStep, AppendRawStep, RecordDataBatchAppendStep, SaveSnapshotStep, SaveWriteStep, ReplyStep DEF Gateway
<1>4. CASE GatewayCrash
  BY <1>4, GatewayCrashStep
<1>5. CASE UNCHANGED vars
  BY <1>5, Stutter
<1> QED
  BY <1>1, <1>2, <1>3, <1>4, <1>5 DEF Next

\* In every reachable state the invariant holds.
THEOREM Invariance == Spec => []IInv
  BY InitInv, StepInv, PTL DEF Spec

\* Every variable keeps its type, for any number of agents, streams and batches.
THEOREM TypeCorrect == Spec => []TypeOK
<1>1. IInv => TypeOK
  BY DEF IInv
<1> QED
  BY <1>1, Invariance, PTL

\* What the Gateway acknowledged to an agent as accepted or duplicate is in
\* Kafka, if brokers are configured, whatever fails, is lost or interleaves in
\* handleBatch and Save.
THEOREM Acknowledged == Spec => []AckedInKafka
<1>1. IInv => AckedInKafka
  BY DEF IInv
<1> QED
  BY <1>1, Invariance, PTL

=============================================================================
