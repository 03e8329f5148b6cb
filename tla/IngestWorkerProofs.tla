------------------------- MODULE IngestWorkerProofs -------------------------
(***************************************************************************)
(* Proofs about IngestWorker, for any number of workers, batches and       *)
(* attempts: no offset is committed past a message that is neither         *)
(* projected nor dead-lettered, and no reader passes one, although former  *)
(* owners of the partition commit too.                                     *)
(*                                                                         *)
(* CommittedProjected alone is not inductive: a worker commits what is in  *)
(* its hands, whoever owns the partition by then.  WorkersOK adds, for     *)
(* every worker, that all messages before the one in its hands are done.   *)
(***************************************************************************)
EXTENDS IngestWorker, TLAPS

IInv == TypeOK /\ WorkersOK /\ CommittedProjected

\* The initial state satisfies the invariant.
LEMMA InitInv == Init => IInv
  BY WorkerAssumption DEF Init, IInv, TypeOK, WorkersOK, WorkerOK, CommittedProjected, Done

\* What is done stays done while documents and dead letters are only added.
LEMMA DoneStays ==
  ASSUME TypeOK, \A i \in 1 .. Len(kafka) : kafka'[i] = kafka[i], docs \subseteq docs', dlq \subseteq dlq',
         NEW n \in Int, n <= Len(kafka), Done(n)
  PROVE  Done(n)'
<1>1. Len(kafka) \in Nat
  BY DEF TypeOK
<1> QED
  BY <1>1 DEF Done

\* A worker that does not move stays as it should be.
LEMMA OtherWorker ==
  ASSUME IInv, \A i \in 1 .. Len(kafka) : kafka'[i] = kafka[i], docs \subseteq docs', dlq \subseteq dlq',
         NEW v \in Workers, wstep'[v] = wstep[v], at'[v] = at[v], next'[v] = next[v]
  PROVE  WorkerOK(v)'
<1>1. TypeOK /\ at[v] \in 0 .. Len(kafka) /\ next[v] \in 0 .. Len(kafka) /\ Len(kafka) \in Nat
  BY DEF IInv, TypeOK
<1>2. Done(next[v]) => (Done(next[v]))'
  <2> HAVE Done(next[v])
  <2> DEFINE n == next[v]
  <2>1. n \in Int /\ n <= Len(kafka) /\ Done(n)
    BY <1>1
  <2>2. n' = n
    OBVIOUS
  <2> HIDE DEF n
  <2>3. \A i \in 1 .. n : kafka'[i] \in docs' \cup dlq'
    BY <1>1, <2>1 DEF Done
  <2> QED
    BY <2>2, <2>3 DEF Done, n
<1>3. at[v] >= 1 /\ Done(at[v] - 1) => (Done(at[v] - 1))'
  BY <1>1 DEF Done
<1>4. at[v] >= 1 => InHand(v)' = InHand(v)
  BY <1>1 DEF InHand
<1>5. WorkerOK(v)
  BY DEF IInv, WorkersOK
<1> QED
  BY <1>2, <1>3, <1>4, <1>5 DEF WorkerOK

\* A step of one worker: the others are where they were.
LEMMA OneWorker ==
  ASSUME IInv, NEW w \in Workers, kafka' = kafka, docs \subseteq docs', dlq \subseteq dlq',
         \A v \in Workers \ {w} : wstep'[v] = wstep[v] /\ at'[v] = at[v] /\ next'[v] = next[v],
         WorkerOK(w)', owner' # NoWorker => wstep'[owner'] # "down"
  PROVE  WorkersOK'
<1>1. ASSUME NEW v \in Workers PROVE WorkerOK(v)'
  BY OtherWorker
<1> QED
  BY <1>1 DEF WorkersOK

\* The Gateway appends: offsets and the messages before them stay.
LEMMA ProduceStep ==
  ASSUME IInv, Produce
  PROVE  IInv'
<1>1. UNCHANGED <<owner, next, wstep, at, try, derived, committed, docs, searchable, incident, dlq>>
  BY DEF Produce, workerVars, indexVars
<1>2. PICK b \in Batches : kafka' = Append(kafka, b)
  BY DEF Produce
<1>3. kafka \in Seq(Batches)
  BY DEF IInv, TypeOK
<1>4. /\ kafka' \in Seq(Batches) /\ Len(kafka') = Len(kafka) + 1 /\ Len(kafka) \in Nat
      /\ \A i \in 1 .. Len(kafka) : kafka'[i] = kafka[i]
  BY <1>2, <1>3
<1>5. TypeOK'
  BY <1>1, <1>4 DEF IInv, TypeOK
<1>6. WorkersOK'
  <2>1. ASSUME NEW v \in Workers PROVE WorkerOK(v)'
    BY <1>1, <1>4, OtherWorker
  <2> QED
    BY <1>1, <2>1 DEF IInv, WorkersOK
<1>7. CommittedProjected'
  BY <1>1, <1>4 DEF IInv, TypeOK, CommittedProjected, Done
<1> QED
  BY <1>5, <1>6, <1>7 DEF IInv

\* The message in hand is a message of the topic.
LEMMA InHandBatch ==
  ASSUME IInv, NEW w \in Workers, wstep[w] \in {"history", "bulk", "save", "reject", "commit"}
  PROVE  at[w] \in 1 .. Len(kafka) /\ InHand(w) \in Batches
  BY DEF IInv, TypeOK, WorkersOK, WorkerOK, InHand

\* No step without a commit disturbs the committed offset.
LEMMA NoCommit ==
  ASSUME IInv, kafka' = kafka, committed' = committed, docs \subseteq docs', dlq \subseteq dlq'
  PROVE  CommittedProjected'
  BY DEF IInv, CommittedProjected, Done

\* A worker exits and gives the partition up.
LEMMA ExitsStep ==
  ASSUME IInv, NEW w \in Workers, Exits(w), kafka' = kafka, docs \subseteq docs', dlq \subseteq dlq'
  PROVE  /\ WorkersOK'
         /\ owner' \in Workers \cup {NoWorker} /\ try' \in [Workers -> 0 .. Attempts]
         /\ wstep' \in [Workers -> {"down", "idle", "history", "bulk", "save", "reject", "commit"}]
         /\ at' \in [Workers -> 0 .. Len(kafka)] /\ next' \in [Workers -> 0 .. Len(kafka)]
         /\ derived' \in [Workers -> SUBSET Batches]
<1>1. /\ wstep' = [wstep EXCEPT ![w] = "down"] /\ owner' = IF owner = w THEN NoWorker ELSE owner
      /\ next' = [next EXCEPT ![w] = 0] /\ at' = [at EXCEPT ![w] = 0]
      /\ try' = [try EXCEPT ![w] = 0] /\ derived' = [derived EXCEPT ![w] = {}]
  BY DEF Exits, Work
<1>2. /\ Len(kafka) \in Nat /\ Attempts \in Nat /\ owner \in Workers \cup {NoWorker} /\ NoWorker \notin Workers
      /\ wstep \in [Workers -> {"down", "idle", "history", "bulk", "save", "reject", "commit"}]
      /\ at \in [Workers -> 0 .. Len(kafka)] /\ next \in [Workers -> 0 .. Len(kafka)]
      /\ try \in [Workers -> 0 .. Attempts] /\ derived \in [Workers -> SUBSET Batches]
  BY WorkerAssumption DEF IInv, TypeOK
<1>3. wstep'[w] = "down" /\ next'[w] = 0
  BY <1>1, <1>2
<1>4. WorkerOK(w)'
  BY <1>3 DEF WorkerOK, Done
<1>5. \A v \in Workers \ {w} : wstep'[v] = wstep[v] /\ at'[v] = at[v] /\ next'[v] = next[v]
  BY <1>1, <1>2
<1>6. owner' # NoWorker => wstep'[owner'] # "down"
  BY <1>1, <1>2 DEF IInv, WorkersOK
<1>7. WorkersOK'
  BY <1>4, <1>5, <1>6, OneWorker
<1> QED
  BY <1>1, <1>2, <1>7

\* A worker goes on with the message in its hands.
LEMMA GoesOn ==
  ASSUME IInv, NEW w \in Workers, wstep[w] \in {"history", "bulk", "save", "reject", "commit"},
         NEW s \in {"history", "bulk", "save", "reject", "commit"}, Work(w, s),
         UNCHANGED <<kafka, owner, next, at>>, docs \subseteq docs', dlq \subseteq dlq',
         s \in {"save", "commit"} => InHand(w) \in docs' \cup dlq'
  PROVE  /\ WorkersOK'
         /\ wstep' \in [Workers -> {"down", "idle", "history", "bulk", "save", "reject", "commit"}]
<1>1. /\ wstep \in [Workers -> {"down", "idle", "history", "bulk", "save", "reject", "commit"}]
      /\ wstep' = [wstep EXCEPT ![w] = s]
  BY DEF IInv, TypeOK, Work
<1>2. wstep'[w] = s /\ \A v \in Workers \ {w} : wstep'[v] = wstep[v]
  BY <1>1
<1>3. at[w] >= 1 /\ Done(at[w] - 1) /\ (next[w] = at[w] \/ Done(next[w]))
  BY Zenon DEF IInv, WorkersOK, WorkerOK
<1>4. /\ (at[w] >= 1)' /\ Done(at[w] - 1)' /\ (next[w] = at[w] \/ Done(next[w]))'
      /\ InHand(w)' = InHand(w)
  BY <1>3 DEF Done, InHand
<1>5. WorkerOK(w)'
  BY <1>2, <1>4 DEF WorkerOK
<1>6. owner' # NoWorker => wstep'[owner'] # "down"
  BY <1>1 DEF IInv, WorkersOK
<1>7. WorkersOK'
  BY <1>2, <1>5, <1>6, OneWorker
<1> QED
  BY <1>1, <1>7

\* A transient error: the message stays in hand for another attempt, or the
\* worker exits; documents may have been stored.
LEMMA AgainStep ==
  ASSUME NEW w \in Workers, IInv, wstep[w] \in {"history", "bulk", "save"}, Again(w),
         UNCHANGED <<kafka, committed, dlq>>, docs \subseteq docs', docs' \subseteq Batches,
         searchable' \subseteq docs', incident' \subseteq Batches
  PROVE  IInv'
<1>1. CommittedProjected'
  BY NoCommit
<1>2. CASE try[w] + 1 < Attempts
  <2>1. /\ try' = [try EXCEPT ![w] = @ + 1] /\ derived' = [derived EXCEPT ![w] = {}]
        /\ Work(w, "history") /\ UNCHANGED <<owner, next, at>>
    BY <1>2 DEF Again
  <2>2. try' \in [Workers -> 0 .. Attempts]
    BY <1>2, <2>1, WorkerAssumption DEF IInv, TypeOK
  <2>3. WorkersOK' /\ wstep' \in [Workers -> {"down", "idle", "history", "bulk", "save", "reject", "commit"}]
    BY <2>1, GoesOn
  <2>4. TypeOK'
    BY <2>1, <2>2, <2>3 DEF IInv, TypeOK
  <2> QED
    BY <1>1, <2>3, <2>4 DEF IInv
<1>3. CASE ~(try[w] + 1 < Attempts)
  <2>1. Exits(w)
    BY <1>3 DEF Again
  <2>2. TypeOK' /\ WorkersOK'
    BY <2>1, ExitsStep DEF IInv, TypeOK
  <2> QED
    BY <1>1, <2>2 DEF IInv
<1> QED
  BY <1>2, <1>3

\* The history cannot be read.
LEMMA HistoryFailsStep ==
  ASSUME NEW w \in Workers, IInv, HistoryFails(w)
  PROVE  IInv'
<1>1. docs' = docs /\ searchable' = searchable /\ incident' = incident /\ UNCHANGED <<kafka, committed, dlq>>
  BY DEF HistoryFails, indexVars
<1> QED
  BY <1>1, AgainStep DEF HistoryFails, IInv, TypeOK

\* The metadata cannot be saved.
LEMMA SaveFailsStep ==
  ASSUME NEW w \in Workers, IInv, SaveFails(w)
  PROVE  IInv'
<1>1. docs' = docs /\ searchable' = searchable /\ incident' = incident /\ UNCHANGED <<kafka, committed, dlq>>
  BY DEF SaveFails, indexVars
<1> QED
  BY <1>1, AgainStep DEF SaveFails, IInv, TypeOK

\* Some documents are stored, and the attempt is repeated.
LEMMA BulkFailsTransientStep ==
  ASSUME NEW w \in Workers, IInv, BulkFailsTransient(w)
  PROVE  IInv'
<1>1. InHand(w) \in Batches
  BY InHandBatch DEF BulkFailsTransient
<1>2. UNCHANGED <<kafka, committed, dlq>>
  BY DEF BulkFailsTransient
<1>3. PICK items \in SUBSET {"batch", "incident"} : Index(w, items)
  BY DEF BulkFailsTransient
<1>4. docs \subseteq docs' /\ docs' \subseteq Batches /\ searchable' \subseteq docs' /\ incident' \subseteq Batches
  BY <1>1, <1>3 DEF Index, IInv, TypeOK
<1> QED
  BY <1>2, <1>4, AgainStep DEF BulkFailsTransient

\* The process dies.
LEMMA WorkerExitStep ==
  ASSUME NEW w \in Workers, IInv, WorkerExit(w)
  PROVE  IInv'
<1>1. Exits(w) /\ UNCHANGED <<kafka, committed, docs, searchable, incident, dlq>>
  BY DEF WorkerExit, indexVars
<1>2. TypeOK' /\ WorkersOK'
  BY <1>1, ExitsStep DEF IInv, TypeOK
<1>3. CommittedProjected'
  BY <1>1, NoCommit
<1> QED
  BY <1>2, <1>3 DEF IInv

\* The analysis.
LEMMA ReadHistoryStep ==
  ASSUME NEW w \in Workers, IInv, ReadHistory(w)
  PROVE  IInv'
<1>1. InHand(w) \in Batches
  BY InHandBatch DEF ReadHistory
<1>2. UNCHANGED <<kafka, owner, next, at, try, committed>> /\ wstep[w] = "history" /\ Work(w, "bulk")
  BY DEF ReadHistory
<1>3. /\ docs \subseteq docs' /\ docs' \subseteq Batches /\ searchable' \subseteq docs' /\ incident' \subseteq Batches
      /\ dlq \subseteq dlq' /\ dlq' \subseteq Batches /\ derived' \in [Workers -> SUBSET Batches]
  BY <1>1 DEF ReadHistory, indexVars, Recent, IInv, TypeOK
<1>4. WorkersOK' /\ wstep' \in [Workers -> {"down", "idle", "history", "bulk", "save", "reject", "commit"}]
  BY <1>2, <1>3, GoesOn
<1>5. TypeOK'
  BY <1>2, <1>3, <1>4 DEF IInv, TypeOK
<1>6. CommittedProjected'
  BY <1>2, <1>3, NoCommit
<1> QED
  BY <1>4, <1>5, <1>6 DEF IInv

\* All documents are stored.
LEMMA BulkIndexStep ==
  ASSUME NEW w \in Workers, IInv, BulkIndex(w)
  PROVE  IInv'
<1>1. InHand(w) \in Batches
  BY InHandBatch DEF BulkIndex
<1>2. UNCHANGED <<kafka, owner, next, at, try, committed>> /\ wstep[w] = "bulk" /\ Work(w, "save")
  BY DEF BulkIndex
<1>3. /\ docs \subseteq docs' /\ docs' \subseteq Batches /\ searchable' \subseteq docs' /\ incident' \subseteq Batches
      /\ dlq \subseteq dlq' /\ dlq' \subseteq Batches /\ derived' \in [Workers -> SUBSET Batches]
      /\ InHand(w) \in docs' \cup dlq'
  BY <1>1 DEF BulkIndex, Index, IInv, TypeOK
<1>4. WorkersOK' /\ wstep' \in [Workers -> {"down", "idle", "history", "bulk", "save", "reject", "commit"}]
  BY <1>2, <1>3, GoesOn
<1>5. TypeOK'
  BY <1>2, <1>3, <1>4 DEF IInv, TypeOK
<1>6. CommittedProjected'
  BY <1>2, <1>3, NoCommit
<1> QED
  BY <1>4, <1>5, <1>6 DEF IInv

\* Some documents are stored, and the message is rejected.
LEMMA BulkFailsPermanentStep ==
  ASSUME NEW w \in Workers, IInv, BulkFailsPermanent(w)
  PROVE  IInv'
<1>1. InHand(w) \in Batches
  BY InHandBatch DEF BulkFailsPermanent
<1>2. UNCHANGED <<kafka, owner, next, at, try, committed>> /\ wstep[w] = "bulk" /\ Work(w, "reject")
  BY DEF BulkFailsPermanent
<1>3. /\ docs \subseteq docs' /\ docs' \subseteq Batches /\ searchable' \subseteq docs' /\ incident' \subseteq Batches
      /\ dlq \subseteq dlq' /\ dlq' \subseteq Batches /\ derived' \in [Workers -> SUBSET Batches]
  BY <1>1 DEF BulkFailsPermanent, Index, IInv, TypeOK
<1>4. WorkersOK' /\ wstep' \in [Workers -> {"down", "idle", "history", "bulk", "save", "reject", "commit"}]
  BY <1>2, <1>3, GoesOn
<1>5. TypeOK'
  BY <1>2, <1>3, <1>4 DEF IInv, TypeOK
<1>6. CommittedProjected'
  BY <1>2, <1>3, NoCommit
<1> QED
  BY <1>4, <1>5, <1>6 DEF IInv

\* The metadata are saved.
LEMMA SaveStateStep ==
  ASSUME NEW w \in Workers, IInv, SaveState(w)
  PROVE  IInv'
<1>1. InHand(w) \in Batches
  BY InHandBatch DEF SaveState
<1>2. UNCHANGED <<kafka, owner, next, at, try, committed>> /\ wstep[w] = "save" /\ Work(w, "commit")
  BY DEF SaveState
<1>3. /\ docs \subseteq docs' /\ docs' \subseteq Batches /\ searchable' \subseteq docs' /\ incident' \subseteq Batches
      /\ dlq \subseteq dlq' /\ dlq' \subseteq Batches /\ derived' \in [Workers -> SUBSET Batches]
      /\ InHand(w) \in docs' \cup dlq'
  BY <1>1 DEF SaveState, indexVars, WorkersOK, WorkerOK, IInv, TypeOK
<1>4. WorkersOK' /\ wstep' \in [Workers -> {"down", "idle", "history", "bulk", "save", "reject", "commit"}]
  BY <1>2, <1>3, GoesOn
<1>5. TypeOK'
  BY <1>2, <1>3, <1>4 DEF IInv, TypeOK
<1>6. CommittedProjected'
  BY <1>2, <1>3, NoCommit
<1> QED
  BY <1>4, <1>5, <1>6 DEF IInv

\* The dead letter.
LEMMA RejectStep ==
  ASSUME NEW w \in Workers, IInv, Reject(w)
  PROVE  IInv'
<1>1. InHand(w) \in Batches
  BY InHandBatch DEF Reject
<1>2. UNCHANGED <<kafka, owner, next, at, try, committed>> /\ wstep[w] = "reject" /\ Work(w, "commit")
  BY DEF Reject
<1>3. /\ docs \subseteq docs' /\ docs' \subseteq Batches /\ searchable' \subseteq docs' /\ incident' \subseteq Batches
      /\ dlq \subseteq dlq' /\ dlq' \subseteq Batches /\ derived' \in [Workers -> SUBSET Batches]
      /\ InHand(w) \in docs' \cup dlq'
  BY <1>1 DEF Reject, indexVars, IInv, TypeOK
<1>4. WorkersOK' /\ wstep' \in [Workers -> {"down", "idle", "history", "bulk", "save", "reject", "commit"}]
  BY <1>2, <1>3, GoesOn
<1>5. TypeOK'
  BY <1>2, <1>3, <1>4 DEF IInv, TypeOK
<1>6. CommittedProjected'
  BY <1>2, <1>3, NoCommit
<1> QED
  BY <1>4, <1>5, <1>6 DEF IInv

\* A worker starts without the partition.
LEMMA WorkerStartStep ==
  ASSUME NEW w \in Workers, IInv, WorkerStart(w)
  PROVE  IInv'
<1>1. /\ UNCHANGED <<kafka, owner, next, at, try, derived, committed, docs, searchable, incident, dlq>>
      /\ wstep[w] = "down" /\ wstep' = [wstep EXCEPT ![w] = "idle"]
  BY DEF WorkerStart, Work, indexVars
<1>2. TypeOK'
  BY <1>1 DEF IInv, TypeOK
<1>3. wstep'[w] = "idle" /\ \A v \in Workers \ {w} : wstep'[v] = wstep[v]
  BY <1>1 DEF IInv, TypeOK
<1>4. Done(next[w])
  BY <1>1, Zenon DEF IInv, WorkersOK, WorkerOK
<1>5. WorkerOK(w)'
  BY <1>1, <1>3, <1>4 DEF WorkerOK, Done
<1>6. owner' # NoWorker => wstep'[owner'] # "down"
  BY <1>1 DEF IInv, TypeOK, WorkersOK
<1>7. WorkersOK'
  BY <1>1, <1>3, <1>5, <1>6, OneWorker
<1>8. CommittedProjected'
  BY <1>1, NoCommit
<1> QED
  BY <1>2, <1>7, <1>8 DEF IInv

\* The new owner reads on from the committed offset, before which all is done.
LEMMA AssignStep ==
  ASSUME NEW w \in Workers, IInv, Assign(w)
  PROVE  IInv'
<1>1. /\ UNCHANGED <<kafka, wstep, at, try, derived, committed, docs, searchable, incident, dlq>>
      /\ wstep[w] # "down" /\ owner' = w /\ next' = [next EXCEPT ![w] = committed]
  BY DEF Assign, indexVars
<1>2. TypeOK'
  BY <1>1 DEF IInv, TypeOK
<1>3. next'[w] = committed /\ \A v \in Workers \ {w} : next'[v] = next[v]
  BY <1>1 DEF IInv, TypeOK
<1>4. Done(next[w])' /\ (Done(at[w] - 1) => Done(at[w] - 1)')
  BY <1>1, <1>3 DEF IInv, CommittedProjected, Done
<1>5. WorkerOK(w)'
  BY <1>1, <1>4 DEF IInv, WorkersOK, WorkerOK, InHand
<1>6. WorkersOK'
  BY <1>1, <1>3, <1>5, OneWorker
<1>7. CommittedProjected'
  BY <1>1, NoCommit
<1> QED
  BY <1>2, <1>6, <1>7 DEF IInv

\* The owner takes the next message.
LEMMA FetchStep ==
  ASSUME NEW w \in Workers, IInv, Fetch(w)
  PROVE  IInv'
<1>1. UNCHANGED <<kafka, owner, try, derived, committed, docs, searchable, incident, dlq>>
  BY DEF Fetch, indexVars
<1>2. PICK s \in {"reject", "history"} : wstep' = [wstep EXCEPT ![w] = s]
  BY DEF Fetch, Work
<1>3. /\ wstep[w] = "idle" /\ owner = w /\ next[w] < Len(kafka)
      /\ next' = [next EXCEPT ![w] = next[w] + 1] /\ at' = [at EXCEPT ![w] = next[w] + 1]
  BY DEF Fetch
<1>4. next[w] \in 0 .. Len(kafka) /\ Len(kafka) \in Nat /\ Done(next[w])
  BY <1>3 DEF IInv, TypeOK, WorkersOK, WorkerOK
<1>5. TypeOK'
  BY <1>1, <1>2, <1>3, <1>4 DEF IInv, TypeOK
<1>6. /\ wstep'[w] = s /\ next'[w] = next[w] + 1 /\ at'[w] = next[w] + 1
      /\ \A v \in Workers \ {w} : wstep'[v] = wstep[v] /\ at'[v] = at[v] /\ next'[v] = next[v]
  BY <1>2, <1>3 DEF IInv, TypeOK
<1>7. at'[w] - 1 = next[w] /\ at'[w] >= 1
  BY <1>4, <1>6
<1>8. Done(at[w] - 1)'
  BY <1>1, <1>4, <1>7 DEF Done
<1>9. WorkerOK(w)'
  BY <1>6, <1>7, <1>8 DEF WorkerOK
<1>10. owner' # NoWorker => wstep'[owner'] # "down"
  BY <1>1, <1>3, <1>6
<1>11. WorkersOK'
  BY <1>1, <1>6, <1>9, <1>10, OneWorker
<1>12. CommittedProjected'
  BY <1>1, NoCommit
<1> QED
  BY <1>5, <1>11, <1>12 DEF IInv

\* All messages up to the one a worker is about to commit are done.
LEMMA CommitDone ==
  ASSUME IInv, NEW w \in Workers, wstep[w] = "commit"
  PROVE  at[w] \in 1 .. Len(kafka) /\ Done(at[w]) /\ Done(next[w])
<1>1. at[w] \in 1 .. Len(kafka) /\ Len(kafka) \in Nat
  BY InHandBatch DEF IInv, TypeOK
<1>2. Done(at[w] - 1) /\ (next[w] = at[w] \/ Done(next[w])) /\ kafka[at[w]] \in docs \cup dlq
  BY DEF IInv, WorkersOK, WorkerOK, InHand
<1>3. Done(at[w])
  BY <1>1, <1>2 DEF Done
<1> QED
  BY <1>1, <1>2, <1>3

\* The commit, whoever owns the partition.
LEMMA CommitStep ==
  ASSUME NEW w \in Workers, IInv, Commit(w)
  PROVE  IInv'
<1>1. /\ UNCHANGED <<kafka, owner, next, derived, docs, searchable, incident, dlq>>
      /\ wstep[w] = "commit" /\ wstep' = [wstep EXCEPT ![w] = "idle"] /\ committed' = at[w]
      /\ at' = [at EXCEPT ![w] = 0] /\ try' = [try EXCEPT ![w] = 0]
  BY DEF Commit, Work, indexVars
<1>2. at[w] \in 1 .. Len(kafka) /\ Done(at[w]) /\ Done(next[w])
  BY <1>1, CommitDone
<1>3. TypeOK'
  BY <1>1, <1>2, WorkerAssumption DEF IInv, TypeOK
<1>4. wstep'[w] = "idle" /\ \A v \in Workers \ {w} : wstep'[v] = wstep[v] /\ at'[v] = at[v] /\ next'[v] = next[v]
  BY <1>1 DEF IInv, TypeOK
<1>5. Done(next[w])' /\ CommittedProjected'
  BY <1>1, <1>2 DEF Done, CommittedProjected
<1>6. WorkerOK(w)'
  BY <1>4, <1>5 DEF WorkerOK
<1>7. owner' # NoWorker => wstep'[owner'] # "down"
  BY <1>1 DEF IInv, TypeOK, WorkersOK
<1>8. WorkersOK'
  BY <1>1, <1>4, <1>6, <1>7, OneWorker
<1> QED
  BY <1>3, <1>5, <1>8 DEF IInv

\* A commit whose answer is lost.
LEMMA CommitUnheardStep ==
  ASSUME NEW w \in Workers, IInv, CommitUnheard(w)
  PROVE  IInv'
<1>1. /\ UNCHANGED <<kafka, docs, searchable, incident, dlq>>
      /\ wstep[w] = "commit" /\ Exits(w) /\ committed' = at[w]
  BY DEF CommitUnheard, indexVars
<1>2. at[w] \in 1 .. Len(kafka) /\ Done(at[w])
  BY <1>1, CommitDone
<1>3. TypeOK' /\ WorkersOK'
  BY <1>1, <1>2, ExitsStep DEF IInv, TypeOK
<1>4. CommittedProjected'
  BY <1>1, <1>2 DEF Done, CommittedProjected
<1> QED
  BY <1>3, <1>4 DEF IInv

\* A refresh makes documents searchable.
LEMMA RefreshStep ==
  ASSUME IInv, Refresh
  PROVE  IInv'
  BY DEF Refresh, workerVars, IInv, TypeOK, WorkersOK, WorkerOK, CommittedProjected, InHand, Done

\* Nothing happens.
LEMMA Stutter ==
  ASSUME IInv, UNCHANGED vars
  PROVE  IInv'
  BY DEF vars, workerVars, indexVars, IInv, TypeOK, WorkersOK, WorkerOK, CommittedProjected, InHand, Done

\* Every step keeps the invariant.
LEMMA StepInv == IInv /\ [Next]_vars => IInv'
<1> SUFFICES ASSUME IInv, [Next]_vars PROVE IInv'
  OBVIOUS
<1>1. CASE Produce
  BY <1>1, ProduceStep
<1>2. CASE Refresh
  BY <1>2, RefreshStep
<1>3. ASSUME NEW w \in Workers, Worker(w) PROVE IInv'
  BY <1>3, WorkerExitStep, WorkerStartStep, AssignStep, FetchStep, ReadHistoryStep, HistoryFailsStep, BulkIndexStep, BulkFailsTransientStep, BulkFailsPermanentStep, SaveStateStep, SaveFailsStep, RejectStep, CommitStep, CommitUnheardStep DEF Worker, Progress
<1>4. CASE UNCHANGED vars
  BY <1>4, Stutter
<1> QED
  BY <1>1, <1>2, <1>3, <1>4 DEF Next

\* In every reachable state the invariant holds.
THEOREM Invariance == Spec => []IInv
  BY InitInv, StepInv, PTL DEF Spec

\* Every variable keeps its type; offsets stay within the topic.
THEOREM TypeCorrect == Spec => []TypeOK
<1>1. IInv => TypeOK
  BY DEF IInv
<1> QED
  BY <1>1, Invariance, PTL

\* Worker.Run never commits an offset past a message that is neither projected
\* nor in the dead letter topic, with any number of workers in the group and
\* although the consumer also commits for a partition it has lost.
THEOREM Projected == Spec => []CommittedProjected
<1>1. IInv => CommittedProjected
  BY DEF IInv
<1> QED
  BY <1>1, Invariance, PTL

\* Whatever rebalances, failures and late commits came before, the consumer of a
\* worker has never passed a message that nobody projected or dead-lettered.
THEOREM SkipsNothing == Spec => []NothingSkipped
<1>1. IInv => NothingSkipped
  BY DEF IInv, WorkersOK, WorkerOK, NothingSkipped
<1> QED
  BY <1>1, Invariance, PTL

=============================================================================
