----------------------- MODULE ControlCommandsProofs -----------------------
(* Type correctness of ControlCommands, and that every recorded outcome is  *)
(* one the agent reported, for any number of handlers in both processes.    *)
EXTENDS ControlCommands, TLAPS

\* The inductive invariant: an outcome may sit in a working set, a row just
\* read, a snapshot or an ack for any time before a save writes it.
IInv == TypeOK /\ UpdateKnown /\ CopiesReal /\ OutcomeReported

Ops == Requests \cup Answers \cup {"hello"}

\* The statuses of which the agent says nothing are real.
LEMMA OtherReal == \A s \in {"none", "pending", "sent", "canceled"} : s \in Known /\ Real(s)
  BY DEF Known, Terminal, Outcomes, Real

\* applyControlCommandAck records what the agent answered.
LEMMA RecordedReal ==
  ASSUME NEW a \in Answers, a \in reported
  PROVE  Recorded(a) \in Known /\ Real(Recorded(a))
  BY ControlAssumption DEF Recorded, Real, InForce, Known, Terminal, Outcomes

\* Updated keeps statuses among the known ones and invents no outcome.
LEMMA UpdatedReal ==
  ASSUME NEW o \in Ops, NEW s \in Known, o \in Answers => o \in reported, Real(s)
  PROVE  Updated(o, s) \in Known /\ Real(Updated(o, s))
<1>1. CASE o \in Requests \cup {"hello"}
  BY <1>1, OtherReal DEF Updated, Requests
<1>2. CASE o \in Answers
  <2>1. Updated(o, s) = Recorded(o)
    BY <1>2, ControlAssumption DEF Updated
  <2>2. QED
    BY <1>2, <2>1, RecordedReal
<1>3. QED
  BY <1>1, <1>2 DEF Ops

\* The first status is none, which is no outcome.
LEMMA InitIInv == Init => IInv
<1>1. "none" \in Known /\ Real("none") /\ "save" \notin Answers
  BY OtherReal, ControlAssumption
<1>2. SUFFICES ASSUME Init PROVE IInv
  OBVIOUS
<1>3. TypeOK
  BY <1>1, <1>2 DEF Init, TypeOK
<1>4. UpdateKnown
  BY <1>2 DEF Init, UpdateKnown
<1>5. CopiesReal /\ OutcomeReported
  BY <1>1, <1>2 DEF Init, CopiesReal, OutcomeReported, Real
<1>6. QED
  BY <1>3, <1>4, <1>5 DEF IInv

-----------------------------------------------------------------------------
(* A call begins.                                                          *)

\* A request of an operator is no outcome.
LEMMA RequestStep ==
  ASSUME IInv, NEW h \in Operators, NEW o \in Requests, Request(h, o)
  PROVE  IInv'
<1>1. h \in Handlers /\ o \notin Answers /\ o # "save" /\ o \in Requests \cup Answers \cup {"hello", "save"}
  BY ControlAssumption DEF Handlers, Requests
<1>2. TypeOK'
  BY <1>1 DEF IInv, TypeOK, Request, Go, agentVars
<1>3. UpdateKnown'
  BY <1>1 DEF IInv, TypeOK, UpdateKnown, Request, Go
<1>4. CopiesReal' /\ OutcomeReported'
  BY <1>1 DEF IInv, TypeOK, CopiesReal, OutcomeReported, Real, Request, agentVars
<1>5. QED
  BY <1>2, <1>3, <1>4 DEF IInv

\* Another call of the process changes no status.
LEMMA OtherStep ==
  ASSUME IInv, NEW h \in Handlers, Other(h)
  PROVE  IInv'
<1>1. TypeOK'
  BY DEF IInv, TypeOK, Other, Go, agentVars
<1>2. UpdateKnown'
  BY DEF IInv, TypeOK, UpdateKnown, Other, Go
<1>3. CopiesReal' /\ OutcomeReported'
  BY DEF IInv, CopiesReal, OutcomeReported, Real, Other, agentVars
<1>4. QED
  BY <1>1, <1>2, <1>3 DEF IInv

\* A hello is no outcome.
LEMMA ConnectStep ==
  ASSUME IInv, NEW h \in Streams, Connect(h)
  PROVE  IInv'
<1>1. h \in Handlers /\ "hello" \notin Answers
  BY ControlAssumption DEF Handlers
<1>2. TypeOK'
  BY <1>1 DEF IInv, TypeOK, Connect, Go
<1>3. UpdateKnown'
  BY <1>1 DEF IInv, TypeOK, UpdateKnown, Connect, Go
<1>4. CopiesReal' /\ OutcomeReported'
  BY <1>1 DEF IInv, TypeOK, CopiesReal, OutcomeReported, Real, Connect
<1>5. QED
  BY <1>2, <1>3, <1>4 DEF IInv

\* An ack in flight is an outcome the agent reported.
LEMMA ReceiveAckStep ==
  ASSUME IInv, NEW h \in Streams, NEW o \in Answers, ReceiveAck(h, o)
  PROVE  IInv'
<1>1. h \in Handlers /\ o # "save" /\ o \in reported
  BY ControlAssumption DEF Handlers, IInv, CopiesReal, ReceiveAck
<1>2. TypeOK'
  BY <1>1 DEF IInv, TypeOK, ReceiveAck, Go
<1>3. UpdateKnown'
  BY <1>1 DEF IInv, TypeOK, UpdateKnown, ReceiveAck, Go
<1>4. CopiesReal' /\ OutcomeReported'
  BY <1>1 DEF IInv, TypeOK, CopiesReal, OutcomeReported, Real, ReceiveAck
<1>5. QED
  BY <1>2, <1>3, <1>4 DEF IInv

-----------------------------------------------------------------------------
(* A call goes on.                                                         *)

\* The working set of a handler's process.
LEMMA HomeProcess == \A h : Home(h) \in Processes
BY DEF Home, Processes

\* List writes no status.
LEMMA ListStep ==
  ASSUME IInv, NEW h \in Handlers, List(h)
  PROVE  IInv'
<1>1. \/ Go(h, "update") /\ UNCHANGED op
      \/ Go(h, "snapshot") /\ op' = [op EXCEPT ![h] = "save"]
  BY DEF List
<1>2. "save" \notin Answers
  BY ControlAssumption
<1>3. step[h] = "list" /\ UNCHANGED <<mem, row, found, snap, link, frame, acks, reported, answered, told, faults>>
  BY DEF List, agentVars
<1>4. TypeOK'
  BY <1>1, <1>3 DEF IInv, TypeOK, Go
<1>5. CopiesReal' /\ OutcomeReported'
  BY <1>1, <1>2, <1>3 DEF IInv, TypeOK, CopiesReal, OutcomeReported, Real
<1>6. UpdateKnown'
  <2>1. CASE Go(h, "update") /\ UNCHANGED op
    BY <2>1, <1>3 DEF IInv, TypeOK, UpdateKnown, Go
  <2>2. CASE Go(h, "snapshot") /\ op' = [op EXCEPT ![h] = "save"]
    BY <2>2 DEF IInv, TypeOK, UpdateKnown, Go
  <2>3. QED
    BY <1>1, <2>1, <2>2
<1>7. QED
  BY <1>4, <1>5, <1>6 DEF IInv

\* The working set gets the updated status.
LEMMA UpdateCopyStep ==
  ASSUME IInv, NEW h \in Handlers, UpdateCopy(h)
  PROVE  IInv'
<1> DEFINE u == Updated(op[h], mem[Home(h)])
<1>1. Home(h) \in Processes /\ mem[Home(h)] \in Known /\ op[h] \in Ops /\ (op[h] \in Answers => op[h] \in reported) /\ Real(mem[Home(h)])
  BY HomeProcess DEF IInv, TypeOK, CopiesReal, UpdateKnown, UpdateCopy, Ops
<1>2. u \in Known /\ Real(u)
  BY <1>1, UpdatedReal
<1>3. /\ mem' = [mem EXCEPT ![Home(h)] = u] /\ found' = [found EXCEPT ![h] = u]
      /\ step' = [step EXCEPT ![h] = "snapshot"]
      /\ UNCHANGED <<row, op, snap, link, frame, acks, reported, told, faults>> /\ answered' \in BOOLEAN
  BY DEF UpdateCopy, Go, Asked
<1> HIDE DEF u
<1>4. TypeOK'
  BY <1>1, <1>2, <1>3 DEF IInv, TypeOK
<1>5. UpdateKnown'
  BY <1>3 DEF IInv, TypeOK, UpdateKnown
<1>6. CopiesReal' /\ OutcomeReported'
  BY <1>1, <1>2, <1>3 DEF IInv, TypeOK, CopiesReal, OutcomeReported, Real
<1>7. QED
  BY <1>4, <1>5, <1>6 DEF IInv

\* A call that returns forgets what it held.
LEMMA ReturnStep ==
  ASSUME IInv, NEW h \in Handlers, Return(h), UNCHANGED <<mem, reported>>, acks' \subseteq acks
  PROVE  /\ step' \in [Handlers -> {"idle", "list", "update", "upsert", "snapshot", "save"}]
         /\ op' \in [Handlers -> Requests \cup Answers \cup {"hello", "save"}]
         /\ found' \in [Handlers -> Known] /\ snap' \in [Handlers -> Known]
         /\ UpdateKnown' /\ CopiesReal'
<1>1. "none" \in Known /\ Real("none") /\ "save" \notin Answers
  BY OtherReal, ControlAssumption
<1>2. /\ step' \in [Handlers -> {"idle", "list", "update", "upsert", "snapshot", "save"}]
      /\ op' \in [Handlers -> Requests \cup Answers \cup {"hello", "save"}]
      /\ found' \in [Handlers -> Known] /\ snap' \in [Handlers -> Known]
  BY <1>1 DEF IInv, TypeOK, Return, Go
<1>3. UpdateKnown'
  BY DEF IInv, TypeOK, UpdateKnown, Return, Go
<1>4. CopiesReal'
  BY <1>1 DEF IInv, TypeOK, CopiesReal, Real, Return
<1>5. QED
  BY <1>2, <1>3, <1>4

\* The row's status is real, and so is its update.
LEMMA ReadRowStep ==
  ASSUME IInv, NEW h \in Handlers, ReadRow(h)
  PROVE  IInv'
<1> DEFINE u == Updated(op[h], row)
<1>1. row \in Known /\ op[h] \in Ops /\ (op[h] \in Answers => op[h] \in reported) /\ Real(row)
  BY DEF IInv, TypeOK, CopiesReal, OutcomeReported, UpdateKnown, ReadRow, Ops
<1>2. u \in Known /\ Real(u)
  BY <1>1, UpdatedReal
<1>3. UNCHANGED <<mem, row, link, frame, acks, reported, told, faults>> /\ answered' \in BOOLEAN
  BY DEF ReadRow, agentVars, Asked, IInv, TypeOK
<1>4. \/ found' = [found EXCEPT ![h] = u] /\ step' = [step EXCEPT ![h] = "upsert"] /\ UNCHANGED <<op, snap>>
      \/ step' = [step EXCEPT ![h] = "snapshot"] /\ UNCHANGED <<op, found, snap>>
      \/ Return(h)
  BY DEF ReadRow, Go
<1> HIDE DEF u
<1>5. CASE found' = [found EXCEPT ![h] = u] /\ step' = [step EXCEPT ![h] = "upsert"] /\ UNCHANGED <<op, snap>>
  <2>1. TypeOK'
    BY <1>2, <1>3, <1>5 DEF IInv, TypeOK
  <2>2. UpdateKnown'
    BY <1>5 DEF IInv, TypeOK, UpdateKnown
  <2>3. CopiesReal' /\ OutcomeReported'
    BY <1>2, <1>3, <1>5 DEF IInv, TypeOK, CopiesReal, OutcomeReported, Real
  <2>4. QED
    BY <2>1, <2>2, <2>3 DEF IInv
<1>6. CASE step' = [step EXCEPT ![h] = "snapshot"] /\ UNCHANGED <<op, found, snap>>
  <2>1. TypeOK'
    BY <1>3, <1>6 DEF IInv, TypeOK
  <2>2. UpdateKnown'
    BY <1>6 DEF IInv, TypeOK, UpdateKnown
  <2>3. CopiesReal' /\ OutcomeReported'
    BY <1>3, <1>6 DEF IInv, CopiesReal, OutcomeReported, Real
  <2>4. QED
    BY <2>1, <2>2, <2>3 DEF IInv
<1>7. CASE Return(h)
  <2>1. acks' \subseteq acks /\ UNCHANGED <<mem, reported>>
    BY <1>3
  <2>2. /\ step' \in [Handlers -> {"idle", "list", "update", "upsert", "snapshot", "save"}]
        /\ op' \in [Handlers -> Requests \cup Answers \cup {"hello", "save"}]
        /\ found' \in [Handlers -> Known] /\ snap' \in [Handlers -> Known]
        /\ UpdateKnown' /\ CopiesReal'
    BY <1>7, <2>1, ReturnStep
  <2>3. TypeOK'
    BY <1>3, <2>2 DEF IInv, TypeOK
  <2>4. OutcomeReported'
    BY <1>3 DEF IInv, OutcomeReported, Real
  <2>5. QED
    BY <2>2, <2>3, <2>4 DEF IInv
<1>8. QED
  BY <1>4, <1>5, <1>6, <1>7

\* What was found is real.
LEMMA UpsertStep ==
  ASSUME IInv, NEW h \in Handlers, Upsert(h)
  PROVE  IInv'
<1>1. Home(h) \in Processes /\ found[h] \in Known /\ Real(found[h])
  BY HomeProcess DEF IInv, TypeOK, CopiesReal
<1>2. TypeOK'
  BY <1>1 DEF IInv, TypeOK, Upsert, Go, agentVars
<1>3. UpdateKnown'
  BY DEF IInv, TypeOK, UpdateKnown, Upsert, Go
<1>4. CopiesReal' /\ OutcomeReported'
  BY <1>1 DEF IInv, TypeOK, CopiesReal, OutcomeReported, Real, Upsert, agentVars
<1>5. QED
  BY <1>2, <1>3, <1>4 DEF IInv

\* The snapshot is a copy of the working set.
LEMMA SaveSnapshotStep ==
  ASSUME IInv, NEW h \in Handlers, SaveSnapshot(h)
  PROVE  IInv'
<1>1. mem[Home(h)] \in Known /\ Real(mem[Home(h)])
  BY HomeProcess DEF IInv, TypeOK, CopiesReal
<1>2. TypeOK'
  BY <1>1 DEF IInv, TypeOK, SaveSnapshot, Go, agentVars
<1>3. UpdateKnown'
  BY DEF IInv, TypeOK, UpdateKnown, SaveSnapshot, Go
<1>4. CopiesReal' /\ OutcomeReported'
  BY <1>1 DEF IInv, TypeOK, CopiesReal, OutcomeReported, Real, SaveSnapshot, agentVars
<1>5. QED
  BY <1>2, <1>3, <1>4 DEF IInv

\* The save writes a snapshot, however old; the answer is what was found.
LEMMA SaveWriteStep ==
  ASSUME IInv, NEW h \in Handlers, SaveWrite(h)
  PROVE  IInv'
<1>1. Return(h) /\ UNCHANGED <<mem, link, acks, reported, answered, faults>>
  BY DEF SaveWrite
<1>2. acks' \subseteq acks /\ UNCHANGED <<mem, reported>>
  BY <1>1
<1>3. /\ step' \in [Handlers -> {"idle", "list", "update", "upsert", "snapshot", "save"}]
      /\ op' \in [Handlers -> Requests \cup Answers \cup {"hello", "save"}]
      /\ found' \in [Handlers -> Known] /\ snap' \in [Handlers -> Known]
      /\ UpdateKnown' /\ CopiesReal'
  BY <1>1, <1>2, ReturnStep
<1>4. row' \in {row, snap[h]} /\ told' \in {told, found[h]} /\ frame' \in {"command", frame}
  BY DEF SaveWrite
<1>5. snap[h] \in Known /\ found[h] \in Known /\ Real(snap[h]) /\ Real(found[h])
  BY DEF IInv, TypeOK, CopiesReal
<1>6. TypeOK'
  BY <1>1, <1>3, <1>4, <1>5 DEF IInv, TypeOK
<1>7. OutcomeReported'
  BY <1>1, <1>4, <1>5 DEF IInv, OutcomeReported, Real
<1>8. QED
  BY <1>3, <1>6, <1>7 DEF IInv

\* A failed save changes no status.
LEMMA SaveFailStep ==
  ASSUME IInv, NEW h \in Handlers, SaveFail(h)
  PROVE  IInv'
<1>1. Return(h) /\ UNCHANGED <<mem, row, reported, answered, told, faults>>
  BY DEF SaveFail
<1>2. link' \in {link, NoStream} /\ frame' \in {frame, "none"} /\ acks' \in {acks, {}}
  BY DEF SaveFail, Down
<1>3. acks' \subseteq acks /\ UNCHANGED <<mem, reported>>
  BY <1>1, <1>2
<1>4. /\ step' \in [Handlers -> {"idle", "list", "update", "upsert", "snapshot", "save"}]
      /\ op' \in [Handlers -> Requests \cup Answers \cup {"hello", "save"}]
      /\ found' \in [Handlers -> Known] /\ snap' \in [Handlers -> Known]
      /\ UpdateKnown' /\ CopiesReal'
  BY <1>1, <1>3, ReturnStep
<1>5. TypeOK'
  BY <1>1, <1>2, <1>4 DEF IInv, TypeOK
<1>6. OutcomeReported'
  BY <1>1 DEF IInv, OutcomeReported, Real
<1>7. QED
  BY <1>4, <1>5, <1>6 DEF IInv

-----------------------------------------------------------------------------
(* The agent, the network and the processes.                               *)

\* The agent reports an outcome as it sends it.
LEMMA HandleStep ==
  ASSUME IInv, NEW o \in Answers, Handle(o)
  PROVE  IInv'
<1>1. /\ UNCHANGED <<mem, row, step, op, found, snap, link, told, faults>>
      /\ frame' = "none" /\ acks' = acks \cup {o} /\ reported' = reported \cup {o} /\ answered' = TRUE
  BY DEF Handle, handlerVars
<1>2. TypeOK'
  BY <1>1 DEF IInv, TypeOK
<1>3. UpdateKnown'
  BY <1>1 DEF IInv, UpdateKnown
<1>4. CopiesReal' /\ OutcomeReported'
  BY <1>1 DEF IInv, CopiesReal, OutcomeReported, Real
<1>5. QED
  BY <1>2, <1>3, <1>4 DEF IInv

\* A broken stream loses frames and acks.
LEMMA BreakStep ==
  ASSUME IInv, Break
  PROVE  IInv'
<1>1. /\ UNCHANGED <<mem, row, step, op, found, snap, reported, answered, told, faults>>
      /\ link' = NoStream /\ frame' = "none" /\ acks' = {}
  BY DEF Break, Down, handlerVars
<1>2. TypeOK'
  BY <1>1 DEF IInv, TypeOK
<1>3. UpdateKnown' /\ CopiesReal' /\ OutcomeReported'
  BY <1>1 DEF IInv, UpdateKnown, CopiesReal, OutcomeReported, Real
<1>4. QED
  BY <1>2, <1>3 DEF IInv

\* A restart empties a working set and ends the calls of the process.
LEMMA RestartStep ==
  ASSUME IInv, NEW p \in Processes, Restart(p)
  PROVE  IInv'
<1>1. "none" \in Known /\ Real("none") /\ "save" \notin Answers
  BY OtherReal, ControlAssumption
<1>2. /\ link' \in {link, NoStream} /\ frame' \in {frame, "none"} /\ acks' \in {acks, {}}
      /\ UNCHANGED <<row, reported, answered, told, faults>>
  BY DEF Restart, Down
<1>3. TypeOK'
  BY <1>1, <1>2 DEF IInv, TypeOK, Restart
<1>4. UpdateKnown'
  BY DEF IInv, TypeOK, UpdateKnown, Restart
<1>5. CopiesReal' /\ OutcomeReported'
  BY <1>1, <1>2 DEF IInv, TypeOK, CopiesReal, OutcomeReported, Real, Restart
<1>6. QED
  BY <1>3, <1>4, <1>5 DEF IInv

\* The end of the faults changes nothing else.
LEMMA SettleStep ==
  ASSUME IInv, Settle
  PROVE  IInv'
<1>1. UNCHANGED <<mem, row, step, op, found, snap, link, frame, acks, reported, answered, told>> /\ faults' = "off"
  BY DEF Settle, handlerVars, agentVars
<1>2. TypeOK'
  BY <1>1 DEF IInv, TypeOK
<1>3. UpdateKnown' /\ CopiesReal' /\ OutcomeReported'
  BY <1>1 DEF IInv, UpdateKnown, CopiesReal, OutcomeReported, Real
<1>4. QED
  BY <1>2, <1>3 DEF IInv

\* No status changes in a stuttering step.
LEMMA StutterStep ==
  ASSUME IInv, UNCHANGED vars
  PROVE  IInv'
<1>1. UNCHANGED <<mem, row, step, op, found, snap, link, frame, acks, reported, answered, told, faults>>
  BY DEF vars, handlerVars, agentVars
<1>2. TypeOK'
  BY <1>1 DEF IInv, TypeOK
<1>3. UpdateKnown' /\ CopiesReal' /\ OutcomeReported'
  BY <1>1 DEF IInv, UpdateKnown, CopiesReal, OutcomeReported, Real
<1>4. QED
  BY <1>2, <1>3 DEF IInv

-----------------------------------------------------------------------------
\* Every step of the system keeps the invariant.
LEMMA NextIInv == IInv /\ [Next]_vars => IInv'
<1>1. SUFFICES ASSUME IInv, [Next]_vars PROVE IInv'
  OBVIOUS
<1>2. CASE \E h \in Operators, o \in Requests : Request(h, o)
  BY <1>1, <1>2, RequestStep
<1>3. CASE \E h \in Streams : Connect(h) \/ \E a \in Answers : ReceiveAck(h, a)
  BY <1>1, <1>3, ConnectStep, ReceiveAckStep
<1>4. CASE \E h \in Handlers : Other(h) \/ Call(h)
  BY <1>1, <1>4, OtherStep, ListStep, UpdateCopyStep, ReadRowStep, UpsertStep, SaveSnapshotStep,
     SaveWriteStep, SaveFailStep DEF Call
<1>5. CASE \E a \in Answers : Handle(a)
  BY <1>1, <1>5, HandleStep
<1>6. CASE Break \/ Settle \/ \E p \in Processes : Restart(p)
  BY <1>1, <1>6, BreakStep, SettleStep, RestartStep
<1>7. CASE UNCHANGED vars
  BY <1>1, <1>7, StutterStep
<1>8. QED
  BY <1>1, <1>2, <1>3, <1>4, <1>5, <1>6, <1>7 DEF Next

\* The inductive invariant holds in every reachable state.
THEOREM Invariance == Spec => []IInv
BY InitIInv, NextIInv, PTL DEF Spec

\* Every variable keeps its type, for any number of operators and streams.
THEOREM TypeCorrect == Spec => []TypeOK
<1>1. IInv => TypeOK
  BY DEF IInv
<1>2. QED
  BY <1>1, Invariance, PTL

\* AckControlCommand and the saves of both processes record a command, and show
\* it to an operator, as applied only if its agent has put it in force and as
\* rejected only if it refused, for any number of concurrent requests and streams.
THEOREM OutcomesReal == Spec => []OutcomeReported
<1>1. IInv => OutcomeReported
  BY DEF IInv
<1>2. QED
  BY <1>1, Invariance, PTL
=============================================================================
