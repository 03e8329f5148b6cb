------------------------- MODULE ExportPipelineProofs -------------------------
(***************************************************************************)
(* Proofs about ExportPipeline, for any number of batches, enrollments and *)
(* crashes and any read limit.                                             *)
(***************************************************************************)
EXTENDS ExportPipeline, TLAPS

States == {"off", "idle", "read", "walk", "send", "save"}
ExporterType == [state : States, owner : Owners \cup {Standalone}, from : Nat,
                 pos : Nat, window : SUBSET Nat, base : Nat]
Steps == {"idle", "persist", "identity", "start", "stop", "restore"}
OpType == [step : Steps, en : Enrollment]
CloudType == \A u \in cloud : u[1] \in Eras /\ u[2] \in Nat

-----------------------------------------------------------------------------
(* Type correctness.                                                       *)

SameJob(k) ==
  exp'[k].owner = exp[k].owner /\ exp'[k].from = exp[k].from /\ exp'[k].base = exp[k].base

\* A step of an export pipeline changes only that pipeline, the checkpoint
\* and what is in the cloud; while it runs, not whom it works for.
LEMMA ExporterFrame ==
  ASSUME TypeOK, NEW k \in Eras, ExporterNext(k)
  PROVE  /\ UNCHANGED <<agentVars, storeVars, enrollment, op, live, bounds>>
         /\ exp' \in [Eras -> ExporterType]
         /\ k = live => SameJob(k)
         /\ \A j \in Eras : j # k => exp'[j] = exp[j]
         /\ ckpt' \in Nat
         /\ cloud \subseteq cloud'
         /\ CloudType'
<1> DEFINE Same(e) == /\ e \in ExporterType
                      /\ k = live => e.owner = exp[k].owner /\ e.from = exp[k].from
                                     /\ e.base = exp[k].base
<1> DEFINE Shape == \E e : Same(e) /\ exp' = [exp EXCEPT ![k] = e]
<1> DEFINE Arrived == cloud \cup {<<k, exp[k].pos>>}
<1>0. /\ exp \in [Eras -> ExporterType] /\ exp[k] \in ExporterType
      /\ ckpt \in Nat /\ CloudType
  BY DEF TypeOK, ExporterType, States, CloudType
<1>1. exp[k].pos \in Nat
  BY <1>0 DEF ExporterType
<1>2. \A u \in Arrived : u[1] \in Eras /\ u[2] \in Nat
  BY <1>0, <1>1 DEF CloudType
<1>3. Return(k) => Shape
  <2>1. Same([exp[k] EXCEPT !.state = "idle", !.pos = 0, !.window = {}])
    BY <1>0 DEF ExporterType, States
  <2>2. k # live => Same(NoExporter)
    BY DEF NoExporter, ExporterType, States
  <2> QED  BY <2>1, <2>2 DEF Return, Cancelled
<1>4. ASSUME NEW st \in States, NEW p \in Nat
      PROVE  Same([exp[k] EXCEPT !.state = st]) /\ Same([exp[k] EXCEPT !.state = st, !.pos = p])
  <2>1. Same([exp[k] EXCEPT !.state = st])
    BY <1>0 DEF ExporterType
  <2>2. Same([exp[k] EXCEPT !.state = st, !.pos = p])
    BY <1>0 DEF ExporterType
  <2> QED  BY <2>1, <2>2, Zenon
<1>5. ASSUME NEW n \in Nat, SaveCheckpoint(k, n)
      PROVE  ckpt' \in Nat /\ Shape
  <2>0. "walk" \in States /\ n + 1 \in Nat
    BY DEF States
  <2>1. Same([exp[k] EXCEPT !.state = "walk", !.pos = n + 1])
    BY <1>4, <2>0
  <2> QED  BY <1>0, <1>3, <1>5, <2>1 DEF SaveCheckpoint
<1>6. /\ UNCHANGED <<agentVars, storeVars, enrollment, op, live, bounds>>
      /\ Shape /\ ckpt' \in Nat /\ cloud' \in {cloud, Arrived}
  <2>1. CASE Poll(k)
    <3>1. "read" \in States /\ FirstPosition \in Nat
      BY <1>0 DEF FirstPosition, States
    <3>2. Same([exp[k] EXCEPT !.state = "read", !.pos = FirstPosition])
      BY <1>4, <3>1
    <3> QED  BY <1>0, <2>1, <3>2 DEF Poll
  <2>9. CASE ReadWindow(k)
    <3>1. PICK w \in SUBSET (1 .. Len(log)) :
                 exp' = [exp EXCEPT ![k] = [@ EXCEPT !.state = "walk", !.window = w]]
      BY <2>9 DEF ReadWindow
    <3>2. "walk" \in States /\ w \in SUBSET Nat
      BY DEF States
    <3>3. Same([exp[k] EXCEPT !.state = "walk", !.window = w])
      BY <1>0, <3>2 DEF ExporterType
    <3> QED  BY <1>0, <2>9, <3>1, <3>3 DEF ReadWindow
  <2>10. CASE ReadFailed(k)
    BY <1>0, <1>3, <2>10 DEF ReadFailed
  <2>2. CASE CycleDone(k)
    BY <1>0, <1>3, <2>2 DEF CycleDone
  <2>3. CASE SkipForeign(k)
    <3>1. PICK n \in Todo(k) : SaveCheckpoint(k, n)
      BY <2>3 DEF SkipForeign
    <3>2. n \in Nat
      BY <1>0 DEF Todo, ExporterType
    <3> QED  BY <1>0, <1>5, <2>3, <3>1, <3>2 DEF SkipForeign
  <2>4. CASE BeginExport(k)
    <3>1. PICK n \in Todo(k) : exp' = [exp EXCEPT ![k] = [@ EXCEPT !.state = "send", !.pos = n]]
      BY <2>4 DEF BeginExport
    <3>2. n \in Nat
      BY <1>0 DEF Todo, ExporterType
    <3>3. Same([exp[k] EXCEPT !.state = "send", !.pos = n])
      BY <1>4, <3>2 DEF States
    <3> QED  BY <1>0, <2>4, <3>1, <3>3 DEF BeginExport
  <2>5. CASE Acknowledged(k)
    <3>1. Same([exp[k] EXCEPT !.state = "save"])
      BY <1>1, <1>4 DEF States
    <3> QED  BY <1>0, <2>5, <3>1 DEF Acknowledged
  <2>6. CASE ExportFailed(k)
    BY <1>0, <1>3, <2>6 DEF ExportFailed
  <2>7. CASE Save(k)
    BY <1>0, <1>1, <1>5, <2>7 DEF Save
  <2>8. CASE Exit(k)
    <3>1. k # live /\ NoExporter \in ExporterType
      BY <2>8 DEF Exit, Cancelled, NoExporter, ExporterType, States
    <3> QED  BY <1>0, <2>8, <3>1 DEF Exit
  <2> QED  BY <2>1, <2>2, <2>3, <2>4, <2>5, <2>6, <2>7, <2>8, <2>9, <2>10 DEF ExporterNext
<1>7. /\ exp' \in [Eras -> ExporterType]
      /\ k = live => SameJob(k)
      /\ \A j \in Eras : j # k => exp'[j] = exp[j]
  BY <1>0, <1>6 DEF SameJob
<1>8. cloud \subseteq cloud' /\ CloudType'
  BY <1>0, <1>2, <1>6 DEF CloudType
<1> QED  BY <1>6, <1>7, <1>8
\* Every step keeps the types.
LEMMA TypeStep ==
  ASSUME TypeOK, [Next]_vars
  PROVE  TypeOK'
<1>0. /\ exp \in [Eras -> ExporterType] /\ op \in [Handlers -> OpType] /\ CloudType
      /\ enrollment \in Enrollment /\ identity \in Identity /\ live \in 0 .. MaxEras
      /\ eras \in 0 .. MaxEras /\ crashes \in Nat /\ ckpt \in Nat
      /\ pipe \in Seq(Record) /\ log \in Seq(Record) /\ MaxEras \in Nat
      /\ cursor \in [{"event", "signal"} -> Nat] /\ eventSeq \in Nat /\ signalSeq \in Nat
  BY ExportAssumption DEF TypeOK, ExporterType, States, OpType, Steps, CloudType
<1>a. ASSUME exp' \in [Eras -> ExporterType], op' \in [Handlers -> OpType], CloudType',
             enrollment' \in Enrollment, identity' \in Identity, live' \in 0 .. MaxEras,
             eras' \in 0 .. MaxEras, crashes' \in Nat, ckpt' \in Nat,
             pipe' \in Seq(Record), log' \in Seq(Record),
             cursor' \in [{"event", "signal"} -> Nat], eventSeq' \in Nat, signalSeq' \in Nat
      PROVE  TypeOK'
  BY <1>a DEF TypeOK, ExporterType, States, OpType, Steps, CloudType
<1>b. LocalMode \in Enrollment /\ LocalIdentity \in Identity /\ Idle \in OpType
      /\ NoExporter \in ExporterType
  BY <1>0 DEF LocalMode, Enrollment, LocalIdentity, Identity, Idle, OpType, Steps,
              NoExporter, ExporterType, States
<1>c. \A en \in Enrollment : /\ Started(en) \in ExporterType
                             /\ [owner |-> en.owner, era |-> en.era] \in Identity
                             /\ en.era \in 0 .. MaxEras
  BY <1>0 DEF Enrollment, Started, ExporterType, States, Identity
<1>d. ASSUME NEW h \in Handlers, NEW st \in Steps
      PROVE  [op EXCEPT ![h] = [@ EXCEPT !.step = st]] \in [Handlers -> OpType]
  <2>1. op[h] \in OpType
    BY <1>0
  <2>2. [op[h] EXCEPT !.step = st] \in OpType
    BY <2>1 DEF OpType
  <2> QED  BY <1>0, <2>2
<1>e. \A h \in Handlers : [op EXCEPT ![h] = Idle] \in [Handlers -> OpType]
  BY <1>0, <1>b
<1>f. \A h \in Handlers : op[h].en \in Enrollment
  BY <1>0 DEF OpType
<1>1. ASSUME NEW kind \in Kinds, Produce(kind)
      PROVE  TypeOK'
  <2>0. identity.owner \in Owners \cup {Standalone} /\ identity.era \in 0 .. MaxEras
    BY <1>0 DEF Identity
  <2>1. \A n \in Nat : [owner |-> identity.owner, era |-> identity.era,
                        kind |-> kind, seq |-> n + 1] \in Record
    BY <2>0, ExportAssumption DEF Record
  <2>2. /\ eventSeq' \in Nat /\ signalSeq' \in Nat
        /\ UNCHANGED <<identity, log, cursor, enrollment, op, live, exp, ckpt, cloud, eras, crashes>>
    BY <1>0, <1>1 DEF Produce, storeVars, bounds
  <2>3. pipe' \in Seq(Record)
    <3>1. \A r \in Record : Append(pipe, r) \in Seq(Record)
      BY <1>0
    <3> QED  BY <1>0, <1>1, <2>1, <3>1 DEF Produce
  <2> QED  BY <1>0, <1>a, <2>2, <2>3 DEF CloudType
<1>2. CASE Store
  <2>1. Head(pipe) \in Record
    BY <1>0, <1>2 DEF Store
  <2>2. log' \in Seq(Record) /\ pipe' \in Seq(Record)
    BY <1>0, <1>2, <2>1 DEF Store
  <2>3. Head(pipe).seq \in Nat
    BY <2>1 DEF Record
  <2>4. cursor' \in [{"event", "signal"} -> Nat]
    BY <1>0, <1>2, <2>3 DEF Store
  <2> QED  BY <1>0, <1>2, <1>a, <2>2, <2>4 DEF Store, CloudType, bounds
<1>3. ASSUME NEW h \in Handlers, HandlerNext(h)
      PROVE  TypeOK'
  <2>1. ASSUME NEW o \in Owners, NEW history \in Histories, EnrollStats(h, o, history)
        PROVE  TypeOK'
    <3>0. eras + 1 \in 0 .. MaxEras
      BY <1>0, <2>1 DEF EnrollStats
    <3>1. Boundary(history) \in Nat
      <4>1. log # <<>> => log[1] \in Record
        BY <1>0
      <4>2. log # <<>> => log[1].seq \in Nat
        BY <4>1 DEF Record
      <4>3. cursor.event \in Nat
        BY <1>0
      <4> QED  BY <4>2, <4>3 DEF Boundary
    <3>2. [managed |-> TRUE, owner |-> o, era |-> eras + 1, from |-> Boundary(history),
           history |-> history] \in Enrollment
      BY <3>0, <3>1, ExportAssumption DEF Enrollment
    <3>3. op' \in [Handlers -> OpType]
      <4> DEFINE o1 == [step |-> "persist", en |-> [managed |-> TRUE, owner |-> o, era |-> eras + 1,
                         from |-> Boundary(history), history |-> history]]
      <4>1. o1 \in OpType
        BY <3>2 DEF OpType, Steps
      <4> HIDE DEF o1
      <4>2. op' = [op EXCEPT ![h] = o1]
        BY <2>1 DEF EnrollStats, o1
      <4> QED  BY <1>0, <4>1, <4>2
    <3> QED  BY <1>0, <1>a, <2>1, <3>0, <3>3 DEF EnrollStats, CloudType, agentVars, storeVars
  <2>2. CASE EnrollPersist(h)
    <3>1. op' \in [Handlers -> OpType] /\ enrollment' \in Enrollment
      <4>1. "identity" \in Steps
        BY DEF Steps
      <4> QED  BY <1>0, <1>d, <1>e, <1>f, <2>2, <4>1 DEF EnrollPersist
    <3> QED  BY <1>0, <1>a, <2>2, <3>1 DEF EnrollPersist, CloudType, agentVars, storeVars, bounds
  <2>3. CASE EnrollIdentity(h)
    <3>1. op' \in [Handlers -> OpType] /\ identity' \in Identity
      BY <1>c, <1>d, <1>f, <2>3 DEF EnrollIdentity, Steps
    <3> QED  BY <1>0, <1>a, <2>3, <3>1 DEF EnrollIdentity, CloudType, storeVars, bounds
  <2>4. CASE EnrollStart(h)
    <3>1. /\ op' \in [Handlers -> OpType] /\ live' \in 0 .. MaxEras
          /\ exp' \in [Eras -> ExporterType]
      BY <1>0, <1>c, <1>e, <1>f, <2>4 DEF EnrollStart
    <3> QED  BY <1>0, <1>a, <2>4, <3>1 DEF EnrollStart, CloudType, agentVars, storeVars, bounds
  <2>5. CASE UnenrollPersist(h)
    <3>1. op' \in [Handlers -> OpType] /\ enrollment' \in Enrollment
      BY <1>b, <1>d, <2>5 DEF UnenrollPersist, Steps
    <3> QED  BY <1>0, <1>a, <2>5, <3>1 DEF UnenrollPersist, CloudType, agentVars, storeVars, bounds
  <2>6. CASE UnenrollStop(h)
    <3>1. op' \in [Handlers -> OpType] /\ live' \in 0 .. MaxEras
      <4>1. "restore" \in Steps /\ 0 \in 0 .. MaxEras
        BY <1>0 DEF Steps
      <4> QED  BY <1>d, <2>6, <4>1 DEF UnenrollStop
    <3> QED  BY <1>0, <1>a, <2>6, <3>1 DEF UnenrollStop, CloudType, agentVars, storeVars, bounds
  <2>7. CASE UnenrollIdentity(h)
    <3>1. op' \in [Handlers -> OpType] /\ identity' \in Identity
      BY <1>b, <1>e, <2>7 DEF UnenrollIdentity
    <3> QED  BY <1>0, <1>a, <2>7, <3>1 DEF UnenrollIdentity, CloudType, storeVars, bounds
  <2> QED  BY <1>3, <2>1, <2>2, <2>3, <2>4, <2>5, <2>6, <2>7 DEF HandlerNext
<1>4. ASSUME NEW k \in Eras, ExporterNext(k)
      PROVE  TypeOK'
  BY <1>0, <1>4, <1>a, ExporterFrame DEF agentVars, storeVars, bounds
<1>5. CASE Restart
  <2>1. /\ op' \in [Handlers -> OpType] /\ exp' \in [Eras -> ExporterType]
        /\ identity' \in Identity /\ live' \in 0 .. MaxEras
    BY <1>0, <1>5, <1>b, <1>c DEF Restart
  <2>2. pipe' \in Seq(Record) /\ crashes' \in Nat /\ eventSeq' \in Nat /\ signalSeq' \in Nat
    BY <1>0, <1>5 DEF Restart
  <2> QED  BY <1>0, <1>5, <1>a, <2>1, <2>2 DEF Restart, CloudType, storeVars
<1>6. CASE UNCHANGED vars
  BY <1>0, <1>6, <1>a DEF vars, CloudType, agentVars, storeVars, bounds
<1> QED  BY <1>1, <1>2, <1>3, <1>4, <1>5, <1>6 DEF Next

\* The upload state always has its type.
THEOREM TypeCorrect == Spec => []TypeOK
<1>1. Init => TypeOK
  <2> SUFFICES ASSUME Init PROVE TypeOK
    OBVIOUS
  <2>1. LocalMode \in Enrollment /\ LocalIdentity \in Identity
    BY ExportAssumption DEF LocalMode, Enrollment, LocalIdentity, Identity
  <2>2. Idle \in OpType /\ NoExporter \in ExporterType
    BY <2>1 DEF Idle, OpType, Steps, NoExporter, ExporterType, States
  <2>3. op \in [Handlers -> OpType] /\ exp \in [Eras -> ExporterType]
    BY <2>2 DEF Init
  <2> QED  BY <2>1, <2>3, ExportAssumption DEF Init, TypeOK, OpType, ExporterType, Steps, States
<1>2. TypeOK /\ [Next]_vars => TypeOK'
  BY TypeStep
<1> QED  BY <1>1, <1>2, PTL DEF Spec

-----------------------------------------------------------------------------
(* What a step of an export pipeline does to its record.                   *)

Busy(k) == exp[k].state \in {"walk", "send", "save"}
Reading(k) == exp[k].state = "read"
Rests(k) == exp[k].state \in {"off", "idle"}

Moves(k, st, p) ==
  exp'[k].state = st /\ exp'[k].pos = p /\ exp'[k].window = exp[k].window
LooksUp(k) == exp'[k].state = "read" /\ exp'[k].pos = FirstPosition /\ ckpt' = ckpt
StartsCycle(k) ==
  /\ Reading(k) /\ exp'[k].state = "walk" /\ exp'[k].pos = exp[k].pos
  /\ ReadBatches(exp[k].from, exp'[k].window) /\ ckpt' = ckpt
EndsCycle(k) == exp'[k].state \in {"off", "idle"} /\ ckpt' = ckpt
Skips(k) ==
  /\ exp[k].state = "walk" /\ k = live
  /\ \E n \in Todo(k) : IsNext(k, n) /\ ~Own(k, n) /\ ckpt' = n /\ Moves(k, "walk", n + 1)
Sends(k) ==
  /\ exp[k].state = "walk" /\ ckpt' = ckpt
  /\ \E n \in Todo(k) : IsNext(k, n) /\ Own(k, n) /\ Moves(k, "send", n)
Arrives(k) ==
  /\ exp[k].state = "send" /\ ckpt' = ckpt
  /\ <<k, exp[k].pos>> \in cloud' /\ Moves(k, "save", exp[k].pos)
Saves(k) ==
  /\ exp[k].state = "save" /\ k = live
  /\ ckpt' = exp[k].pos /\ Moves(k, "walk", exp[k].pos + 1)

\* Each step of a pipeline is one of these.
LEMMA ExporterSteps ==
  ASSUME TypeOK, NEW k \in Eras, ExporterNext(k)
  PROVE  \/ LooksUp(k) \/ StartsCycle(k) \/ EndsCycle(k)
         \/ Skips(k) \/ Sends(k) \/ Arrives(k) \/ Saves(k)
<1>0. exp \in [Eras -> ExporterType] /\ exp[k] \in ExporterType
  BY DEF TypeOK, ExporterType, States
<1>1. ASSUME NEW e, exp' = [exp EXCEPT ![k] = e]
      PROVE  exp'[k] = e
  BY <1>0, <1>1
<1>2. ASSUME Return(k), ckpt' = ckpt
      PROVE  EndsCycle(k)
  <2>1. \/ exp'[k] = [exp[k] EXCEPT !.state = "idle", !.pos = 0, !.window = {}]
        \/ exp'[k] = NoExporter
    BY <1>1, <1>2 DEF Return
  <2>2. exp'[k].state \in {"off", "idle"}
    <3>1. [exp[k] EXCEPT !.state = "idle", !.pos = 0, !.window = {}].state = "idle"
      BY <1>0 DEF ExporterType
    <3>2. NoExporter.state = "off"
      BY DEF NoExporter
    <3> QED  BY <2>1, <3>1, <3>2
  <2> QED  BY <1>2, <2>2 DEF EndsCycle
<1>3. ASSUME NEW st, NEW p, exp' = [exp EXCEPT ![k] = [@ EXCEPT !.state = st, !.pos = p]]
      PROVE  Moves(k, st, p)
  <2>1. exp'[k] = [exp[k] EXCEPT !.state = st, !.pos = p]
    BY <1>1, <1>3
  <2> QED  BY <1>0, <2>1 DEF Moves, ExporterType
<1>4. CASE Poll(k)
  BY <1>3, <1>4 DEF Poll, Moves, LooksUp
<1>12. CASE ReadWindow(k)
  <2>1. PICK w \in SUBSET (1 .. Len(log)) :
               /\ ReadBatches(exp[k].from, w)
               /\ exp' = [exp EXCEPT ![k] = [@ EXCEPT !.state = "walk", !.window = w]]
    BY <1>12 DEF ReadWindow
  <2>2. exp'[k] = [exp[k] EXCEPT !.state = "walk", !.window = w]
    BY <1>1, <2>1
  <2>3. exp'[k].state = "walk" /\ exp'[k].pos = exp[k].pos /\ exp'[k].window = w
    BY <1>0, <2>2 DEF ExporterType
  <2> QED  BY <1>12, <2>1, <2>3 DEF ReadWindow, Reading, StartsCycle
<1>13. CASE ReadFailed(k)
  BY <1>2, <1>13 DEF ReadFailed
<1>5. CASE CycleDone(k)
  BY <1>2, <1>5 DEF CycleDone
<1>6. CASE SkipForeign(k)
  <2>1. PICK n \in Todo(k) : IsNext(k, n) /\ ~Own(k, n) /\ SaveCheckpoint(k, n)
    BY <1>6 DEF SkipForeign
  <2> QED  BY <1>2, <1>3, <1>6, <2>1 DEF SkipForeign, SaveCheckpoint, Cancelled, Skips
<1>7. CASE BeginExport(k)
  BY <1>3, <1>7 DEF BeginExport, Sends
<1>8. CASE Acknowledged(k)
  <2>1. exp'[k] = [exp[k] EXCEPT !.state = "save"]
    BY <1>1, <1>8 DEF Acknowledged
  <2>2. Moves(k, "save", exp[k].pos)
    BY <1>0, <2>1 DEF Moves, ExporterType
  <2> QED  BY <1>8, <2>2 DEF Acknowledged, Arrives
<1>9. CASE ExportFailed(k)
  BY <1>2, <1>9 DEF ExportFailed
<1>10. CASE Save(k)
  BY <1>2, <1>3, <1>10 DEF Save, SaveCheckpoint, Cancelled, Saves
<1>11. CASE Exit(k)
  <2>1. exp'[k] = NoExporter
    BY <1>1, <1>11 DEF Exit
  <2> QED  BY <1>11, <2>1 DEF Exit, EndsCycle, NoExporter
<1> QED  BY <1>4, <1>5, <1>6, <1>7, <1>8, <1>9, <1>10, <1>11, <1>12, <1>13 DEF ExporterNext

-----------------------------------------------------------------------------
(* The checkpoint never moves back.                                        *)

\* A pipeline at work looks only at stored batches, and the one that is not
\* cancelled is not behind the checkpoint.
InBounds(k) ==
  /\ Busy(k) \/ Reading(k) => /\ exp[k].pos \in 1 .. Len(log) + 1
                              /\ k = live => ckpt <= exp[k].pos
  /\ Busy(k) => /\ exp[k].window \subseteq 1 .. Len(log)
                /\ exp[k].state \in {"send", "save"} => exp[k].pos \in exp[k].window
Bounds == ckpt <= Len(log) /\ \A k \in Eras : InBounds(k)

\* Every step keeps the bounds.
LEMMA BoundsStep ==
  ASSUME TypeOK, TypeOK', Bounds, [Next]_vars
  PROVE  Bounds'
<1>0. /\ ckpt \in Nat /\ ckpt' \in Nat /\ Len(log) \in Nat /\ Len(log') \in Nat
      /\ exp \in [Eras -> ExporterType] /\ exp' \in [Eras -> ExporterType]
      /\ log \in Seq(Record) /\ ckpt <= Len(log)
      /\ \A j \in Eras : exp[j].pos \in Nat /\ exp[j].window \subseteq Nat /\ InBounds(j)
  <2>1. /\ exp \in [Eras -> ExporterType] /\ exp' \in [Eras -> ExporterType]
        /\ log \in Seq(Record) /\ log' \in Seq(Record) /\ ckpt \in Nat /\ ckpt' \in Nat
    BY DEF TypeOK, ExporterType, States
  <2>2. \A j \in Eras : exp[j].pos \in Nat /\ exp[j].window \subseteq Nat
    BY <2>1 DEF ExporterType
  <2> QED  BY <2>1, <2>2 DEF Bounds
<1>a. ASSUME exp' = exp, ckpt' = ckpt, live' = live, Len(log') >= Len(log)
      PROVE  Bounds'
  BY <1>0, <1>a DEF Bounds, InBounds, Busy, Reading
<1>b. ASSUME ckpt' = ckpt, log' = log,
             \A j \in Eras : exp'[j] = exp[j] \/ Rests(j)',
             \A j \in Eras : live' = j => live = j \/ Rests(j)'
      PROVE  Bounds'
  BY <1>0, <1>b DEF Bounds, InBounds, Busy, Reading, Rests
<1>1. CASE \E kind \in Kinds : Produce(kind)
  BY <1>0, <1>1, <1>a DEF Produce, storeVars
<1>2. CASE Store
  <2>1. Head(pipe) \in Record
    BY <1>2 DEF Store, TypeOK
  <2>2. Len(log') = Len(log) + 1
    BY <1>0, <1>2, <2>1 DEF Store
  <2> QED  BY <1>0, <1>2, <1>a, <2>2 DEF Store
<1>3. ASSUME NEW h \in Handlers, HandlerNext(h)
      PROVE  Bounds'
  <2>1. CASE EnrollStart(h)
    <3>1. \A j \in Eras : exp'[j] = IF j = live' THEN Started(op[h].en) ELSE exp[j]
      BY <1>0, <2>1 DEF EnrollStart
    <3>2. \A j \in Eras : j = live' => Rests(j)'
      BY <3>1 DEF Started, Rests
    <3> QED  BY <1>0, <1>b, <2>1, <3>1, <3>2 DEF EnrollStart, storeVars
  <2>2. CASE UnenrollStop(h)
    <3>1. \A j \in Eras : live' # j
      BY <2>2 DEF UnenrollStop, Eras
    <3> QED  BY <1>0, <1>b, <2>2, <3>1 DEF UnenrollStop, storeVars
  <2>3. CASE \E o \in Owners, history \in Histories : EnrollStats(h, o, history)
    BY <1>0, <1>a, <2>3 DEF EnrollStats, storeVars
  <2>4. CASE EnrollPersist(h) \/ EnrollIdentity(h) \/ UnenrollPersist(h) \/ UnenrollIdentity(h)
    BY <1>0, <1>a, <2>4 DEF EnrollPersist, EnrollIdentity, UnenrollPersist, UnenrollIdentity, storeVars
  <2> QED  BY <1>3, <2>1, <2>2, <2>3, <2>4 DEF HandlerNext
<1>4. ASSUME NEW k \in Eras, ExporterNext(k)
      PROVE  Bounds'
  <2>0. /\ log' = log /\ live' = live
        /\ \A j \in Eras : j # k => exp'[j] = exp[j]
    BY <1>4, ExporterFrame DEF storeVars
  <2>1. ASSUME InBounds(k)', ckpt' <= Len(log), ckpt' = ckpt \/ k = live
        PROVE  Bounds'
    BY <1>0, <2>0, <2>1 DEF Bounds, InBounds, Busy, Reading
  <2>8. CASE LooksUp(k)
    BY <1>0, <2>0, <2>1, <2>8 DEF LooksUp, InBounds, Busy, Reading, FirstPosition
  <2>2. CASE StartsCycle(k)
    <3>1. exp'[k].window \subseteq 1 .. Len(log)
      BY <2>2 DEF StartsCycle, ReadBatches, Scanned, InRange
    <3> QED  BY <1>0, <2>0, <2>1, <2>2, <3>1 DEF StartsCycle, InBounds, Busy, Reading
  <2>3. CASE EndsCycle(k)
    BY <1>0, <2>0, <2>1, <2>3 DEF EndsCycle, InBounds, Busy, Reading
  <2>4. CASE Skips(k)
    <3>1. PICK n \in Todo(k) : ckpt' = n /\ Moves(k, "walk", n + 1)
      BY <2>4 DEF Skips
    <3>2. n \in 1 .. Len(log)
      BY <1>0, <2>4 DEF Skips, InBounds, Busy, Reading, Todo
    <3> QED  BY <1>0, <2>0, <2>1, <2>4, <3>1, <3>2 DEF Skips, InBounds, Busy, Reading, Moves
  <2>5. CASE Sends(k)
    <3>1. PICK n \in Todo(k) : Moves(k, "send", n)
      BY <2>5 DEF Sends
    <3>2. n \in 1 .. Len(log) /\ n \in exp[k].window /\ n >= exp[k].pos
      BY <1>0, <2>5 DEF Sends, InBounds, Busy, Reading, Todo
    <3> QED  BY <1>0, <2>0, <2>1, <2>5, <3>1, <3>2 DEF Sends, InBounds, Busy, Reading, Moves
  <2>6. CASE Arrives(k)
    BY <1>0, <2>0, <2>1, <2>6 DEF Arrives, InBounds, Busy, Reading, Moves
  <2>7. CASE Saves(k)
    <3>1. exp[k].pos \in 1 .. Len(log)
      BY <1>0, <2>7 DEF Saves, InBounds, Busy, Reading
    <3> QED  BY <1>0, <2>0, <2>1, <2>7, <3>1 DEF Saves, InBounds, Busy, Reading, Moves
  <2> QED  BY <1>4, ExporterSteps, <2>2, <2>3, <2>4, <2>5, <2>6, <2>7, <2>8
<1>5. CASE Restart
  <2>1. \A j \in Eras : Rests(j)'
    BY <1>5 DEF Restart, Rests, Started, NoExporter
  <2> QED  BY <1>0, <1>5, <1>b, <2>1 DEF Restart, storeVars
<1>6. CASE UNCHANGED vars
  BY <1>0, <1>6, <1>a DEF vars, storeVars
<1> QED  BY <1>1, <1>2, <1>3, <1>4, <1>5, <1>6 DEF Next

\* The bounds hold in every reachable state.
LEMMA BoundsHold == Spec => [](TypeOK /\ Bounds)
<1>1. Init => Bounds
  BY DEF Init, Bounds, InBounds, Busy, Reading, NoExporter
<1>2. TypeOK /\ TypeOK' /\ Bounds /\ [Next]_vars => Bounds'
  BY BoundsStep
<1> QED  BY <1>1, <1>2, TypeCorrect, PTL DEF Spec

\* Whatever the constants: no pipeline, cancelled or not, before or after a
\* crash, moves the checkpoint back.
THEOREM CheckpointMonotonicHolds == Spec => CheckpointMonotonic
<1>1. TypeOK /\ Bounds /\ [Next]_vars => [ckpt' >= ckpt]_ckpt
  <2> SUFFICES ASSUME TypeOK, Bounds, [Next]_vars, ckpt' # ckpt
               PROVE  ckpt' >= ckpt
    OBVIOUS
  <2>1. \E k \in Eras : ExporterNext(k)
    BY DEF Next, Produce, Store, HandlerNext, EnrollStats, EnrollPersist, EnrollIdentity,
           EnrollStart, UnenrollPersist, UnenrollStop, UnenrollIdentity, Restart, vars
  <2>2. PICK k \in Eras : ExporterNext(k)
    BY <2>1
  <2>3. InBounds(k) /\ exp[k].pos \in Nat /\ ckpt \in Nat /\ exp[k].window \subseteq Nat
    BY DEF Bounds, TypeOK
  <2>4. CASE Skips(k)
    BY <2>3, <2>4 DEF Skips, InBounds, Busy, Reading, Todo
  <2>5. CASE Saves(k)
    BY <2>3, <2>5 DEF Saves, InBounds, Busy, Reading
  <2> QED  BY <2>2, <2>4, <2>5, ExporterSteps DEF LooksUp, StartsCycle, EndsCycle, Sends, Arrives
<1> QED  BY <1>1, BoundsHold, PTL DEF Spec, CheckpointMonotonic

-----------------------------------------------------------------------------
(* The running pipeline passes no batch of its own that it has not sent.   *)

\* A window of ReadBatches has no hole.
LEMMA ReadBatchesClosed ==
  ASSUME TypeOK, NEW from \in Nat, NEW w, ReadBatches(from, w),
         NEW n \in w, NEW m \in 1 .. n, log[m].seq >= from
  PROVE  m \in w
<1>1. PICK i \in 0 .. Len(log) : w = Scanned(from, i)
  BY DEF ReadBatches
<1>2. Len(log) \in Nat /\ n \in 1 .. Len(log) /\ n <= i
  BY <1>1 DEF TypeOK, Scanned, InRange
<1> QED  BY <1>1, <1>2 DEF Scanned, InRange

\* What pipeline k has to send, and has sent.
Owed(k, n) == Own(k, n) /\ log[n].seq >= exp[k].from
Sent(k, n) == <<k, n>> \in cloud

\* Where pipeline k is, it has sent what it owes below, its window has no
\* hole, and it saves only what arrived.
Closed(k) ==
  \A n \in exp[k].window : \A m \in 1 .. n : log[m].seq >= exp[k].from => m \in exp[k].window
Passed(k) ==
  /\ Busy(k) \/ Reading(k) =>
       \A m \in 1 .. Len(log) : exp[k].base < m /\ m < exp[k].pos /\ Owed(k, m) => Sent(k, m)
  /\ Busy(k) => Closed(k)
  /\ exp[k].state = "save" => Sent(k, exp[k].pos)

\* CheckpointEarned, for pipeline k.
Earned(k) ==
  \A n \in 1 .. Len(log) : exp[k].base < n /\ n <= ckpt /\ Owed(k, n) => Sent(k, n)

EarnedInv == live # 0 => Earned(live) /\ Passed(live)

\* Types the steps below need, one by one.
LEMMA Sorts ==
  ASSUME TypeOK
  PROVE  /\ Len(log) \in Nat /\ ckpt \in Nat /\ log \in Seq(Record)
         /\ live # 0 => live \in Eras
         /\ exp \in [Eras -> ExporterType]
         /\ \A k \in Eras : /\ exp[k].pos \in Nat /\ exp[k].from \in Nat /\ exp[k].base \in Nat
                            /\ exp[k].window \subseteq Nat
<1>1. Len(log) \in Nat /\ ckpt \in Nat /\ log \in Seq(Record)
  BY DEF TypeOK
<1>2. live # 0 => live \in Eras
  BY DEF TypeOK, Eras
<1>3. exp \in [Eras -> ExporterType]
  BY DEF TypeOK, ExporterType, States
<1>4. \A k \in Eras : /\ exp[k].pos \in Nat /\ exp[k].from \in Nat /\ exp[k].base \in Nat
                      /\ exp[k].window \subseteq Nat
  BY <1>3 DEF ExporterType
<1> QED  BY <1>1, <1>2, <1>3, <1>4

\* The running pipeline's own steps.
LEMMA EarnedOwnStep ==
  ASSUME TypeOK, Bounds, NEW k \in Eras, k = live, Earned(k), Passed(k), ExporterNext(k)
  PROVE  Earned(k)' /\ Passed(k)'
<1>0. /\ log' = log /\ live' = live /\ cloud \subseteq cloud' /\ SameJob(k)
  BY ExporterFrame DEF storeVars
<1>1. /\ ckpt \in Nat /\ Len(log) \in Nat /\ ckpt <= Len(log) /\ exp[k].pos \in Nat
      /\ exp[k].from \in Nat /\ exp[k].base \in Nat /\ exp[k].window \subseteq Nat /\ InBounds(k)
  BY Sorts DEF Bounds
<1>2. \A m : (Owed(k, m)' <=> Owed(k, m)) /\ (Sent(k, m) => Sent(k, m)')
  BY <1>0 DEF Owed, Own, Sent, SameJob
<1>3. ckpt' = ckpt => Earned(k)'
  BY <1>0, <1>2 DEF Earned, SameJob
<1>4. exp'[k].window = exp[k].window /\ Busy(k) => Closed(k)'
  BY <1>0 DEF Passed, Closed, SameJob
\* Below the next batch of the walk, what is owed was sent.
<1>5. ASSUME NEW n \in Todo(k), exp[k].state = "walk", IsNext(k, n),
             NEW m \in 1 .. Len(log), m < n, exp[k].base < m, Owed(k, m)
      PROVE  Sent(k, m)
  <2>1. Busy(k) /\ exp[k].window \subseteq 1 .. Len(log) /\ n \in exp[k].window
    BY <1>1, <1>5 DEF InBounds, Busy, Reading, Todo
  <2>2. CASE m < exp[k].pos
    BY <1>5, <2>1, <2>2 DEF Passed
  <2>3. CASE m >= exp[k].pos
    <3>1. m \in 1 .. n /\ n \in Nat /\ m \in Nat
      BY <1>1, <1>5, <2>1
    <3>2. m \in exp[k].window
      BY <1>5, <2>1, <3>1 DEF Passed, Closed, Owed
    <3>3. m \in Todo(k)
      BY <2>3, <3>2 DEF Todo
    <3> QED  BY <1>5, <3>1, <3>3 DEF IsNext
  <2> QED  BY <1>1, <2>2, <2>3
\* The step that saves n after a batch not owed or sent.
<1>6. ASSUME NEW n \in 1 .. Len(log), ckpt' = n, Moves(k, "walk", n + 1), Busy(k),
             \A m \in 1 .. Len(log) : m < n /\ exp[k].base < m /\ Owed(k, m) => Sent(k, m),
             Owed(k, n) => Sent(k, n)
      PROVE  Earned(k)' /\ Passed(k)'
  <2>1. \A m \in 1 .. Len(log) : m <= n /\ exp[k].base < m /\ Owed(k, m) => Sent(k, m)
    <3>1. \A m \in 1 .. Len(log) : m <= n => m < n \/ m = n
      BY <1>1
    <3> QED  BY <1>6, <3>1
  <2>2. Earned(k)'
    BY <1>0, <1>2, <1>6, <2>1 DEF Earned, SameJob
  <2>3. \A m \in 1 .. Len(log) : m < n + 1 => m <= n
    BY <1>1
  <2>4. exp'[k].state = "walk" /\ exp'[k].pos = n + 1 /\ Closed(k)'
    BY <1>4, <1>6 DEF Moves
  <2> QED  BY <1>0, <1>2, <2>1, <2>2, <2>3, <2>4 DEF Passed, SameJob
<1>7. CASE LooksUp(k)
  <2>1. exp'[k].state = "read" /\ exp'[k].pos = FirstPosition /\ ckpt' = ckpt
    BY <1>7 DEF LooksUp
  <2>2. \A m \in 1 .. Len(log) : m < FirstPosition => m <= ckpt
    BY <1>1 DEF FirstPosition
  <2>3. \A m \in 1 .. Len(log) : exp[k].base < m /\ m < FirstPosition /\ Owed(k, m) => Sent(k, m)
    BY <2>2 DEF Earned
  <2>4. ~Busy(k)'
    BY <2>1 DEF Busy
  <2> QED  BY <1>0, <1>2, <1>3, <2>1, <2>3, <2>4 DEF Passed, SameJob
<1>8. CASE StartsCycle(k)
  <2>1. /\ Reading(k) /\ exp'[k].state = "walk" /\ exp'[k].pos = exp[k].pos /\ ckpt' = ckpt
        /\ ReadBatches(exp[k].from, exp'[k].window)
    BY <1>8 DEF StartsCycle
  <2>2. Closed(k)'
    <3> SUFFICES ASSUME NEW n \in exp'[k].window, NEW m \in 1 .. n, log'[m].seq >= exp'[k].from
                 PROVE  m \in exp'[k].window
      BY DEF Closed
    <3> QED  BY <1>0, <1>1, <2>1, ReadBatchesClosed DEF SameJob
  <2> QED  BY <1>0, <1>2, <1>3, <2>1, <2>2 DEF Passed, SameJob
<1>9. CASE EndsCycle(k)
  <2>1. exp'[k].state \in {"off", "idle"} /\ ckpt' = ckpt
    BY <1>9 DEF EndsCycle
  <2> QED  BY <1>3, <2>1 DEF Passed, Busy, Reading
<1>10. CASE Skips(k)
  <2>1. PICK n \in Todo(k) : IsNext(k, n) /\ ~Own(k, n) /\ ckpt' = n /\ Moves(k, "walk", n + 1)
    BY <1>10 DEF Skips
  <2>2. exp[k].state = "walk" /\ Busy(k) /\ n \in 1 .. Len(log)
    BY <1>1, <1>10 DEF Skips, InBounds, Busy, Reading, Todo
  <2>3. ~Owed(k, n)
    BY <2>1 DEF Owed
  <2> QED  BY <1>5, <1>6, <2>1, <2>2, <2>3
<1>11. CASE Sends(k)
  <2>1. PICK n \in Todo(k) : IsNext(k, n) /\ Moves(k, "send", n)
    BY <1>11 DEF Sends
  <2>2. exp[k].state = "walk" /\ Busy(k) /\ ckpt' = ckpt
    BY <1>11 DEF Sends, Busy
  <2>3. exp'[k].state = "send" /\ exp'[k].pos = n /\ Closed(k)'
    BY <1>4, <2>1, <2>2 DEF Moves
  <2> QED  BY <1>0, <1>2, <1>3, <1>5, <2>1, <2>2, <2>3 DEF Passed, SameJob
<1>12. CASE Arrives(k)
  <2>1. /\ Busy(k) /\ ckpt' = ckpt /\ <<k, exp[k].pos>> \in cloud'
        /\ exp'[k].state = "save" /\ exp'[k].pos = exp[k].pos /\ Closed(k)'
    BY <1>4, <1>12 DEF Arrives, Busy, Moves
  <2>2. Sent(k, exp[k].pos)'
    BY <2>1 DEF Sent
  <2> QED  BY <1>0, <1>2, <1>3, <2>1, <2>2 DEF Passed, SameJob
<1>13. CASE Saves(k)
  <2>1. /\ Busy(k) /\ Sent(k, exp[k].pos) /\ exp[k].pos \in 1 .. Len(log)
        /\ ckpt' = exp[k].pos /\ Moves(k, "walk", exp[k].pos + 1)
    BY <1>1, <1>13 DEF Saves, InBounds, Busy, Reading, Passed
  <2>2. \A m \in 1 .. Len(log) : m < exp[k].pos /\ exp[k].base < m /\ Owed(k, m) => Sent(k, m)
    BY <2>1 DEF Passed
  <2> QED  BY <1>6, <2>1, <2>2
<1> QED  BY ExporterSteps, <1>7, <1>8, <1>9, <1>10, <1>11, <1>12, <1>13

\* Every step keeps what the running pipeline has earned.
LEMMA EarnedStep ==
  ASSUME TypeOK, TypeOK', Bounds, EarnedInv, [Next]_vars
  PROVE  EarnedInv'
<1>1. /\ Len(log) \in Nat /\ ckpt \in Nat /\ ckpt <= Len(log) /\ log \in Seq(Record)
      /\ exp \in [Eras -> ExporterType]
      /\ live # 0 => live \in Eras /\ InBounds(live) /\ exp[live].pos \in Nat
                     /\ exp[live].window \subseteq Nat
  BY Sorts DEF Bounds
<1>2. live' # 0 => live' \in Eras
  BY DEF TypeOK, Eras
<1>a. ASSUME log' = log, ckpt' = ckpt, cloud \subseteq cloud', live' = live,
             live # 0 => exp'[live] = exp[live]
      PROVE  EarnedInv'
  <2> SUFFICES ASSUME live # 0 PROVE (Earned(live) /\ Passed(live))'
    BY <1>a DEF EarnedInv
  <2>1. Earned(live) /\ Passed(live) /\ exp'[live] = exp[live]
    BY <1>a DEF EarnedInv
  <2>2. \A m : (Owed(live, m)' <=> Owed(live, m)) /\ (Sent(live, m) => Sent(live, m)')
    BY <1>a, <2>1 DEF Owed, Own, Sent
  <2>3. Earned(live)'
    BY <1>a, <2>1, <2>2 DEF Earned
  <2> QED  BY <1>a, <2>1, <2>2, <2>3 DEF Passed, Closed, Busy, Reading
\* A pipeline that has just started has passed nothing.
<1>b. ASSUME live' # 0 => exp'[live'].base = ckpt' /\ exp'[live'].state = "idle"
      PROVE  EarnedInv'
  <2> SUFFICES ASSUME live' # 0 PROVE (Earned(live) /\ Passed(live))'
    BY DEF EarnedInv
  <2>1. Passed(live)'
    BY <1>b DEF Passed, Busy, Reading
  <2>2. ckpt' \in Nat /\ Len(log') \in Nat
    BY DEF TypeOK
  <2>3. Earned(live)'
    BY <1>b, <2>2 DEF Earned
  <2> QED  BY <2>1, <2>3
<1>3. CASE \E kind \in Kinds : Produce(kind)
  BY <1>3, <1>a DEF Produce, storeVars
<1>4. CASE Store
  <2>0. UNCHANGED <<live, exp, ckpt, cloud>>
    BY <1>4 DEF Store
  <2>1. Head(pipe) \in Record /\ log' = Append(log, Head(pipe))
    BY <1>4 DEF Store, TypeOK
  <2>2. Len(log') = Len(log) + 1 /\ \A n \in 1 .. Len(log) : log'[n] = log[n]
    BY <1>1, <2>1
  <2> SUFFICES ASSUME live # 0 PROVE (Earned(live) /\ Passed(live))'
    BY <2>0 DEF EarnedInv
  <2>3. Earned(live) /\ Passed(live)
    BY DEF EarnedInv
  <2>4. \A m \in 1 .. Len(log) : (Owed(live, m)' <=> Owed(live, m)) /\ (Sent(live, m)' <=> Sent(live, m))
    BY <2>0, <2>2 DEF Owed, Own, Sent
  <2>5. \A m \in 1 .. Len(log') : m <= ckpt => m \in 1 .. Len(log)
    BY <1>1, <2>2
  <2>6. Earned(live)'
    BY <2>0, <2>3, <2>4, <2>5 DEF Earned
  <2>7. Busy(live) \/ Reading(live) =>
          \A m \in 1 .. Len(log') : m < exp[live].pos => m \in 1 .. Len(log)
    BY <1>1, <2>2 DEF InBounds
  <2>8. Busy(live) => Closed(live)'
    BY <1>1, <2>0, <2>2, <2>3 DEF Passed, Closed, InBounds
  <2>9. exp[live].state = "save" => Sent(live, exp[live].pos)'
    BY <2>0, <2>3 DEF Passed, Sent
  <2> QED  BY <2>0, <2>3, <2>4, <2>6, <2>7, <2>8, <2>9 DEF Passed, Busy, Reading, Sent
<1>5. ASSUME NEW h \in Handlers, HandlerNext(h)
      PROVE  EarnedInv'
  <2>1. CASE EnrollStart(h)
    <3>1. live' # 0 => exp'[live'] = Started(op[h].en)
      BY <1>1, <1>2, <2>1 DEF EnrollStart
    <3>2. live' # 0 => exp'[live'].base = ckpt' /\ exp'[live'].state = "idle"
      BY <2>1, <3>1 DEF EnrollStart, Started
    <3> QED  BY <1>b, <3>2
  <2>2. CASE UnenrollStop(h)
    BY <2>2 DEF UnenrollStop, EarnedInv
  <2>3. CASE \E o \in Owners, history \in Histories : EnrollStats(h, o, history)
    BY <1>a, <2>3 DEF EnrollStats, storeVars
  <2>4. CASE EnrollPersist(h) \/ EnrollIdentity(h) \/ UnenrollPersist(h) \/ UnenrollIdentity(h)
    BY <1>a, <2>4 DEF EnrollPersist, EnrollIdentity, UnenrollPersist, UnenrollIdentity, storeVars
  <2> QED  BY <1>5, <2>1, <2>2, <2>3, <2>4 DEF HandlerNext
<1>6. ASSUME NEW k \in Eras, ExporterNext(k)
      PROVE  EarnedInv'
  <2>0. /\ log' = log /\ live' = live /\ cloud \subseteq cloud'
        /\ \A j \in Eras : j # k => exp'[j] = exp[j]
    BY <1>6, ExporterFrame DEF storeVars
  <2>1. CASE k # live
    <3>1. ckpt' = ckpt
      BY <1>6, <2>1, ExporterSteps
         DEF LooksUp, StartsCycle, EndsCycle, Skips, Sends, Arrives, Saves
    <3> QED  BY <1>1, <1>a, <2>0, <2>1, <3>1
  <2>2. CASE k = live
    <3>1. k # 0
      BY DEF Eras
    <3>2. Earned(k) /\ Passed(k)
      BY <2>2, <3>1 DEF EarnedInv
    <3>3. Earned(k)' /\ Passed(k)'
      BY <1>6, <2>2, <3>2, EarnedOwnStep
    <3> QED  BY <2>0, <2>2, <3>3 DEF EarnedInv
  <2> QED  BY <2>1, <2>2
<1>7. CASE Restart
  <2>1. live' # 0 => exp'[live'] = Started(enrollment)
    BY <1>2, <1>7 DEF Restart
  <2>2. live' # 0 => exp'[live'].base = ckpt' /\ exp'[live'].state = "idle"
    BY <1>7, <2>1 DEF Restart, Started
  <2> QED  BY <1>b, <2>2
<1>8. CASE UNCHANGED vars
  BY <1>8, <1>a DEF vars, storeVars
<1> QED  BY <1>3, <1>4, <1>5, <1>6, <1>7, <1>8 DEF Next

\* Whatever the operators do, at once or in turn, with or without history,
\* under however many identities, and whatever fails or crashes: the running
\* pipeline has moved the checkpoint over no batch it had to send and that
\* it did not bring to the Gateway.
THEOREM CheckpointEarnedHolds == Spec => []CheckpointEarned
<1>1. Init => EarnedInv
  BY DEF Init, EarnedInv
<1>2. TypeOK /\ TypeOK' /\ Bounds /\ EarnedInv /\ [Next]_vars => EarnedInv'
  BY EarnedStep
<1>3. TypeOK /\ Bounds /\ EarnedInv => CheckpointEarned
  <2> SUFFICES ASSUME TypeOK, Bounds, EarnedInv, live # 0,
                      NEW n \in exp[live].base + 1 .. ckpt,
                      Own(live, n), log[n].seq >= exp[live].from
               PROVE  <<live, n>> \in cloud
    BY DEF CheckpointEarned
  <2>1. exp[live].base \in Nat /\ ckpt \in Nat /\ Len(log) \in Nat /\ ckpt <= Len(log)
    BY Sorts DEF Bounds
  <2>2. n \in 1 .. Len(log) /\ exp[live].base < n /\ n <= ckpt
    BY <2>1
  <2> QED  BY <2>2 DEF EarnedInv, Earned, Owed, Sent
<1> QED  BY <1>1, <1>2, <1>3, BoundsHold, PTL DEF Spec
=============================================================================
