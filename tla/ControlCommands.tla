-------------------------- MODULE ControlCommands --------------------------
(***************************************************************************)
(* The life of one control command (a policy or content update for an      *)
(* agent): created and managed by operators through the Manager, delivered *)
(* by the Gateway when the agent opens its control stream, acknowledged on *)
(* that stream.                                                            *)
(*                                                                         *)
(* Code: the control commands of internal/store (store.go and              *)
(* postgres/snapshot.go), internal/manager/api/http_control.go,            *)
(* internal/gateway/control_grpc.go, and the agent's control loop in       *)
(* internal/agent/daemon/transport_runtime.go.                             *)
(*                                                                         *)
(* Manager and Gateway are processes that share the Postgres row.  Each    *)
(* has a working set: its own copy of every command it has touched.  A     *)
(* handler changes the copy first; Save then takes a snapshot of the whole *)
(* working set and upserts all of it.  So two commands meet only in their  *)
(* Saves, and the model follows one: every other request of a process,     *)
(* about another command or anything else, is a Save for this one.         *)
(***************************************************************************)
CONSTANTS
  Operators,   \* requests the Manager can serve at once
  Streams,     \* control streams the Gateway can serve at once
  NoStream,
  Answers      \* what the agent may answer: degraded if rules lack their inputs

ASSUME ControlAssumption ==
  /\ Operators \cap Streams = {} /\ NoStream \notin Streams
  /\ Answers \subseteq {"applied", "degraded", "rejected"}

VARIABLES
  mem,        \* mem[p]: the status in the working set of process p
  row,        \* the status in the control_commands table
  step, op, found, snap,   \* per handler: the call being served
  link,       \* the stream the agent is connected by
  frame,      \* the command on its way to the agent
  acks,       \* answers on their way to the Gateway
  reported,   \* every answer the agent gave
  answered,   \* has it answered since an operator last asked for the command
  told,       \* the status the last call that changed it answered with
  faults      \* whether queries, saves, streams and processes may still fail

handlerVars == <<step, op, found, snap>>
agentVars == <<link, frame, acks, reported, answered>>
vars == <<mem, row, handlerVars, agentVars, told, faults>>

Processes == {"manager", "gateway"}
Handlers == Operators \cup Streams
Home(h) == IF h \in Operators THEN "manager" ELSE "gateway"

\* "rejected" stands for rejected and failed, "canceled" for canceled and
\* expired: the code treats the two of each pair alike.
Outcomes == {"applied", "rejected"}
Terminal == Outcomes \cup {"canceled"}
Known == Terminal \cup {"pending", "sent", "none"}
Requests == {"create", "cancel", "retry"}

\* The answers of an agent that has put the update in force.
InForce == {"applied", "degraded"}

Init ==
  /\ mem = [p \in Processes |-> "none"] /\ row = "none"
  /\ step = [h \in Handlers |-> "idle"] /\ op = [h \in Handlers |-> "save"]
  /\ found = [h \in Handlers |-> "none"] /\ snap = [h \in Handlers |-> "none"]
  /\ link = NoStream /\ frame = "none" /\ acks = {} /\ reported = {} /\ answered = FALSE
  /\ told = "none" /\ faults = "on"

-----------------------------------------------------------------------------
\* applyControlCommandAck: whatever the status was.
Recorded(a) == IF a \in InForce THEN "applied" ELSE "rejected"

\* Mutant: cancel stores the action instead of the status.
UpdatedByAction(o, s) ==
  CASE o = "create" -> "pending"
    [] o = "cancel" -> "cancel"
    [] o = "retry"  -> IF s = "applied" THEN s ELSE "pending"
    [] o = "hello"  -> IF s \in Terminal THEN s ELSE "sent"
    [] OTHER -> Recorded(o)

\* Mutant: a command counts as applied once it is sent.
UpdatedOnSend(o, s) ==
  CASE o = "create" -> "pending"
    [] o = "cancel" -> IF s \in Terminal THEN s ELSE "canceled"
    [] o = "retry"  -> IF s = "applied" THEN s ELSE "pending"
    [] o = "hello"  -> IF s \in Terminal THEN s ELSE "applied"
    [] OTHER -> Recorded(o)

\* CreateControlCommand, the updates of Cancel (and Expire) and Retry,
\* MarkControlCommandSent, AckControlCommand.
Updated(o, s) ==
  CASE o = "create" -> "pending"
    [] o = "cancel" -> IF s \in Terminal THEN s ELSE "canceled"
    [] o = "retry"  -> IF s = "applied" THEN s ELSE "pending"
    [] o = "hello"  -> IF s \in Terminal THEN s ELSE "sent"
    [] OTHER -> Recorded(o)

\* A call that makes the command wait asks its agent for a new answer.
Asked(s) == answered' = (answered /\ s # "pending") /\ UNCHANGED <<link, frame, acks, reported>>

Go(h, s) == step' = [step EXCEPT ![h] = s]

\* The handler's variables end with the call.
Return(h) ==
  /\ Go(h, "idle") /\ op' = [op EXCEPT ![h] = "save"]
  /\ found' = [found EXCEPT ![h] = "none"] /\ snap' = [snap EXCEPT ![h] = "none"]

-----------------------------------------------------------------------------
(* Calls.                                                                  *)

\* An operator posts the command or an action on it.
Request(h, o) ==
  /\ step[h] = "idle"
  /\ Go(h, "update") /\ op' = [op EXCEPT ![h] = o]
  /\ UNCHANGED <<mem, row, found, snap, agentVars, told, faults>>

\* Any other request to the Manager or frame or batch to the Gateway: it saves
\* the working set.
Other(h) ==
  /\ step[h] = "idle"
  /\ Go(h, "snapshot")
  /\ UNCHANGED <<mem, row, op, found, snap, agentVars, told, faults>>

\* The agent opens a stream and says hello.
Connect(h) ==
  /\ link = NoStream /\ step[h] = "idle"
  /\ link' = h
  /\ Go(h, "list") /\ op' = [op EXCEPT ![h] = "hello"]
  /\ UNCHANGED <<mem, row, found, snap, frame, acks, reported, answered, told, faults>>

\* The Gateway takes an acknowledgement from the stream.
ReceiveAck(h, a) ==
  /\ link = h /\ step[h] = "idle" /\ a \in acks
  /\ acks' = acks \ {a}
  /\ Go(h, "update") /\ op' = [op EXCEPT ![h] = a]
  /\ UNCHANGED <<mem, row, found, snap, link, frame, reported, answered, told, faults>>

-----------------------------------------------------------------------------
(* The handlers.                                                           *)

\* Mutant: a command that was sent once is not listed again.
ListPendingOnly(h) ==
  /\ step[h] = "list"
  /\ \E s \in {row} \cup (IF faults = "on" THEN {mem["gateway"]} ELSE {}) :
       IF s = "pending"
       THEN Go(h, "update") /\ UNCHANGED op
       ELSE Go(h, "snapshot") /\ op' = [op EXCEPT ![h] = "save"]
  /\ UNCHANGED <<mem, row, found, snap, agentVars, told, faults>>

\* PendingControlCommands of the rows, or of the working set if the query
\* fails.  A hello that does not list the command only saves.
List(h) ==
  /\ step[h] = "list"
  /\ \E s \in {row} \cup (IF faults = "on" THEN {mem["gateway"]} ELSE {}) :
       IF s \in {"pending", "sent"}
       THEN Go(h, "update") /\ UNCHANGED op
       ELSE Go(h, "snapshot") /\ op' = [op EXCEPT ![h] = "save"]
  /\ UNCHANGED <<mem, row, found, snap, agentVars, told, faults>>

\* updateControlCommand, AckControlCommand, MarkControlCommandSent: a command
\* in the working set is updated there under the lock ...
UpdateCopy(h) ==
  /\ step[h] = "update" /\ (mem[Home(h)] # "none" \/ op[h] = "create")
  /\ mem' = [mem EXCEPT ![Home(h)] = Updated(op[h], @)]
  /\ found' = [found EXCEPT ![h] = Updated(op[h], mem[Home(h)])]
  /\ Go(h, "snapshot") /\ Asked(Updated(op[h], mem[Home(h)]))
  /\ UNCHANGED <<row, op, snap, told, faults>>

\* ... and one that is not is read from its row without the lock.  A missing
\* row or a failed query ends the call: not found at the Manager, an accepted
\* ack at the Gateway; a hello goes on.
ReadRow(h) ==
  /\ step[h] = "update" /\ mem[Home(h)] = "none" /\ op[h] # "create"
  /\ \/ /\ row # "none"
        /\ found' = [found EXCEPT ![h] = Updated(op[h], row)]
        /\ Go(h, "upsert") /\ Asked(Updated(op[h], row))
        /\ UNCHANGED <<op, snap>>
     \/ /\ row = "none" \/ faults = "on"
        /\ IF op[h] = "hello" THEN Go(h, "snapshot") /\ UNCHANGED <<op, found, snap>> ELSE Return(h)
        /\ UNCHANGED agentVars
  /\ UNCHANGED <<mem, row, told, faults>>

\* upsertControlCommandSnapshot
Upsert(h) ==
  /\ step[h] = "upsert"
  /\ mem' = [mem EXCEPT ![Home(h)] = found[h]]
  /\ Go(h, "snapshot")
  /\ UNCHANGED <<row, op, found, snap, agentVars, told, faults>>

\* Save copies the working set under the lock ...
SaveSnapshot(h) ==
  /\ step[h] = "snapshot"
  /\ snap' = [snap EXCEPT ![h] = mem[Home(h)]]
  /\ Go(h, "save")
  /\ UNCHANGED <<mem, row, op, found, agentVars, told, faults>>

\* ... upserts the copy outside it, and the handler answers: the Manager the
\* operator, a hello with the command if its stream is still open.
SaveWrite(h) ==
  /\ step[h] = "save"
  /\ row' = IF snap[h] # "none" THEN snap[h] ELSE row
  /\ told' = IF op[h] \in Requests \cup Answers THEN found[h] ELSE told
  /\ frame' = IF op[h] = "hello" /\ link = h THEN "command" ELSE frame
  /\ Return(h)
  /\ UNCHANGED <<mem, link, acks, reported, answered, faults>>

Down == link' = NoStream /\ frame' = "none" /\ acks' = {}

\* The transaction fails: the operator gets an error, the agent a rejected
\* frame, after which it closes the stream.
SaveFail(h) ==
  /\ step[h] = "save" /\ faults = "on"
  /\ IF link = h THEN Down ELSE UNCHANGED <<link, frame, acks>>
  /\ Return(h)
  /\ UNCHANGED <<mem, row, reported, answered, told, faults>>

-----------------------------------------------------------------------------
(* The agent, the network and the processes.                               *)

\* handleControlFrame: applies or refuses the update and acknowledges.
Handle(a) ==
  /\ frame = "command"
  /\ frame' = "none" /\ acks' = acks \cup {a} /\ reported' = reported \cup {a} /\ answered' = TRUE
  /\ UNCHANGED <<mem, row, handlerVars, link, told, faults>>

\* The stream ends or breaks; its handler does not notice.
Break ==
  /\ link # NoStream /\ Down
  /\ UNCHANGED <<mem, row, handlerVars, reported, answered, told, faults>>

\* A process starts with an empty working set.
Restart(p) ==
  /\ faults = "on"
  /\ mem' = [mem EXCEPT ![p] = "none"]
  /\ step' = [h \in Handlers |-> IF Home(h) = p THEN "idle" ELSE step[h]]
  /\ op' = [h \in Handlers |-> IF Home(h) = p THEN "save" ELSE op[h]]
  /\ found' = [h \in Handlers |-> IF Home(h) = p THEN "none" ELSE found[h]]
  /\ snap' = [h \in Handlers |-> IF Home(h) = p THEN "none" ELSE snap[h]]
  /\ IF p = "gateway" THEN Down ELSE UNCHANGED <<link, frame, acks>>
  /\ UNCHANGED <<row, reported, answered, told, faults>>

\* From here on nothing fails.
Settle ==
  /\ faults = "on"
  /\ faults' = "off"
  /\ UNCHANGED <<mem, row, handlerVars, agentVars, told>>

Call(h) ==
  \/ List(h) \/ UpdateCopy(h) \/ ReadRow(h) \/ Upsert(h)
  \/ SaveSnapshot(h) \/ SaveWrite(h) \/ SaveFail(h)

Next ==
  \/ \E h \in Operators, o \in Requests : Request(h, o)
  \/ \E h \in Streams : Connect(h) \/ \E a \in Answers : ReceiveAck(h, a)
  \/ \E h \in Handlers : Other(h) \/ Call(h)
  \/ \E a \in Answers : Handle(a)
  \/ Break
  \/ \E p \in Processes : Restart(p)
  \/ Settle

Spec == Init /\ [][Next]_vars

\* Queries, saves and processes stop to fail, and then every call ends.  The agent
\* handles what it gets and reconnects.  Finally no stream breaks in the middle
\* of a hello or before the agent has handled the command; whether a stream
\* ever breaks is left open.
Fairness ==
  /\ WF_vars(Settle)
  /\ SF_vars(\E h \in Streams : Connect(h))
  /\ WF_vars(\E h \in Streams : Call(h))
  /\ WF_vars(\E a \in Answers : Handle(a))
  /\ <>[][Break => step[link] = "idle" /\ frame = "none"]_vars

FairSpec == Spec /\ Fairness

-----------------------------------------------------------------------------
(* Properties.                                                             *)

\* Every variable has its type.
TypeOK ==
  /\ mem \in [Processes -> Known] /\ row \in Known
  /\ step \in [Handlers -> {"idle", "list", "update", "upsert", "snapshot", "save"}]
  /\ op \in [Handlers -> Requests \cup Answers \cup {"hello", "save"}]
  /\ found \in [Handlers -> Known] /\ snap \in [Handlers -> Known]
  /\ link \in Streams \cup {NoStream} /\ frame \in {"none", "command"}
  /\ acks \subseteq Answers /\ reported \subseteq Answers /\ answered \in BOOLEAN
  /\ told \in Known /\ faults \in {"on", "off"}

\* A handler that lists or changes the command knows what for.
UpdateKnown == \A h \in Handlers : step[h] \in {"list", "update"} => op[h] # "save"

\* A status that says what the agent did says what the agent did.
Real(s) ==
  /\ s = "applied" => reported \cap InForce # {}
  /\ s = "rejected" => "rejected" \in reported

\* ... wherever the status is: in a working set, a row just read, a snapshot
\* being saved; and an answer in flight or being handled was given.
CopiesReal ==
  /\ \A p \in Processes : Real(mem[p])
  /\ \A h \in Handlers : Real(found[h]) /\ Real(snap[h]) /\ (op[h] \in Answers => op[h] \in reported)
  /\ acks \subseteq reported

\* A command is recorded, and shown to an operator, as applied only if its agent
\* has put it in force, fully or degraded, and as rejected only if its agent
\* refused it: whatever the working sets of the two processes, their saves,
\* failures and restarts do to one another.
OutcomeReported == Real(row) /\ Real(told)

\* A command that waits for delivery is answered by its agent after the operator
\* last asked for it, or is ended, although streams break, saves fail and
\* processes restart; unless the agent stays connected for ever by a stream
\* that said hello before.
EventuallyAnswered ==
  row \in {"pending", "sent"} ~> (answered \/ row \in Terminal \/ [](link # NoStream))

\* A command that was acknowledged, canceled or expired does not wait for
\* delivery again unless an operator asks for it.
EndedStaysEnded == told \in Terminal => row \notin {"pending", "sent"}
=============================================================================
