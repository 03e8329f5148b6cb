------------------------------ MODULE BatchLog ------------------------------
(***************************************************************************)
(* What the local store promises to the pipeline above it: one log to      *)
(* which batches are appended at the end and from which nothing is taken,  *)
(* a set of batches reported as stored, all of them in the log, and a mark *)
(* that moves over the log one batch at a time.  A batch may be appended   *)
(* twice (a retried SendBatch), never removed.                             *)
(***************************************************************************)
EXTENDS Naturals, Sequences

CONSTANT Batches

VARIABLES
  log,      \* the batches in the order ReadBatches returns them
  stored,   \* batches SendBatch reported as stored
  mark      \* how many of log the checkpoint covers

logVars == <<log, stored, mark>>

LogInit == log = <<>> /\ stored = {} /\ mark = 0

AppendLog(b) == log' = Append(log, b) /\ UNCHANGED <<stored, mark>>

Report(b) ==
  /\ \E n \in DOMAIN log : log[n] = b
  /\ stored' = stored \cup {b}
  /\ UNCHANGED <<log, mark>>

Advance == mark < Len(log) /\ mark' = mark + 1 /\ UNCHANGED <<log, stored>>

LogNext == Advance \/ \E b \in Batches : AppendLog(b) \/ Report(b)

LogSpec == LogInit /\ [][LogNext]_logVars
====
