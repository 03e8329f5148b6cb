------------------------- MODULE MCControlCommands -------------------------
(* ControlCommands with one request at the Manager and one stream at a time. *)
EXTENDS ControlCommands

MCOperators == {"operator"}
MCStreams == {"stream"}

\* No definition tells applied from degraded.
MCAnswers == {"degraded", "rejected"}
=============================================================================
