-------------------------- MODULE MCExportPipeline --------------------------
(* Small instances of ExportPipeline: the configurations differ in what an *)
(* operator does (one request at a time or two, with or without history,   *)
(* enrolling over an enrollment) and in the read limit.                    *)
EXTENDS ExportPipeline

MCBothKinds == {"event", "signal"}
MCEventsOnly == {"event"}
MCNoHistory == {FALSE}
MCHistory == {TRUE}
MCAnyHistory == {TRUE, FALSE}
=============================================================================
