--------------------------- MODULE MCIngestWorker ---------------------------
(* Instances of IngestWorker for model checking.                           *)
EXTENDS IngestWorker

NoBatch == {}
SecondBatch == {2}
=============================================================================
