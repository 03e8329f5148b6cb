------------------------ MODULE MCTelemetryPipeline ------------------------
(* Small instance of TelemetryPipeline: two identities, batches of one or  *)
(* two frames, and a queue that fills up.                                  *)
EXTENDS TelemetryPipeline

MCBatchSizes == {1, 2}
============================================================================
