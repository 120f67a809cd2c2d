---------------------------- MODULE MCIngestJobs ----------------------------
(* Async jobs and a recurring sync request over a gate of two slots.       *)
EXTENDS IngestJobs
=============================================================================
