----------------------------- MODULE MCEventStream -----------------------------
(* Executions that append to the log of one job, and one client.            *)
EXTENDS EventStream
================================================================================
