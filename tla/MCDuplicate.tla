------------------------------ MODULE MCDuplicate ------------------------------
(* A pipeline cut down to deploy and register, and two deliveries of the    *)
(* same task message.                                                       *)
EXTENDS CompileWorkflow
CONSTANTS d1, d2

MCDeliveries == {d1, d2}
MCRollbackEnabled == {1}
MCEffectful == {1, 2}
MCHandled == {1}
MCRestoring == {}
MCOnce == {2}
MCRequires == [s \in 1 .. 2 |-> {}]
MCRequests == {[from_stage |-> 0, checkpoint |-> 0]}
================================================================================
