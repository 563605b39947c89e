------------------------------ MODULE MCPipeline ------------------------------
(* The nine default stage definitions, one delivery of every task, a job    *)
(* from scratch and up to two retries of it, resumed at every boundary.     *)
EXTENDS CompileRetry
CONSTANT d1

MCDeliveries == {d1}
MCRollbackEnabled == {5, 6, 8}   \* generate, deploy, route
MCEffectful == {6, 8, 9}         \* deploy, route, register
MCHandled == {6, 8}
MCRestoring == {8}
MCOnce == {9}
MCRequires == [s \in 1 .. 9 |-> IF s = 7 THEN {6} ELSE {}]
MCRequests == {[from_stage |-> 0, checkpoint |-> 0]}
===============================================================================
