---------------------------- MODULE RuntimeProxy ----------------------------
(***************************************************************************)
(* Tool calls of the MCP runtime (RuntimeProxy.invoke,                     *)
(* apps/mcp_runtime/proxy.py) and the per-operation circuit breakers they  *)
(* share (apps/mcp_runtime/circuit_breaker.py).                            *)
(*                                                                         *)
(* The runtime is one asyncio process: a call runs without interruption up *)
(* to the await of its upstream request, and again from the answer to its  *)
(* end.  Between the two, other calls of the same operation start and end. *)
(* Arguments and answers are abstracted to how a call ends.                *)
(***************************************************************************)
EXTENDS Integers, FiniteSets

CONSTANTS
  Operations,  \* ids of the operations of the loaded service
  Native,      \* operations _dispatch_native serves without the HTTP path
  Calls,       \* calls that may be in progress at the same time
  Threshold    \* failure_threshold of every breaker

ASSUME ProxyAssumption ==
  /\ Native \subseteq Operations
  /\ IsFiniteSet(Calls)
  /\ Threshold \in Nat \ {0}

VARIABLES
  phase,     \* phase[c]: progress of call c, or what it was answered
  operation, \* operation[c]: the operation call c invokes
  failures,  \* breakers[o].consecutive_failures
  is_open,   \* breakers[o].is_open
  gauge      \* mcp_runtime_circuit_breaker_state of o, TRUE for 1

breakerVars == <<failures, is_open, gauge>>
vars == <<phase, operation, failures, is_open, gauge>>

Answer == {"ok", "error", "blocked"}

TypeOK ==
  /\ phase \in [Calls -> Answer \cup {"idle", "upstream"}]
  /\ operation \in [Calls -> Operations]
  /\ failures \in [Operations -> Nat]
  /\ is_open \in [Operations -> BOOLEAN]
  /\ gauge \in [Operations -> BOOLEAN]

(* A fresh process: closed breakers, and register_operation's gauge of 0.   *)
Uncounted == [o \in Operations |-> 0]
AllClosed == [o \in Operations |-> FALSE]

Init ==
  /\ phase = [c \in Calls |-> "idle"]
  /\ operation \in [Calls -> Operations]
  /\ failures = Uncounted
  /\ is_open = AllClosed
  /\ gauge = AllClosed
-----------------------------------------------------------------------------
(* The breaker and the gauge that follows every change of it.               *)

SetState(o, open) == gauge' = [gauge EXCEPT ![o] = open]

(* Mutant: a success closes the breaker and leaves the count standing.      *)
RecordSuccess_KeepsCount(o) ==
  /\ is_open' = [is_open EXCEPT ![o] = FALSE]
  /\ SetState(o, FALSE)
  /\ UNCHANGED failures

RecordSuccess(o) ==
  /\ failures' = [failures EXCEPT ![o] = 0]
  /\ is_open' = [is_open EXCEPT ![o] = FALSE]
  /\ SetState(o, FALSE)

RecordFailure(o) ==
  LET open == is_open[o] \/ failures[o] + 1 >= Threshold IN
  /\ failures' = [failures EXCEPT ![o] = @ + 1]
  /\ is_open' = [is_open EXCEPT ![o] = open]
  /\ SetState(o, open)
-----------------------------------------------------------------------------
(* invoke up to its first await: before_request admits or refuses the call. *)
Invoke(c, o) ==
  /\ phase[c] = "idle"
  /\ operation' = [operation EXCEPT ![c] = o]
  /\ \/ /\ is_open[o]
        /\ phase' = [phase EXCEPT ![c] = "blocked"]
        /\ SetState(o, TRUE)
     \/ /\ ~is_open[o]
        /\ phase' = [phase EXCEPT ![c] = "upstream"]
        /\ UNCHANGED gauge
  /\ UNCHANGED <<failures, is_open>>

End(c, answer) ==
  /\ phase[c] = "upstream"
  /\ phase' = [phase EXCEPT ![c] = answer]
  /\ UNCHANGED operation

Succeed(c) ==
  /\ End(c, "ok")
  /\ RecordSuccess(operation[c])

(* httpx.TimeoutException and httpx.HTTPError, on either path.              *)
UpstreamFails(c) ==
  /\ End(c, "error")
  /\ RecordFailure(operation[c])

(* Mutant: the handler of ToolError counts what check_protocol_errors       *)
(* has counted already.                                                     *)
ProtocolError_CountedTwice(c) ==
  LET o == operation[c]
      open == is_open[o] \/ failures[o] + 2 >= Threshold
  IN
  /\ o \notin Native
  /\ End(c, "error")
  /\ failures' = [failures EXCEPT ![o] = @ + 2]
  /\ is_open' = [is_open EXCEPT ![o] = open]
  /\ SetState(o, open)

(* check_protocol_errors finds a fault, an error body or an error status:   *)
(* it records the failure and raises a ToolError that is not counted again. *)
ProtocolError(c) ==
  /\ operation[c] \notin Native
  /\ End(c, "error")
  /\ RecordFailure(operation[c])

(* Any other ToolError: counted for native dispatch only.                   *)
ToolErrorRaised(c) ==
  /\ End(c, "error")
  /\ IF operation[c] \in Native THEN RecordFailure(operation[c])
                                ELSE UNCHANGED breakerVars

(* Any other exception, or the cancellation of the call: nothing recorded.  *)
OtherException(c) ==
  /\ End(c, "error")
  /\ UNCHANGED breakerVars

(* The client has its answer, and the call slot is free again.              *)
Return(c) ==
  /\ phase[c] \in Answer
  /\ phase' = [phase EXCEPT ![c] = "idle"]
  /\ UNCHANGED <<operation, breakerVars>>

(* The process is restarted: calls in progress are lost, breakers are new.  *)
Restart ==
  /\ phase' = [c \in Calls |-> "idle"]
  /\ failures' = Uncounted
  /\ is_open' = AllClosed
  /\ gauge' = AllClosed
  /\ UNCHANGED operation

Next ==
  \/ \E c \in Calls :
       \/ \E o \in Operations : Invoke(c, o)
       \/ Succeed(c) \/ UpstreamFails(c) \/ ProtocolError(c)
       \/ ToolErrorRaised(c) \/ OtherException(c) \/ Return(c)
  \/ Restart

Spec == Init /\ [][Next]_vars
-----------------------------------------------------------------------------
InFlight(o) == {c \in Calls : phase[c] = "upstream" /\ operation[c] = o}

(* The gauge behind the CircuitBreakerOpen alert is 1 exactly while the     *)
(* last Threshold recorded calls of the operation all failed, whichever of  *)
(* the five ways of ending a call, and in which order, led there.           *)
AlertIsTruthful ==
  \A o \in Operations : gauge[o] <=> failures[o] >= Threshold

(* A failing upstream is hit by a bounded number of calls: the failures     *)
(* that open the breaker and the calls admitted before, each counted once.  *)
OverloadBounded ==
  \A o \in Operations : failures[o] < Threshold + Cardinality(Calls)
=============================================================================
