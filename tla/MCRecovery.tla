------------------------------ MODULE MCRecovery ------------------------------
(* An upstream that fails for a while and is healthy ever after, behind     *)
(* breakers that are never restarted, and clients that keep calling.        *)
EXTENDS RuntimeProxy

VARIABLE healthy   \* has the upstream recovered?

RecoveryInit == Init /\ healthy = FALSE

Failing ==
  \E c \in Calls :
    UpstreamFails(c) \/ ProtocolError(c) \/ ToolErrorRaised(c) \/ OtherException(c)

(* A client sends a request through operation o, and gets its answer.       *)
Request(c) == (\E o \in Operations : Invoke(c, o)) \/ Succeed(c) \/ Return(c)

Recovers ==
  /\ ~healthy
  /\ healthy' = TRUE
  /\ UNCHANGED vars

RecoveryNext ==
  \/ (\E c \in Calls : Request(c)) /\ UNCHANGED healthy
  \/ ~healthy /\ Failing /\ UNCHANGED healthy
  \/ Recovers

(* Once the upstream is healthy, every operation is called again and again  *)
(* and every admitted call is answered.                                     *)
RecoverySpec ==
  /\ RecoveryInit /\ [][RecoveryNext]_<<vars, healthy>>
  /\ \A c \in Calls :
       /\ \A o \in Operations : SF_<<vars, healthy>>(Invoke(c, o) /\ UNCHANGED healthy)
       /\ WF_<<vars, healthy>>(Succeed(c) /\ UNCHANGED healthy)
       /\ WF_<<vars, healthy>>(Return(c) /\ UNCHANGED healthy)

(* docs/troubleshooting.md, 2.9: once the upstream has recovered, one       *)
(* successful request resets the breaker.  before_request refuses every     *)
(* request of an open breaker, so that none can succeed.                    *)
RecoveryResets ==
  \A o \in Operations : healthy /\ is_open[o] ~> ~is_open[o]
===============================================================================
