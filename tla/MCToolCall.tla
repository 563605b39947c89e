----------------------------- MODULE MCToolCall -----------------------------
(* Calls of a job, a stream and a native operation that share one token.    *)
EXTENDS ToolCall

MCKind == [job |-> "job", sse |-> "stream", sql |-> "native"]
=============================================================================
