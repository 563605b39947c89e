------------------------------ MODULE MCSessions ------------------------------
(* Sessions of every transport with an upstream that sends up to four items. *)
EXTENDS Sessions

MCTransports ==
  {"sse", "websocket", "grpc_stream", "grpc_unary", "cli", "broker", "stub"}
===============================================================================
