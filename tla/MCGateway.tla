----------------------------- MODULE MCGateway ------------------------------
(* One token, one policy of two contents, and three requests.               *)
EXTENDS GatewayBinding

MCRegimes ==
  { [kinds |-> Kinds, overlap |-> {}, faults |-> 2],
    [kinds |-> Kinds, overlap |-> {"create", "remove", "change"},
     faults |-> 0],
    [kinds |-> Kinds, overlap |-> Kinds, faults |-> 1] }
=============================================================================
