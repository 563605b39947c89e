----------------------------- MODULE MCRegistry -----------------------------
(* Four versions, three of which exist, and two requests.                   *)
EXTENDS ArtifactRegistry

Locking == {"activate", "delete", "delete_service"}

MCRegimes ==
  { \* one request after the other, with up to two errors
    [kinds |-> Kinds, overlap |-> {}, faults |-> 2],
    \* anything beside anything
    [kinds |-> Kinds, overlap |-> Kinds, faults |-> 0],
    \* those that lock several rows, in different orders, with one error
    [kinds |-> Locking, overlap |-> Locking, faults |-> 1] }
=============================================================================
