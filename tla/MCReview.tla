------------------------------ MODULE MCReview ------------------------------
(* Two requests at a time, histories long enough to be deployed.            *)
EXTENDS ReviewWorkflow, TLC

ClientSymmetry == Permutations(Clients)
=============================================================================
