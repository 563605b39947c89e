----------------------------- MODULE JobLifecycle -----------------------------
(***************************************************************************)
(* What a compilation job promises to whoever looks at its row and at the  *)
(* service it builds: the status moves along                               *)
(*     pending -> running -> succeeded | failed | rolled_back              *)
(* (docs/architecture.md, Job Status Transitions), outside effects happen  *)
(* only before the job is over, succeeded means that all the effects the   *)
(* job owes are in place, and a finished job is left alone until a retry   *)
(* of it is created, which starts again at pending.  The row of a refused  *)
(* job disappears.                                                         *)
(***************************************************************************)
EXTENDS Integers

VARIABLES
  status,   \* "absent", or the status of the job's row
  world,    \* the effects in place
  owed,     \* the effects the job has to bring about
  job       \* which job of the lineage this is

Outcome == {"succeeded", "failed", "rolled_back"}

Init ==
  /\ status = "absent"
  /\ world \cap owed = {}
  /\ job = 0

Create ==
  /\ status = "absent"
  /\ status' = "pending"
  /\ UNCHANGED <<world, owed, job>>

Start ==
  /\ status = "pending"
  /\ status' = "running"
  /\ UNCHANGED <<world, owed, job>>

(* A job without a row may still be finishing the step it was in.           *)
Work ==
  /\ status \in {"running", "absent"}
  /\ UNCHANGED <<status, owed, job>>

Finish ==
  /\ status = "running"
  /\ status' \in Outcome
  /\ status' = "succeeded" => owed \subseteq world
  /\ UNCHANGED <<world, owed, job>>

Remove ==
  /\ status' = "absent"
  /\ UNCHANGED <<world, owed, job>>

(* A retry is a new job: what it owes follows from where it starts, what it *)
(* finds from the version it works on.                                      *)
Retry ==
  /\ status # "absent"
  /\ status' = "pending"
  /\ job' = job + 1

Next == Create \/ Start \/ Work \/ Finish \/ Remove \/ Retry

Spec == Init /\ [][Next]_<<status, world, owed, job>>
===============================================================================
