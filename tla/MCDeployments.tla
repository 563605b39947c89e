---------------------------- MODULE MCDeployments ----------------------------
(* Two jobs of one service, or of two services whose ids are sanitised to   *)
(* one label.                                                               *)
EXTENDS Deployments

MCJobs == {"j1", "j2"}
MCServices == {"crm_api", "crm-api"}
MCLabel == [s \in MCServices |-> "crm-api"]
=============================================================================
