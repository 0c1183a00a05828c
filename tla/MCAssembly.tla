----------------------------- MODULE MCAssembly -----------------------------
(* Assembly on the deployments of MCDeployments. *)
EXTENDS Validation, MCDeployments
=============================================================================
