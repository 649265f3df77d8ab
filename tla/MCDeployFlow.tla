---------------------------- MODULE MCDeployFlow ----------------------------
(* Small instances of DeployFlow for TLC.                                  *)
EXTENDS DeployFlow
=============================================================================
