---------------------------- MODULE MCPodCrashes ----------------------------
(* Instances of PodCrashes for TLC: the names of pods.                     *)
EXTENDS PodCrashes

CONSTANTS web, job
=============================================================================
