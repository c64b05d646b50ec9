------------------------------- MODULE MCLlmJob -------------------------------
(* Instances of LlmJob for TLC: jobs interact only through the replicas they *)
(* share, whose faults the instances include.                                *)
EXTENDS LlmJob, TLC

Symmetry == Permutations(Replicas) \cup Permutations(Jobs)
=============================================================================
