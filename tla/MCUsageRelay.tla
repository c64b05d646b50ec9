----------------------------- MODULE MCUsageRelay -----------------------------
(* Instances of UsageRelay for TLC.                                        *)
EXTENDS UsageRelay, TLC

Symmetry == Permutations(Relays) \cup Permutations(UsageReaders) \cup Permutations(Hosts)
=============================================================================
