---------------------------- MODULE MCPolicyCache ----------------------------
(* One app and the root manager, the 64-bit and the 32-bit daemon.           *)
EXTENDS PolicyCache, TLC

MCSlot == 1..(Cardinality(Daemon) + 2)
MCSymmetry == Permutations(Daemon)
=============================================================================
