----------------------------- MODULE MCSandbox -----------------------------
(* An instance of Sandbox small enough for TLC. *)
EXTENDS Sandbox, TLC
CONSTANTS unset, allowAll, denyAll, k1, k2
Callers == Permutations({k1, k2})
=============================================================================
