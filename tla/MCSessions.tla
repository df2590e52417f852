----------------------------- MODULE MCSessions -----------------------------
(* An instance of Sessions small enough for TLC. *)
EXTENDS Sessions
CONSTANTS q1, q2, a1, a2, m1
=============================================================================
