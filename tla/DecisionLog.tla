----------------------------- MODULE DecisionLog -----------------------------
(***************************************************************************)
(* What the approval log promises its reader: a parked request is decided  *)
(* at most once, and the log holds a decision only after it took effect    *)
(* and at most once, whoever else was answering.  Sessions implements it.  *)
(***************************************************************************)
CONSTANT Decisions      \* records with the field `request`, what they are about

VARIABLES decided,      \* the decisions that took effect
          log           \* the decisions the log shows

Init == decided = {} /\ log = {}

Decide(d) ==
    /\ \A e \in decided : e.request # d.request
    /\ decided' = decided \cup {d}
    /\ UNCHANGED log

Write(d) ==
    /\ d \in decided \ log
    /\ log' = log \cup {d}
    /\ UNCHANGED decided

Next == \E d \in Decisions : Decide(d) \/ Write(d)

Spec == Init /\ [][Next]_<<decided, log>>
=============================================================================
