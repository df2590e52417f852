---------------------------- MODULE MCTelemetry ----------------------------
(* An instance of Telemetry small enough for TLC, one trace in three       *)
(* batches: the root with the session; the workflow span of a turn, and a  *)
(* flush that carries the session's run; the model call under the turn,    *)
(* with the alias.                                                         *)
EXTENDS Telemetry
CONSTANTS root, outer, model, flush, b1, b2, b3, t1, t2, s1, turn0, p1

ParentDef ==
    [s \in Spans |-> CASE s = root -> None [] s = model -> outer [] OTHER -> root]
DeclaredDef == [s \in Spans |-> IF s \in {model, flush} THEN turn0 ELSE None]
SessionDef == [s \in Spans |-> IF s = root THEN s1 ELSE None]
RunIdDef == [s \in Spans |-> CASE s = outer -> t1 [] s = model -> None [] OTHER -> s1]
TraceDef == [s \in Spans |-> 1]
ContentDef ==
    [b \in Batches |->
       CASE b = b1 -> {model} [] b = b2 -> {outer, flush} [] b = b3 -> {root}]
=============================================================================
