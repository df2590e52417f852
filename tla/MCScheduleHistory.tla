-------------------------- MODULE MCScheduleHistory --------------------------
(* A calendar of 3-minute hours, 3-hour days, 3-day weeks and 2-day months, *)
(* and zones that differ by hours or change by one, or by less.             *)
EXTENDS ScheduleHistory

\* The zones, as offsets in minutes and the instants they begin at.
Fixed(o) == <<[from |-> 0, offset |-> o]>>
Year(a, change, b, back) ==
    <<[from |-> 0, offset |-> a], [from |-> change, offset |-> b], [from |-> back, offset |-> a]>>
ZonesDef ==
    {Fixed(0), Fixed(3), Year(0, 12, 3, 21), Year(3, 12, 0, 21), Year(0, 12, 2, 21)}

Any == {[first |-> Star, last |-> None, step |-> None]}
Every(n) == {[first |-> Star, last |-> None, step |-> n]}
At(n) == {[first |-> n, last |-> None, step |-> None]}
From(n, s) == {[first |-> n, last |-> None, step |-> s]}
Span(a, b) == {[first |-> a, last |-> b, step |-> None]}

Days == {<<Any, Any>>, <<At(2), Any>>, <<Any, At(3)>>, <<At(2), Span(1, 1)>>, <<Any \cup At(2), Span(1, 1)>>}
ExpressionsDef ==
    {[minute |-> m, hour |-> h, dom |-> d[1], month |-> Any, dow |-> d[2]] :
        m \in {At(0), Every(2), From(1, 1)}, h \in {Any, Span(0, 1)}, d \in Days}
=============================================================================
