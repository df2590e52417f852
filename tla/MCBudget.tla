------------------------------- MODULE MCBudget -------------------------------
(* Instances of Budget small enough for TLC. *)
EXTENDS Budget, TLC

CONSTANTS s1, s2, alice, bob

\* alice drives both sessions alone.
Alone == s1 :> {alice} @@ s2 :> {alice}

Deployed(mode, session, daily, unpriced, closed) ==
    [mode |-> mode, sessionUsd |-> session, dailyUsd |-> daily,
     unpricedStop |-> unpriced, failClosed |-> closed]

\* Both caps, the session's raised by a redeployment that also fails closed; a
\* model without a price under cancel; and counters that stop nothing.
PassConfigs ==
    {Deployed("fail", 1, 2, FALSE, FALSE), Deployed("fail", 2, 2, FALSE, TRUE),
     Deployed("cancel", -1, 2, TRUE, FALSE), Deployed("observe", 2, 2, FALSE, FALSE)}

TwoAndOne == s1 :> 2 @@ s2 :> 1

TwoEach == s1 :> 2 @@ s2 :> 2

DailyConfigs == {Deployed("fail", -1, 2, FALSE, FALSE)}

CancelConfigs == {Deployed("cancel", 2, -1, FALSE, FALSE)}
=============================================================================
