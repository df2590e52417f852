---------------------------- MODULE AlertChannel ----------------------------
(***************************************************************************)
(* What alert delivery promises the reader of a channel: the sequence of   *)
(* states one sink is told about each monitor, without ticks, tables or    *)
(* leases.  AlertDelivery implements it when every answer arrives.         *)
(***************************************************************************)
CONSTANTS Alerts,   \* monitor ids
          Page,     \* those of severity "page"
          Sinks     \* configured webhooks

VARIABLE told       \* told[s][a]: the last state s was told for monitor a

Init == told = [s \in Sinks |-> [a \in Alerts |-> "never"]]

\* A reader hears "firing" from anywhere, the all-clear only after "firing",
\* and a loss of coverage only out of "firing" or for a paging monitor.
News(a, from, to) ==
    /\ from # to
    /\ \/ to = "firing"
       \/ to = "ok" /\ from = "firing"
       \/ to = "unknown" /\ (from = "firing" \/ a \in Page)

\* One message to one sink carries news about one or more monitors, and only news.
Message(s) ==
    \E about \in (SUBSET Alerts) \ {{}} :
      \E to \in [about -> {"ok", "firing", "unknown"}] :
        /\ \A a \in about : News(a, told[s][a], to[a])
        /\ told' = [told EXCEPT ![s] =
                      [a \in Alerts |-> IF a \in about THEN to[a] ELSE @[a]]]

Next == \E s \in Sinks : Message(s)

Spec == Init /\ [][Next]_told
=============================================================================
