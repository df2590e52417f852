----------------------------- MODULE AlertRules -----------------------------
(***************************************************************************)
(* The rule table of packages/dashboard/lib/alert-delivery.ts: which       *)
(* change of a monitor is worth a message.  planNotifications is pure, so  *)
(* it is an operator here.  Wording, durations and message layout are left *)
(* out; the re-notify interval is reduced to whether it has elapsed.       *)
(***************************************************************************)

\* AlertState of lib/alerts.ts, and the value of a row or of a sink's record
\* that was never written (null in the source).
AlertState == {"ok", "firing", "unknown"}
Remembered == AlertState \cup {"never"}
TransitionKind == {"fired", "resolved", "stale", "renotify"}

\* An all-clear for every monitor that is healthy, whoever was told it fired.
KindEagerResolve(from, to, everOk, page, due) ==
    CASE from = to -> IF to = "firing" /\ due THEN "renotify" ELSE "silent"
      [] from # to /\ to = "firing" -> "fired"
      [] from # to /\ to = "ok" -> "resolved"
      [] from # to /\ to = "unknown" /\ (from = "firing" \/ (everOk /\ page)) -> "stale"
      [] OTHER -> "silent"

\* `from === "ok"` required of an ordinary alert: a healthy monitor was never
\* told to anybody as ok, and one that became evaluable is never reported.
KindFiredFromOk(from, to, everOk, page, due) ==
    CASE from = to -> IF to = "firing" /\ due THEN "renotify" ELSE "silent"
      [] from \in {"never", "ok"} /\ to = "firing" -> "fired"
      [] from = "firing" /\ to = "ok" -> "resolved"
      [] from # to /\ to = "unknown" /\ (from = "firing" \/ (everOk /\ page)) -> "stale"
      [] OTHER -> "silent"

\* What one sink, last told `from`, is sent about a monitor now in `to`.
KindOf(from, to, everOk, page, due) ==
    CASE from = to -> IF to = "firing" /\ due THEN "renotify" ELSE "silent"
      [] from # to /\ to = "firing" -> "fired"
      [] from = "firing" /\ to = "ok" -> "resolved"
      [] from # to /\ to = "unknown" /\ (from = "firing" \/ (everOk /\ page)) -> "stale"
      [] OTHER -> "silent"
=============================================================================
