--------------------------- MODULE MCAlertDelivery ---------------------------
(* Instances of AlertDelivery small enough for TLC. *)
EXTENDS AlertDelivery, TLC

CONSTANTS timer, curl, timer2, m1, m2, d1, d2

\* One dashboard: its timer's calls and an operator's POST /api/alerts.
OneDashboard == timer :> d1 @@ curl :> d1

\* Two dashboards behind a proxy, each with its timer.
TwoDashboards == timer :> d1 @@ timer2 :> d2
=============================================================================
