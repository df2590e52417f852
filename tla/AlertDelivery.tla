---------------------------- MODULE AlertDelivery ----------------------------
(***************************************************************************)
(* packages/dashboard/lib/alert-delivery.ts with its tables of             *)
(* sql/alerts.sql: dashboards evaluate monitors, remember what each sink   *)
(* was told, and POST the changes.                                         *)
(*                                                                         *)
(* A "call" is one invocation of deliverOnce: the timer's tick or a forced *)
(* one from POST /api/alerts.  Every await of runDelivery ends an action,  *)
(* so calls of different dashboards interleave there; calls of one         *)
(* dashboard are serialised by deliveryChain.  Time is abstracted: the     *)
(* lease expires at any moment after it was claimed, and a re-notify       *)
(* interval may or may not have elapsed when a plan is made.               *)
(***************************************************************************)
EXTENDS AlertRules, Naturals, FiniteSets

CONSTANTS
    Alerts,      \* monitor ids
    Page,        \* those of severity "page"
    NumSinks,    \* configured webhooks, in the order of the URL list
    Calls,       \* invocations of deliverOnce
    ProcOf,      \* the dashboard process each call runs in
    Forced,      \* the calls that come from POST /api/alerts
    Renotify,    \* EVESTACK_ALERT_RENOTIFY_MINUTES is set
    MaxFaults    \* bound: answers lost, and ticks cut short by a crash or a
                 \* database error, in one behaviour

ASSUME AlertAssumption ==
    /\ Page \subseteq Alerts
    /\ NumSinks \in Nat \ {0}
    /\ Forced \subseteq Calls
    /\ Renotify \in BOOLEAN
    /\ MaxFaults \in Nat

Sinks == 1 .. NumSinks

VARIABLES
    live,        \* what evaluateAlerts would answer now
    state,       \* alert_state.state: what was last seen
    everOk,      \* alert_state.ever_ok
    notified,    \* alert_state.notified_sinks: what each sink acknowledged
    delivered,   \* alert_state.notified_state: what every sink agreed on
    error,       \* alert_state.delivery_error IS NOT NULL
    leaseFree,   \* alert_lease.claimed_at is older than 0.9 intervals
    pc,          \* where each call of runDelivery is
    snap,        \* the call's `live`
    prior,       \* the call's `remembered`: what it read of notified_sinks, ever_ok
    plan,        \* the call's perSink plans: the kind of notice each sink gets, if any
    todo,        \* sinks the current loop of the call has still to serve
    accepted,    \* sinks that answered 2xx to this call: `acknowledged`
    told,        \* the last state each sink was told (outside the program)
    ever,        \* every state each sink was ever told
    twice,       \* <<sink, monitor>> told the same state again as if it were news
    faults       \* how many faults happened so far

row == <<state, everOk, notified, delivered, error>>
local == <<pc, snap, prior, plan, todo, accepted>>
inbox == <<told, ever, twice>>
vars == <<live, state, everOk, notified, delivered, error, leaseFree,
          pc, snap, prior, plan, todo, accepted, told, ever, twice, faults>>

-----------------------------------------------------------------------------
NoPlan == [s \in Sinks |-> [a \in Alerts |-> "silent"]]
Nobody == [s \in Sinks |-> [a \in Alerts |-> "never"]]
Unseen == [a \in Alerts |-> "never"]
Unread == [sinks |-> Nobody, ok |-> {}]

Init ==
    /\ live \in [Alerts -> AlertState]
    /\ state = Unseen
    /\ everOk = {}
    /\ notified = Nobody
    /\ delivered = Unseen
    /\ error = {}
    /\ leaseFree = TRUE
    /\ pc = [c \in Calls |-> "idle"]
    /\ snap = [c \in Calls |-> Unseen]
    /\ prior = [c \in Calls |-> Unread]
    /\ plan = [c \in Calls |-> NoPlan]
    /\ todo = [c \in Calls |-> {}]
    /\ accepted = [c \in Calls |-> {}]
    /\ told = Nobody
    /\ ever = [s \in Sinks |-> [a \in Alerts |-> {}]]
    /\ twice = {}
    /\ faults = 0

-----------------------------------------------------------------------------
(* The world outside: monitors change and time passes.                     *)

\* What evaluateAlerts answers of a: its queries may find anything at any moment.
Monitor(a, s) ==
    /\ live[a] # s
    /\ live' = [live EXCEPT ![a] = s]
    /\ UNCHANGED <<row, leaseFree, local, inbox, faults>>

LeaseExpires ==
    /\ ~leaseFree
    /\ leaseFree' = TRUE
    /\ UNCHANGED <<live, row, local, inbox, faults>>

-----------------------------------------------------------------------------
(* runDelivery, one action per await.                                      *)

\* No chain: a tick starts while another call of the process is mid-send.
NoChain(c) == pc[c] = "idle"

\* deliveryChain: a call runs only when no other call of its process does.
Chain(c) == \A d \in Calls : ProcOf[d] = ProcOf[c] => pc[d] = "idle"

\* claimLease, skipped by a forced call.  A refused claim ends the call there
\* with nothing changed.  The lease is never released: it only expires.
ClaimLease(c) ==
    IF c \in Forced THEN UNCHANGED leaseFree ELSE leaseFree /\ leaseFree' = FALSE

Start(c) ==
    /\ Chain(c)
    /\ ClaimLease(c)
    /\ pc' = [pc EXCEPT ![c] = "evaluate"]
    /\ UNCHANGED <<live, row, snap, prior, plan, todo, accepted, inbox, faults>>

Evaluate(c) ==
    /\ pc[c] = "evaluate"
    /\ snap' = [snap EXCEPT ![c] = live]
    /\ pc' = [pc EXCEPT ![c] = "read"]
    /\ UNCHANGED <<live, row, leaseFree, prior, plan, todo, accepted, inbox, faults>>

ReadRemembered(c) ==
    /\ pc[c] = "read"
    /\ prior' = [prior EXCEPT ![c] = [sinks |-> notified, ok |-> everOk]]
    /\ pc' = [pc EXCEPT ![c] = "observe"]
    /\ UNCHANGED <<live, row, leaseFree, snap, plan, todo, accepted, inbox, faults>>

\* planNotifications over the view of one sink.
PlanNotifications(c, s, due) ==
    [a \in Alerts |->
        KindOf(prior[c].sinks[s][a], snap[c][a], a \in prior[c].ok, a \in Page,
               <<s, a>> \in due)]

\* ever_ok = state = 'ok' instead of a latch: a healthy past is forgotten.
Unlatched(c) == {a \in Alerts : snap[c][a] = "ok"}

Latched(c) == everOk \cup {a \in Alerts : snap[c][a] = "ok"}

\* writeObservations; the plans follow it without a further await.
WriteObservations(c) ==
    /\ pc[c] = "observe"
    /\ state' = snap[c]
    /\ everOk' = Latched(c)
    /\ \E due \in IF Renotify THEN SUBSET (Sinks \X Alerts) ELSE {{}} :
         plan' = [plan EXCEPT ![c] = [s \in Sinks |-> PlanNotifications(c, s, due)]]
    /\ prior' = [prior EXCEPT ![c] = Unread]
    /\ pc' = [pc EXCEPT ![c] = "settle"]
    /\ UNCHANGED <<live, notified, delivered, error, leaseFree, snap, todo, accepted,
                   inbox, faults>>

About(c, s) == {a \in Alerts : plan[c][s][a] # "silent"}
Pending(c) == UNION {About(c, s) : s \in Sinks}
Addressed(c) == {s \in Sinks : About(c, s) # {}}

\* The call returns: nothing of it outlives the tick.
Return(c) ==
    /\ pc' = [pc EXCEPT ![c] = "idle"]
    /\ snap' = [snap EXCEPT ![c] = Unseen]
    /\ prior' = [prior EXCEPT ![c] = Unread]
    /\ plan' = [plan EXCEPT ![c] = NoPlan]
    /\ todo' = [todo EXCEPT ![c] = {}]
    /\ accepted' = [accepted EXCEPT ![c] = {}]

\* Markers cleared only at the end of a tick that sent something.
SettledAfterSend(c) == IF Addressed(c) = {} THEN {} ELSE Alerts \ Pending(c)

Settled(c) == Alerts \ Pending(c)

\* The markers of monitors nothing is pending for are cleared, and a tick with
\* no plan at all ends here.
Settle(c) ==
    /\ pc[c] = "settle"
    /\ error' = error \ Settled(c)
    /\ IF Addressed(c) = {}
         THEN Return(c)
         ELSE /\ pc' = [pc EXCEPT ![c] = "post"]
              /\ todo' = [todo EXCEPT ![c] = Addressed(c)]
              /\ UNCHANGED <<snap, prior, plan, accepted>>
    /\ UNCHANGED <<live, state, everOk, notified, delivered, leaseFree, inbox, faults>>

\* The sinks are served in the order of the URL list.
First(s, S) == s \in S /\ \A t \in S : s <= t

\* The sink took the message: what the reader of its channel now knows.
Hear(c, s) ==
    /\ told' = [told EXCEPT ![s] =
                  [a \in Alerts |-> IF a \in About(c, s) THEN snap[c][a] ELSE @[a]]]
    /\ ever' = [ever EXCEPT ![s] =
                  [a \in Alerts |-> IF a \in About(c, s) THEN @[a] \cup {snap[c][a]} ELSE @[a]]]
    /\ twice' = twice \cup
         {<<s, a>> : a \in {b \in About(c, s) : /\ told[s][b] = snap[c][b]
                                                /\ plan[c][s][b] # "renotify"}}

\* The whole batch thrown away at the first sink that refuses.
StopAtRefusal(c, s, ok) == IF ok THEN accepted[c] \cup {s} ELSE {}

\* A refusal recorded as an acknowledgement: the transition is consumed unsent.
AcceptAnyAnswer(c, s, ok) == accepted[c] \cup {s}

\* acknowledged gains the sink only on a 2xx.
Accept(c, s, ok) == IF ok THEN accepted[c] \cup {s} ELSE accepted[c]

\* After the last sink: the acknowledgements if any sink accepted, otherwise
\* straight to markFailed.
AfterPost(c, s, ok) ==
    LET rest == todo[c] \ {s}
        acks == Accept(c, s, ok)
    IN  /\ accepted' = [accepted EXCEPT ![c] = acks]
        /\ IF rest # {}
             THEN /\ todo' = [todo EXCEPT ![c] = rest]
                  /\ UNCHANGED pc
             ELSE /\ todo' = [todo EXCEPT ![c] = acks]
                  /\ pc' = [pc EXCEPT ![c] = IF acks # {} THEN "ack" ELSE "mark"]
        /\ UNCHANGED <<snap, prior, plan>>

\* post, with the row of recordDelivery behind it: answered 2xx, ...
PostAccepted(c, s) ==
    /\ pc[c] = "post"
    /\ First(s, todo[c])
    /\ Hear(c, s)
    /\ AfterPost(c, s, TRUE)
    /\ UNCHANGED <<live, row, leaseFree, faults>>

\* ... refused (an error status, or the connection failed), ...
PostRefused(c, s) ==
    /\ pc[c] = "post"
    /\ First(s, todo[c])
    /\ AfterPost(c, s, FALSE)
    /\ UNCHANGED <<live, row, leaseFree, inbox, faults>>

\* ... or taken by the sink while the answer missed POST_TIMEOUT_MS.
PostUnanswered(c, s) ==
    /\ pc[c] = "post"
    /\ First(s, todo[c])
    /\ faults < MaxFaults
    /\ faults' = faults + 1
    /\ Hear(c, s)
    /\ AfterPost(c, s, FALSE)
    /\ UNCHANGED <<live, row, leaseFree>>

\* The record keeps the kind of the notice instead of the state announced.
AnnouncedKind(c, a) == IF snap[c][a] = "ok" THEN "resolved" ELSE "fired"

\* The state a call acknowledges is the one in the transition it planned.
Announced(c, a) == snap[c][a]

\* One sink's UPDATE of recordAcknowledgements: its own key, its own monitors.
Acknowledge(c, s) ==
    /\ pc[c] = "ack"
    /\ First(s, todo[c])
    /\ notified' = [notified EXCEPT ![s] =
                      [a \in Alerts |-> IF a \in About(c, s) THEN Announced(c, a) ELSE @[a]]]
    /\ error' = error \ About(c, s)
    /\ todo' = [todo EXCEPT ![c] = @ \ {s}]
    /\ pc' = [pc EXCEPT ![c] = IF todo[c] = {s} THEN "derive" ELSE @]
    /\ UNCHANGED <<live, state, everOk, delivered, leaseFree, snap, prior, plan, accepted,
                   inbox, faults>>

Refused(c) == UNION {About(c, s) : s \in Addressed(c) \ accepted[c]}

\* The summary taken from any sink's entry instead of from all of them.
AgreedByAny(a, v) == \E s \in Sinks : notified[s][a] = v

\* covered = $2 AND distinct_states = 1
Agreed(a, v) == \A s \in Sinks : notified[s][a] = v

\* The second statement of recordAcknowledgements, over every row of the table.
Derive(c) ==
    /\ pc[c] = "derive"
    /\ delivered' = [a \in Alerts |->
                       IF \E v \in AlertState : Agreed(a, v)
                         THEN CHOOSE v \in AlertState : Agreed(a, v)
                         ELSE delivered[a]]
    /\ IF Refused(c) # {}
         THEN pc' = [pc EXCEPT ![c] = "mark"] /\ UNCHANGED <<snap, prior, plan, todo, accepted>>
         ELSE Return(c)
    /\ UNCHANGED <<live, state, everOk, notified, error, leaseFree, inbox, faults>>

MarkFailed(c) ==
    /\ pc[c] = "mark"
    /\ error' = error \cup Refused(c)
    /\ Return(c)
    /\ UNCHANGED <<live, state, everOk, notified, delivered, leaseFree, inbox, faults>>

\* Any await can throw (every statement of a tick goes to Postgres), and the
\* process can die: the rest of the tick never happens and nothing is undone.
Abort(c) ==
    /\ pc[c] # "idle"
    /\ faults < MaxFaults
    /\ faults' = faults + 1
    /\ Return(c)
    /\ UNCHANGED <<live, row, leaseFree, inbox>>

Step(c) ==
    \/ Evaluate(c) \/ ReadRemembered(c) \/ WriteObservations(c) \/ Settle(c)
    \/ \E s \in Sinks : \/ PostAccepted(c, s) \/ PostRefused(c, s) \/ PostUnanswered(c, s)
                        \/ Acknowledge(c, s)
    \/ Derive(c) \/ MarkFailed(c)

Next ==
    \/ \E a \in Alerts, s \in AlertState : Monitor(a, s)
    \/ LeaseExpires
    \/ \E c \in Calls : Start(c) \/ Step(c) \/ Abort(c)

Spec == Init /\ [][Next]_vars

Tick == \E c \in Calls \ Forced : Start(c)

\* A call that runs proceeds (the event loop), the timer's calls are served by
\* the FIFO chain however many forced calls queue with them, time passes, and a
\* sink that is tried again and again does not refuse for ever.
Fairness ==
    /\ \A c \in Calls : WF_vars(Step(c))
    /\ \A s \in Sinks : SF_vars(\E c \in Calls : PostAccepted(c, s))
    /\ SF_vars(Tick)
    /\ WF_vars(LeaseExpires)

FairSpec == Spec /\ Fairness

-----------------------------------------------------------------------------
(* Properties.                                                             *)

Steps == {"idle", "evaluate", "read", "observe", "settle", "post", "ack", "derive", "mark"}

Record == [Sinks -> [Alerts -> Remembered]]

\* Every variable has its type.
TypeOK ==
    /\ live \in [Alerts -> AlertState]
    /\ state \in [Alerts -> Remembered]
    /\ everOk \in SUBSET Alerts
    /\ notified \in Record
    /\ delivered \in [Alerts -> Remembered]
    /\ error \in SUBSET Alerts
    /\ leaseFree \in BOOLEAN
    /\ pc \in [Calls -> Steps]
    /\ snap \in [Calls -> [Alerts -> Remembered]]
    /\ prior \in [Calls -> [sinks : Record, ok : SUBSET Alerts]]
    /\ plan \in [Calls -> [Sinks -> [Alerts -> TransitionKind \cup {"silent"}]]]
    /\ todo \in [Calls -> SUBSET Sinks]
    /\ accepted \in [Calls -> SUBSET Sinks]
    /\ told \in Record
    /\ ever \in [Sinks -> [Alerts -> SUBSET AlertState]]
    /\ twice \in SUBSET (Sinks \X Alerts)
    /\ faults \in Nat

\* Whatever notified_sinks says a sink acknowledged, that sink was sent: no
\* transition is consumed unsent, whichever calls overlap, fail or die
\* (sql/alerts.sql "Written only after a sink accepted the message").
AcknowledgedWasTold ==
    \A s \in Sinks, a \in Alerts :
        notified[s][a] # "never" => notified[s][a] \in ever[s][a]

\* The panel calls a state delivered only when every sink was told it.
PanelMeansEverySink ==
    \A a \in Alerts :
        delivered[a] # "never" => \A s \in Sinks : delivered[a] \in ever[s][a]

\* No reader is stood down before having been paged, whatever overlaps or fails.
NoAllClearUnpaged ==
    \A s \in Sinks, a \in Alerts : "ok" \in ever[s][a] => "firing" \in ever[s][a]

\* With one dashboard whose answers all arrive, what a sink's record says and
\* what the sink last heard differ only inside a call's send window.
RecordIsWhatWasHeard ==
    (\A c \in Calls : pc[c] \notin {"post", "ack"}) => notified = told

\* A healthy sink is told once (docs/alerts.mdx): the timer, forced calls and
\* another sink that keeps refusing never make it hear the same news twice.
ToldOnce == twice = {}

\* "could not be delivered and is being retried" on /monitors is never about a
\* monitor with nothing left to send, and never missing while news is pending.
Retried(due) ==
    {a \in Alerts : \E s \in Sinks :
        KindOf(notified[s][a], state[a], a \in everOk, a \in Page, due) # "silent"}

ErrorMeansRetry ==
    (\A c \in Calls : pc[c] \in {"idle", "evaluate", "read", "observe"})
      => Retried(FALSE) \subseteq error /\ error \subseteq Retried(Renotify)

\* A monitor that fires for good is announced to every sink that does not
\* refuse for ever, and the sink is left believing it.
FiringIsHeard ==
    \A s \in Sinks, a \in Alerts :
        <>[](live[a] = "firing") => <>[](told[s][a] = "firing")

\* A paging monitor that was seen healthy and stops being answerable for good is
\* reported, however often the first attempts are refused.
CoverageLossIsHeard ==
    \A s \in Sinks, a \in Page :
        (<>(state[a] = "ok") /\ <>[](live[a] = "unknown")) => <>[](told[s][a] = "unknown")

\* The channel every reader follows.
Channel == INSTANCE AlertChannel WITH told <- told
ImplementsChannel == Channel!Spec
=============================================================================
