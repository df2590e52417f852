# A verification project for evestack

evestack is what surrounds a self-hosted eve agent: a dashboard that watches it
and pages people, packages that cap its spending and record its schedules, a
sandbox backend, a trace store, and command lines. Nearly all of it is
TypeScript over one Postgres database; eve itself (sessions, turns, steps,
hooks, the durable event stream) is a library whose behaviour is modelled only
from what this repository relies on.

These modules model the parts whose correctness depends on the order of things:
awaits that interleave, statements that fail, processes that die, answers that
are lost. Each run asks one question of one component; each theorem answers a
question for every size of instance.

## Inventory

| Component | State it keeps | Operations | What is hard | What makes it correct |
| --- | --- | --- | --- | --- |
| Alert delivery (`dashboard/lib/alert-delivery.ts`, `sql/alerts.sql`) | `alert_state`, `alert_lease`, the in-process `deliveryChain` | timer tick, forced call, claim, observe, plan per sink, post, acknowledge, mark failed | two dashboards, a lease that expires mid-send, refused and unanswered posts, a tick cut short | nobody is told twice, nothing is consumed unsent, no all-clear before its alarm, a firing monitor is heard |
| Monitor evaluation (`lib/alerts.ts`, `lib/monitors.ts`) | none | read-only SQL | three-valued answers | external input of alert delivery |
| Spend cap (`evestack-budget/src`) | `budget_steps`, `budget_usage`, `budget_stops`, two process sets | `step.completed`, `step.started` guard, `turn.cancelled`/`failed`, cancel request | sessions of one principal interleave, retried steps, midnight, swallowed failures | money counted once, a stop is earned and stays, at most one step over |
| Schedule runner (`evestack-schedules/src`) | `schedule_runs`, `schedule_state`, `caughtUp` | fire, pause check, catch-up, claim, run, finish | racing workers, replay against live fire, crashes, a store that fails | a tick runs at most once, its row tells what happened, bookkeeping stops nothing |
| Cron expressions (`cron.ts`, `app/schedules/next-fire.ts`) | none | parse, match, next fire, missed fires | month ends, day-of-week or day-of-month, limits | agrees with a reference definition, bounded and complete |
| Session control (`control/sessions/*`, `lib/agent-client.ts`, `lib/approvals.ts`) | `approvals`; the rest is folded from eve's stream | snapshot, approve, message, cancel, fork | snapshot stale when used, rotating tokens, two approvers, crash before the audit row | a decision is applied once, the audit never claims one that was not, a fork never sends a turn twice |
| Sandbox backend (`sandbox-opensandbox/src`) | sandbox ids in eve's metadata, `killIntents` | create ladder, pause, spawn, kill, abort | kill against end of stream, transient failure of the ladder | a workspace is not abandoned, `wait()` resolves once and says what ended it |
| Trace ingest (`lib/traces.ts`, `sql/traces.sql`) | `spans`, resolved ids, retention flag | insert a batch, resolve after commit, prune | overlapping batches of one trace | a trace complete on disk ends up resolved |
| Facts (`lib/facts.ts`, `sql/facts.sql`) | `fact_*`, two watermarks | refresh | rows that commit behind the watermark, deletes | refresh converges to a rebuild |
| Metrics, queries, fleet, sandboxes, schedule pages | none | read-only SQL | | |
| Memory (`lib/memories.ts`, template `lib/memory.ts`) | `memories`, `memory_deletions` | remember, recall, delete then audit | audit row lost after the delete | |
| Dashboard access (`lib/auth.ts`, `proxy.ts`) | none | one request at a time | | |
| CLI, MCP server, Composio, installer, website | files, stdio | one-shot commands | | |

How they meet: the hook, the guard and the dashboard's budget route share the
budget tables; the runner and the schedules page share the schedule tables;
alert delivery reads everything through the monitors and writes its own three
tables; session control talks to eve over HTTP and writes `approvals` only.
Trace ingest writes what the facts read, so one module holds both. A sandbox and
the process spawned in it share their end, so `Sandbox` instantiates
`SpawnedProcess`. The runner's walk over the calendar makes the history that the
page reads a zone from, so `ScheduleHistory` stands on both. The other components
share no table and no process, and their modules stand side by side.

## Plan

1. Alert delivery, spend cap, schedule runner: modelled, checked and proved about.
2. Session control with the abstract log of decisions it implements; the sandbox
   backend; trace ingest with the facts; cron expressions, the runner's walk and
   the page's projection: modelled and checked; session control and the sandbox
   proved about.
3. Proofs of the safety invariants and action properties the runs check: written
   for all of them, the refinements of `AlertChannel` and `DecisionLog` included.
4. Candidates after that: deletion and audit of memories, `truncate.ts` of the MCP
   server.

## Modules

| Module | Stands for |
| --- | --- |
| `AlertRules` | `planNotifications`: which kind of notice a change of state makes |
| `AlertDelivery` | `runDelivery`, the lease, the chain, the tables |
| `AlertChannel` | abstract: the sequence of states one sink is told about a monitor |
| `MCAlertDelivery` | instances: one dashboard with a timer and a forced call; two dashboards |
| `AlertDeliveryProofs` | its theorems under all faults |
| `AlertChannelProofs` | its theorems for one dashboard until the first fault, and that it implements `AlertChannel` |
| `Budget` | the hook, the guard, the two tables of totals and stops, eve's turn |
| `MCBudget`, `BudgetProofs` | instances and theorems |
| `Schedules` | `tracked()` around one schedule and its rows |
| `MCSchedules`, `SchedulesProofs` | instances and theorems |
| `DecisionLog` | abstract: a parked request is decided at most once, and the log never claims a decision that did not take effect |
| `Sessions` | one eve session behind the routes of `control/sessions`: snapshot, approve, message, fork, the approval rows; implements `DecisionLog` |
| `SpawnedProcess` | `session.spawn()`: a process, the stream of its output, `kill()`, `wait()`, the abort signal |
| `Sandbox` | `create()`, `captureState` and `shutdown` over the turns of a session, with one `SpawnedProcess` |
| `Telemetry` | `insertSpans` and `refresh_facts` over one database |
| `CronFields` | `parseField`, `parseCron` and matching, on a calendar of any size |
| `CronWalk` | zones whose clock changes, and the runner's `nextFire` and `missedFires` |
| `NextFire` | the page's `projectNextFire`: which zones explain a history, and when the schedule fires there |
| `ScheduleHistory` | an agent that fires, stops, catches up and records, and the reference reading of cron the two walks are held against |
| `SessionsProofs`, `SandboxProofs`, `TelemetryProofs` | theorems about `Sessions`, about `Sandbox` with its process, and about the ids and the facts of `Telemetry` |
| `ScheduleHistoryProofs` | theorems about the cron modules: the parser against the grammar, the two walks of the runner and the page's |
| `MCSessions`, `MCSandbox`, `MCTelemetry`, `MCScheduleHistory` | their instances |

Some modules define, next to an operator, a variant of it that no action uses
(`NoChain` beside `Chain`, `KeptFlag` beside `Freed`): each is the plausible bug
its property was measured against, and substituting it breaks that property.

### One rule for all: an action per await

JavaScript runs to the next `await` without interruption, and each awaited
statement is one atomic SQL statement. So an action is one awaited call together
with the synchronous code behind its answer, and everything else in the system
may happen between two actions. What this leaves out is a delay between the
moment a statement takes effect and the moment the code behind it runs; where
that matters (a post the sink took and whose answer never came, a claim whose
INSERT committed and whose answer failed) the model has an action of its own.
A statement that fails either changed nothing or, where the code must tell the
difference, may have taken effect.

### AlertDelivery

A *call* is one invocation of `deliverOnce`. Its program counter walks the
awaits of `runDelivery`: `evaluate` (evaluateAlerts), `read` (readRemembered),
`observe` (writeObservations and the plans), `settle` (stale failure markers),
`post` (one sink after the other), `ack` (one UPDATE per sink), `derive`
(`notified_state`), `mark` (markFailed). `snap`, `prior`, `plan` and `accepted`
are the call's locals `live`, `remembered`, `perSink` and `acknowledged`;
`state`, `everOk`, `notified`, `delivered`, `error` are the columns of
`alert_state`. `Chain` is `deliveryChain`; `ClaimLease` is `claimLease`, which a
forced call skips. `told`, `ever` and `twice` are outside the program: what the
reader behind a sink has been sent.

Time is abstracted: the lease may expire at any moment after a claim (it is
never released, and its length is independent of how long the posts take), and
a re-notify interval may or may not have elapsed when a plan is made. `Abort` is
a throw out of any statement, or the death of the process.

### Budget

A session's turn is eve's: `parked`, `ready` (a step about to start), `model`,
`emit` (the hook is awaited), `next`, `failed`. The handler's counter `pc` walks
`record` (recordStep), `clear` (clearStop), `stop` (recordStop and the test of
`stopped`), `act` (throw, or cancelTurn). `spent` and `daySpent` are
`budget_usage` of the two scopes, `stops` and `dayStops` are `budget_stops`,
`ledger` is `budget_steps`. `known` and `stopped` are the two process sets.
`Message`, `NextStep`, `TurnCompleted`, the awaited hook and the repetition of a
step after a crash are eve's, from the comments in `hook.ts` and the events it
subscribes to.

`refused` is the guard's answer for the step in progress. `blocked` remembers
which scope's row the last stop of a session wrote, until something the package
names lifts it (a redeployment with other caps, a new day or another caller for
the daily scope); `asked` remembers the turn the hook last set out to stop;
`overrun` counts the steps of a turn that ran with a cap already blown, the ones
whose `recordStep` failed included. `stopSays` and `daySays` are the configuration the
writer of a stop row ran with, which its `reason` and `limit` columns show. No
action reads any of the five. `StopIsEarned` holds each row against the
configuration it was written under, and no other.

### Schedules

One schedule, because a name shares nothing with another. A call is one firing;
its counter walks `pause` (isPaused), `skip`, `anchor` (lastFireAt and the list
of missed fires), `claim` (claimRun), `handle` (the user's handler), `finish`
(finishRun). `queue` is what a replay has still to go through, `live` the calls
that are at the final `runOnce(..., false)`. Minutes pass at any moment, so a
handler may outlast several fires, and `CurrentTick` is read where the code
reads it. The cron expression is the set of minutes it matches.

### Sessions

eve's half is external: `phase`, `turn`, `asked`, `born`, `results` and `taken`
are what it does, as far as the dashboard's code relies on it; it publishes one
event at a time and, after taking a follow-up, may repeat the requests that were
not answered. `board` is the snapshot, folded by one operator per event type
(`OnTurnStarted`, `OnInputRequested`, ...); it is always up to date here, since a
route folds the stream to its end before it acts, and what is stale is what a
route carries over its awaits: `call` holds the token and the target of an
approve or a message between its awaits, `fork` a replay between polls. A token
is the number of the turn whose park published it. `rows` is the approval log; a
row is `stray` when eve had lost the session and started another under the id.
`Health` is `lib/fleet.ts`'s banner.

### Sandbox and SpawnedProcess

`step` is where `create()` or the turn is: `connect`, `resume`, `refuse`,
`create`, `dirs`, `live`, `kill` (the fallback of `shutdown`). `meta` is what eve
persisted from `captureState`; `policy` the program's, `box[n].egress` what a
sandbox was made under. `written` and `lost` are history: which turns wrote into
the workspace, and per cause what became of it. Two causes lie outside the
backend: the server reaped the sandbox (`reaped`), or the agent died before eve
had persisted its id (`unsaved`). Two are the backend's own: it made a new sandbox
although the persisted one lives, because a request to reach it failed
(`abandoned`), or `shutdown` killed what it could not pause (`killed`).
`WorkspaceIsKept` keeps the four apart, turn by turn, and says that the backend's
own two need a failed request.

In `SpawnedProcess`, `intents` is `killIntents`, `script` is how far each request
to kill the process tree got inside the sandbox, `wait` the promise. The end of
the process and the end of its stream are two steps, a stream may end without a
code while the process lives (`cut`: `wait()` answers 137), a request may fail
after it took effect, and `kill()` reads nothing of what its command did.
`WaitAndKillAgree` names what can then be untrue: 137 of a process that lives,
after a cut stream or under a `kill()` that has not found the process, and a
`kill()` that returns although its command came too early or never ran.

### Telemetry

A transaction of `insertSpans` is two actions: `Post` begins it, and `Commit`
makes its rows visible with what the trigger resolved from what had been
committed then. `resolve_span_ancestry` after the commit is two more, because an
UPDATE that waits for a row writes the value it computed before. It fills both
resolved columns: an alias gives way to the enclosing run, unless that run is the
session's (`TurnOf`). `clock` is `now()`, the time a transaction began: a row of
`workflow_runs` is stamped by `RunBegins` and visible with `RunMoves`, and a post
stamps its spans when it begins. `refresh` is a call of `refresh_facts`, whose
three statements (the watermarks, the touched turns, the rebuilt rows with the new
mark) each see what is committed when they begin.

Three variables are history. `missed` holds the turns whose last write left nothing
of theirs as new as a watermark that a refresh had already read, and that were not
rebuilt since; `overtaken` the rows a resolve wrote after a batch it had not seen
landed, and that no resolve looked at since; `fresh` says that the last refresh met
no write and none came after. `events` counts what the world begins: posts,
refreshes, and run rows that move.

### Cron

`CronFields`, `CronWalk` and `NextFire` have no state. A reading of the wall clock
is a number of minutes, a zone a sequence of segments with an offset each, and
`Date` is what JavaScript does with a reading that does not exist (forward by the
gap) or exists twice (the first). `ScheduleHistory` states what is owed from the
grammar alone (`AskedFor`, `Owed`) and never calls the code's matcher there. eve
fires at the readings asked for, once each, and at the instant a forward jump lands
on for those it erased (`cron.ts:28-33`), so `rows` holds both kinds of fire. A loop
of the code is a function of the number of turns it has taken (`NextWalk`,
`MissedWalk`, `Hops`), and its answer is that function at its limit: 366 days of
minutes, the minutes up to `until`, `MAX_TRANSITION_HOPS`.

## Runs

| Run | Instance | Question and answer |
| --- | --- | --- |
| `alerts_one_dashboard` | 1 paging monitor, 2 sinks, timer and forced call, re-notify on, no lost answers | With sinks that refuse as they like: each sink's record is what it was told, nobody is told the same news twice, a failure marker always means a retry, `delivered` means every sink, the reader's channel (`AlertChannel`) is implemented, and under fairness a firing or lost monitor is heard. Holds. |
| `alerts_replicas` | 1 monitor, 1 sink, 2 dashboards, 1 fault | Lease expiry mid-send, a lost answer or an aborted tick: nothing is recorded as told that was not sent, no all-clear without its alarm. Holds. |
| `alerts_lost_answer` | 1 monitor, 1 sink, 1 fault | Is a firing monitor always heard when one answer is lost? No: see below. |
| `budget_stops` | 2 sessions of one principal, 2 turns and 1 turn of 2 steps, 2 days, 4 configurations, 1 fault | Money is counted once, stops are earned, one step over at most, a session over its cap is refused, a raised cap heals, a turn in mode fail ends. Holds. |
| `budget_race` | 2 sessions of one principal, daily cap, no fault | Does the daily stop stay? No. |
| `budget_cancel` | mode cancel, 1 fault | Is an over-budget session stopped again? No. |
| `schedules_racing` | 2 workers, 4 minutes, limit 2, window 3, 1 crash, 1 failing statement, 1 turn of the switch | A tick runs once, skipped means not run, a row has one owner and a runner. Holds. |
| `schedules_backlog` | 1 worker, 5 minutes, limit 1, 1 crash | Are deferred fires picked up later? No. |
| `sessions_shared` | 1 session, 3 turns, 2 requests (a tool, a question), 2 approvers, 1 sender, 1 replay of up to 4 messages, 1 fault | An approver is told what happened, the snapshot shows what eve waits for, a replay sends the plan in order and once, counts what landed, waits for people and ends, and the log of decisions is implemented. Holds. |
| `sandbox_turns` | 3 turns, 2 sandboxes, 3 policies, 1 process with 2 `kill()` calls and a signal, 2 faults | What a turn wrote is handed on, or lost in one of the four ways the property names, no turn runs under another egress, `kill()` and `wait()` agree. Holds, with the exceptions the properties name. |
| `telemetry_ingest` | 1 trace, 4 spans, 3 batches, 2 turns and 1 session, 2 instants, 1 page, 5 events | The root with the session, the workflow span of a turn beside a flush with the session's run, and the model call with the alias, in any order and overlap: once all posts are answered every span names its turn and its session, but for rows an overtaken resolve wrote; and a refresh that met no write equals a rebuild, but for turns a write left behind the watermarks. Both exceptions happen in the run. |
| `schedules_zones` | 30 expressions, 5 zones, 26 minutes, 1 outage | The walk finds the fires owed across clock changes, and a pinned projection is the next fire, at the far edge of a repeated hour and from histories with landing fires too. Holds, with the exceptions the properties name, each of which happens in the run. |

Bounds. Monitors are independent rows whose plans never look at each other, so
one monitor shows every behaviour of a row; two sinks are needed, and enough,
for "one of several refuses". Two calls are the least that overlap, and two
sessions the least that race for a day; two turns of two steps give a step over
the cap, a step after it, and a message after a stop. Two days make one
midnight. Four minutes let a worker crash, miss two ticks, and race another for
the third. Crashes, failing statements and lost answers are each allowed once in
a behaviour, at every point of it: each hazard listed needs one. The theorems
have none of these bounds.

Sessions: two approvers are the least that answer one request, a tool and a
question the two kinds of answer, three turns the least in which a spent token
could be used again; a lookback of 3 against 4 messages makes a plan that no
longer starts at the first message. Sandbox: three turns make a change of policy
and its return, two sandboxes a replaced one, two faults a `connect` and a
`resume` that fail together or a kill that fails beside a stream that breaks; the
two `kill()` calls are interchangeable, hence the symmetry. A turn begins only
when no handle of an earlier process is left, and the process is spawned in the
first turn, after its state was captured. Telemetry: three batches of one trace are
the least in which one lands while the resolve of another waits for a row; five
events let all three arrive beside two of a second post of one, a run row that
moves, and refreshes; two instants tell "at" from "after" a watermark, and a stamp
from its commit. A resolve that takes a span from a turn whose fact was built needs
more events than that: the theorem covers it. Zones: hours of 3
minutes, days of 3 hours, weeks of 3 days, months of 2 days, years of 2 months; a
walk of 54 minutes is a scaled year and half of another, as 366 days are a
year and a day; of the zones two are fixed and three change and change back, one of
them by less than an hour.

`CHECK_DEADLOCK FALSE` stands in the Budget, Sessions, Sandbox, Telemetry and
zones configurations: turns, calls, batches and minutes run out there, which is
the bound's doing and not a wait. Alert delivery and schedules are checked for
deadlock.

### Fairness

`AlertDelivery` and `Sessions` have liveness properties. In `Sessions`, weak
fairness of the fork's own steps is the event loop and the timers of its route:
a poll returns and a deadline passes. eve, the approvers and everybody else may
stop for ever, and `ReplayEnds` holds all the same.

In `AlertDelivery`, weak fairness of each call's steps
is the event loop: a call under way is resumed when its statement or post
answers. Strong fairness of `Tick` is `setInterval` behind a FIFO promise chain:
the timer's call is queued and served however many forced calls queue with it.
Strong fairness of an accepted post per sink says that a sink tried over and
over does not refuse for ever; without it no alert could be promised. The lease
expires by the passing of time. Nothing is assumed of monitors, refusals in
between, or forced calls.

### Disagreements between what is said and what is done

* **A lost answer can silence a firing monitor** (`alerts_lost_answer`). The
  docs say delivery is at-least-once and a sink that is down misses nothing. A
  sink that took the all-clear without the dashboard learning of it keeps the
  entry `firing`; if the monitor fires again before the next tick, the new
  observation equals the entry and nothing is ever sent.
* **A daily stop can be deleted by another session** (`budget_race`).
  `clearStop` runs after its totals were read and also deletes the principal's
  day row, so a session that was just under the cap removes the stop a
  concurrent one has written because the cap was reached.
* **A cancel that did not cancel is the last one** (`budget_cancel`). The flag
  that keeps a second cancel from firing is freed by `turn.cancelled` and
  `turn.failed`; a turn that completes in spite of the request frees nothing.
* **Deferred fires are not drained** (`schedules_backlog`). A replay over the
  limit promises that the next tick resumes from the last one replayed; the
  live fire that follows the replay is newer than all deferred ones, and
  catch-up runs once per process.

Others were met while modelling and have no run of their own; the properties name
them as exceptions or the model leaves them reachable.

* The first step of `nextFire` and `missedFires` is a plain `setMinutes`
  (`cron.ts:322`, `:352`): a start from the last minute before a gap loses the
  fire the gap swallowed, which `:272` and the head of the file promise to find. A
  start from the second pass of a repeated hour goes back to the first and can
  return a fire before it, against "strictly after" (`:311`).
* `next-fire.ts:497` says that a reading past the far edge of a repeated interval
  must not be stepped over; `:517` resumes strictly after `repeatEnd` when a
  spent reading came first, and so steps over one that lies exactly on the edge.
  The pin is then the fire after it: `BehindASpentReading`, which excuses an edge
  only where a reading of that hour was asked for and came again. Elsewhere the
  fire on the edge is the pin. From inside the second pass the page also offers a
  repeat that is still to come (`ComesAgain`).
* A fire recorded at the landing of a gap stands for a reading that was erased, and
  need not match its own. `zonesExplaining` (`next-fire.ts:558`) then rules the true
  zone out, if another candidate reads that instant and all newer fires as ones asked
  for (`Misleads`); if none does, the record and the older ones are left aside and the
  pin is right.
* A span or a run row can end up behind a watermark without its turn being rebuilt:
  a post or a run's transaction that was stamped before a refresh read its
  watermarks and commits after; a resolve that brings a span to a turn after a
  refresh has passed the parent it got it from; a resolve that takes a span from a
  turn, which has then neither a run that moved nor a span that landed. `facts.sql`
  argues that reading the watermarks first excludes the first (`:418-422`), and that
  the parent's own `received_at` covers the second (`:430-435`). The turn's next
  write repairs it. `FactsEqualARebuild` sets such turns apart (`missed`), one by
  one, and only from that write to their next rebuild.
* Three batches of one trace: a resolve that began before the third commit can
  wait for a row and overwrite what the third writer's resolve put there, against
  `traces.ts:701` ("the last writer to commit is the one whose resolve sees the
  finished trace"). `ResolvedWhenQuiet` sets the rows it wrote apart (`overtaken`).
* "An enclosing run that IS the session is not a turn" (`traces.sql:396`), which is
  to keep a session's plumbing from hanging off "one phantom turn". The walk
  compares with the session id it inherits. A span that declares an alias and no
  session of its own finds none until the ancestor that does has arrived, and names
  the session's run as its turn for that long. `ResolvedWhenQuiet` says that it is
  over when all posts are answered.
* "Only a genuinely gone sandbox falls all the way through" (`index.ts:879` of the
  sandbox): a paused one does when the one `resume` fails, a running one when both
  requests fail. The turn is handed an empty workspace and `captureState` makes the
  new sandbox the session's (`abandoned` in `WorkspaceIsKept`). A `pause()` that
  took effect and whose answer was lost is followed by `kill()` (`:961`), against
  `:959` ("pause(), not kill()"; `killed` there).
* A `kill()` that runs before the wrapper wrote its pid file succeeds, and `wait()`
  answers 137 for a process that lives (`translate.ts:145`; the package's
  README.md:77 says a kill stops it). So does one whose command could not run:
  `killTree` (`index.ts:487`) drops the result of its command, although `:587` lets
  a failure propagate because "reporting a successful kill there is the bug this
  method already had". And a stream that simply ends reads as 137, "terminated out
  from under us" (`translate.ts:116`), whatever the process does.
* The approve route logs that "the approval audit row could not be written" and
  answers `audited: false` (`approve/route.ts:197`) also when the INSERT committed
  and only its answer was lost: `ApproverIsToldTheTruth` promises a row to who is
  told `audited`, and no absence of one to who is not.
* The approve route does not compare the session id in eve's answer with the one
  it asked about (`approve/route.ts:148`, while `:155` and `docs/dashboard.mdx:172`
  say the log never claims a decision that did not take effect): the rows of a
  session eve has lost are marked `stray` and left out of `ImplementsDecisionLog`.
* A failing read of the snapshot while a replay waits throws out of the fork
  route (`fork/route.ts:430`), and the id of the session it made is never
  reported, which `:461` says it must be.

Double pages across two slow dashboards are documented in `docs/alerts.mdx`
("the exception is named") and so are not a property of `alerts_replicas`. A
paging monitor that is lost, recovers, and is lost again is announced once: the
recovery out of `unknown` is silent by the rule table, so the reader still holds
`unknown` and `CoverageLossIsHeard` asks for no more.

## Proofs

All proofs are from the assumption named in each module (`AlertAssumption`,
`BudgetAssumption`, `ScheduleAssumption`, `SessionAssumption`,
`SandboxAssumption`: the types of the constants; `TelemetryAssumption`: those, and
that no span is its own ancestor; `CalendarAssumption`, `WalkAssumption`,
`ZonesAssumption`, `HistoryAssumption`: those, that `*` is not a number, and what a
zone is), and, where a theorem says so, from hypotheses of its own; any number of monitors,
sinks, dashboards, calls, sessions, principals, workers, minutes, requests,
approvers, turns, sandboxes, `kill()` calls and faults. Each module proves an
inductive invariant, `IInv` as a rule, one lemma per action, and reads its theorems off
it.

* `AlertDeliveryProofs`: `TypeCorrect`, `NothingConsumedUnsent`
  (`AcknowledgedWasTold`), `PanelIsHonest` (`PanelMeansEverySink`),
  `NobodyStoodDownUnpaged` (`NoAllClearUnpaged`). The invariant says what a call
  carries: what it read of a sink's record was told to that sink, a plan's
  all-clear follows an entry `firing`, what it accepted was heard. The last one
  is why the all-clear is safe across overlapping calls: the entry a plan was
  made from was once told, however stale it is by the time of the post.
* `AlertChannelProofs`: `RecordsAreWhatWasHeard` (`RecordIsWhatWasHeard`),
  `NewsIsToldOnce` (`ToldOnce`), `MarkersMeanRetry` (`ErrorMeansRetry`),
  `DeliveryImplementsChannel` (`ImplementsChannel`, a refinement). They assume
  `OneDashboard`, every call in one process, and hold until the first fault,
  `NoFault`; both are the setting of `alerts_one_dashboard`, and neither can go:
  two dashboards page twice (`docs/alerts.mdx` says so), and one lost answer or
  one tick cut short between its posts and its UPDATE leaves a record that differs
  from what was heard. Refusals are no fault. The invariant (`Answered`) follows
  the one call the chain lets in: before its plan, records and readers agree;
  after it, a sink has heard exactly what the call noted as accepted, and the
  records hold what the sinks that were acknowledged so far have heard.
* `BudgetProofs`: `TypeCorrect`, `EveryStopWasEarned` (`StopIsEarned`),
  `OverItsCapStaysRefused` (`SessionStaysRefused`), `OverBudgetTurnEnds`
  (`FailedAgain`), `AtMostOneStepOver` (`OneStepOver`),
  `RaisedCapGivesTheToolsBack` (`RaisedCapHeals`). The invariant: a session in its
  handler is awaited by eve, so its caller and day stand still; a verdict on its
  way to the table is still true, because totals only grow and caps change only
  with the process; a session with its own stop is over its own cap, so its
  handler cannot be on the way to a clear; in mode fail a flag is set only on the
  way to `turn.failed`. The same argument fails for the daily scope, whose total
  belongs to several handlers at once: that is `budget_race`. A step over the cap
  is on its way to `turn.failed` unless a restart or a failed statement paid for
  it, which bounds `overrun`; and a session this process knows has no stop of its
  own, so the clear that is skipped would delete nothing.
  For `MoneyIsCountedOnce` (`NeverBilledTwice`), the totals are sums over sets of
  ledger rows; that such a sum gains exactly the cost of a row that is added is
  proved first, by induction over the subsets of a finite set (a minimal
  counterexample of the library's well-founded order on them).
* `SchedulesProofs`: `TypeCorrect`, `TickRunsOnce` (`AtMostOncePerTick`),
  `SkippedWasNotRun` (`SkippedNeverRan`), `RowHasOneOwner` (`OneOwner`),
  `OpenRowIsAttended` (`RunningHasARunner`), `StoreFailureStopsNothing`
  (`StoreNeverStops`, an action property). The invariant: a call that holds a row
  is at work on it and the row is open; a tick without a row was run by failed
  claims alone; until a worker dies or a statement fails, an open row is held by
  a call whose `tick` it is (`Attended`).
* `SessionsProofs`: `TypeCorrect`, `RoutesImplementLog` (`ImplementsDecisionLog`,
  a refinement), `ApproverTold` (`ApproverIsToldTheTruth`), `BoardHonest`
  (`BoardIsHonest`), `ReplayYields` (`ReplayWaitsForPeople`), `ReportHonest`
  (`ForkReportIsHonest`), `OthersCutShort` (`OnlyOthersCutItShort`). The invariant
  ties a call to the park it read: a token names the turn whose park published it,
  so an answer that eve takes comes from a snapshot of that very park
  (`Answering`), and the turn the row will name is the turn eve decided in
  (`Auditing`); the same argument covers the token a replay sends with. eve's side
  is `Asking`: a request that was decided is never asked again. Each step then
  maps to a step of the log or to none (`StepIsLogged`). What a replay has sent is
  always a beginning of its plan, one ahead of its count only while a send is
  unanswered (`Script`); and while nobody else has used the session, the park
  whose token the replay holds is the park eve is in (`Unused`), so a refusal has
  somebody else behind it.
* `SandboxProofs`: `TypeCorrect`, `WorkspaceKept` (`WorkspaceIsKept`),
  `EgressAsAsked` (`EgressIsAsAsked`), `KillAndWaitAgree` (`WaitAndKillAgree`).
  For the first the invariant (`Holding`) follows the files: what was written is in
  the turn's sandbox, before that in the persisted one, or lost under a cause; and
  it says when the ladder lets go of a sandbox that lives (`LadderTells`: a call of
  this turn has failed). For the second, the persisted key is the policy its sandbox
  was made under (`KeysTell`). For the last,
  `killIntents` counts the calls under way (`IntentsCount`), which is why a stream
  that breaks under an intent settles `wait()` as killed, and why withdrawing one
  intent cannot hide another. The constants' one extra assumption is that the
  `kill()` calls are finitely many.
* `TelemetryProofs`: `FactsFollowTheSpans` (`FactsEqualARebuild`). A turn whose
  fact a rebuild would change (`Owed`) is always in sight (`InSight`): the stored
  watermark still looks at it, and so does every refresh under way (`SightOf`), with
  the watermark it read, the turns it has collected, or the watermark it is about to
  store. That survives a write because a turn it changes has something as new as
  each of these watermarks, or is `missed`; and it survives two pages that refresh
  at once because an older watermark only looks at more. Nothing is assumed of what
  a resolve computes, nor of when a transaction commits.

  The ids themselves: `TypeCorrect` (`TypeOK`), `LastWalkSeesItAll`
  (`ResolvedWhenQuiet`), `NoRunIsInvented`, and `RunsStand` about the walk alone.
  What a span resolves to is the value of a function defined by recursion along
  `Parent`; that there is one, and that its values are ids, is proved from the
  bottom up, and is why `TelemetryAssumption` excludes a cycle of parents (the
  program's query begins at roots and would leave a cycle alone).
  `LastWalkSeesItAll` has no hypothesis and holds of any number of batches: a
  stored row that no late resolve wrote is right, or is about to be written by a
  resolve that nothing overtook, or a resolve of its trace is still to look
  (`Settling`).
  `NoRunIsInvented` holds at every instant, quiet or not: what a row names is what
  some part of its trace gives it (`Parts`), and a run that a part of a trace gives
  a span is the run any larger part gives it (`RunsStand`), what `traces.sql:389`
  promises: "it cannot move one that worked". Its hypothesis, `DeclaredTogether`, is
  that a span which declares a turn declares its session; without it the phantom
  turn above refutes it, and the instance of `telemetry_ingest` is chosen so that it
  is not satisfied and that case occurs. An overtaken resolve then leaves an alias
  or nothing, never another run.
* `ScheduleHistoryProofs`: `ParsesWhatIsAsked`, `CatchUpFindsWhatIsOwed`
  (`RunnerFiresWhatIsOwed`), `OnlyOwedIsRecorded`, `PinnedIsEstablished`
  (`PinnedIsTheNextFire`), for every calendar, expression, zone and limit. The
  first is about the operators alone: the sets `parseCron` makes against the
  grammar, number by number. The others rest on what a zone is (`IsZone`): two
  changes of the clock lie farther apart than any two of its offsets differ. Real
  zones do: `next-fire.ts:198` measured the closest two changes at 28 days, and
  offsets lie within 26 hours. From that follow which readings occur twice
  (`SecondIs`), that a step of the cursor lands on the next minute that is not a
  repetition (`StepIs`), and so that no step passes over a minute that is owed and
  that the step itself knows what it swallowed (`OwedStep`). The two walks of the
  runner are then inductions on their turns (`NextSound`, `MissedSound`). The
  page's walk goes from change to change: it has passed over nothing that is due
  (`Clear`), and looks next at a reading that is no repetition (`Ordinary`); due is
  what is owed but for an edge that the property names (`Due`). That the
  walks exist as functions is proved once (`Iteration`). Over time the invariant is
  that all that is recorded was owed (`HInv`). A recorded fire at an ordinary
  reading is explained by the agent's own zone, and one at a landing is either not
  explained by any zone, and left aside, or `Misleads`: else the agent's zone is one
  of those that explain the history, and a wrong one never passes for established.

What carries the last two modules is an induction over data without the library's
theorems on induction, whose parameter is an operator. A set of spans that are
counterexamples has a member whose parent is none (that there is no cycle says
just this); a set of turns of a loop has a least member (`NatMin`, from the
well-foundedness of the naturals, stated for sets).

Model-checked only: liveness (`FiringIsHeard`, `CoverageLossIsHeard`,
`ReplayEnds`), which is outside the prover's reach.

## Not modelled

* Alert delivery: `alert_deliveries` and its pruning (an audit log nothing reads
  back; a throw out of its INSERT is `Abort` or an unanswered post), message
  formats, signatures, URL redaction, the parsing of the sink list, log lines.
  The set of sinks does not change.
* Spend cap: `budget_events`, token columns and reasons, the 30-day sweeps,
  `resetSession`, dropping the process sets at 10,000 sessions (its effect on one
  session is a restart's), two overlapping attempts of one step (eve awaits the
  hook), redeployments that change the mode, price arithmetic (prices are small
  integers; rounding is not a subject).
* Schedules: what the handler does, row retention, `session_id`, a wrapper
  called outside the minutes of its expression.
* Session control: `/cancel` (nothing the dashboard keeps depends on it; eve
  settles a cancelled turn like another), refused calls (401, 404, malformed
  bodies), the stream proxy, the window of events a snapshot folds, two forks of
  one conversation.
* Sandbox: `run()` and the file operations (one request each, no state), a
  `templateKey` (`create()` throws before anything), prewarm, quoting and output.
* Traces and facts: parsing, pruning, chunks of 500, migrations, the computed columns and prices,
  `fact_tool_call`. Cron: names, aliases and texts of refusals, `describeCron`,
  the page's work budgets, and its shortcut for fires that rule out nobody.
* Everything marked `not_modelled` in `PROJECT.json`, with its reason there.
