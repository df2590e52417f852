------------------------------ MODULE Schedules ------------------------------
(***************************************************************************)
(* packages/evestack-schedules: tracked() around one schedule's handler    *)
(* (runner.ts) and the rows it claims (store.ts).  Schedules of different  *)
(* names share nothing: their rows, pause switches and wrappers are keyed  *)
(* by name.                                                                *)
(*                                                                         *)
(* Workers of one database each run the wrapper; a call is one firing of   *)
(* it, and every await ends an action, so firings of one worker overlap    *)
(* too.  Time is in minutes and passes at any moment, inside a handler or  *)
(* between two awaits.  What the handler does is left out.                 *)
(***************************************************************************)
EXTENDS Integers, FiniteSets

CONSTANTS
    Workers,     \* processes that load the schedule
    Calls,       \* firings of the wrapper
    WorkerOf,    \* the process each call runs in
    Cron,        \* the minutes the expression matches
    CatchUp,     \* options.catchUp
    Limit,       \* options.catchUpLimit
    Window,      \* options.catchUpWindowMs, in minutes
    MaxMinute,   \* bound: the last minute
    MaxCrashes,  \* bound: processes killed
    MaxFailures, \* bound: statements that fail
    MaxToggles   \* bound: turns of the pause switch

Minutes == 1 .. MaxMinute

ASSUME ScheduleAssumption ==
    /\ WorkerOf \in [Calls -> Workers]
    /\ Cron \subseteq Minutes
    /\ CatchUp \in BOOLEAN
    /\ {Limit, Window, MaxCrashes, MaxFailures, MaxToggles} \subseteq Nat
    /\ MaxMinute \in Nat \ {0}

VARIABLES
    now,       \* currentTick()
    up,        \* processes that are running
    rows,      \* schedule_runs: the status of each tick, "none" where there is no row
    paused,    \* schedule_state.paused
    caughtUp,  \* processes whose wrapper has set `caughtUp`
    pc,        \* where each call is
    tick,      \* its `fireAt`
    queue,     \* the fires its replay still has to go through
    live,      \* calls that are past their replay: runOnce with isCatchUp = false
    claimed,   \* calls that hold the id of a row
    outcome,   \* the status each call is about to record
    runs,      \* how often the handler was started for each tick
    deferred,  \* ticks a catch-up left over because of its limit
    crashes, failures, toggles

call == <<pc, tick, queue, live, claimed, outcome>>
counts == <<crashes, failures, toggles>>
vars == <<now, up, rows, paused, caughtUp, call, runs, deferred, counts>>

-----------------------------------------------------------------------------
Init ==
    /\ now = 1
    /\ up = Workers
    /\ rows = [t \in Minutes |-> "none"]
    /\ paused = FALSE
    /\ caughtUp = {}
    /\ pc = [c \in Calls |-> "idle"]
    /\ tick = [c \in Calls |-> 1]
    /\ queue = [c \in Calls |-> {}]
    /\ live = {}
    /\ claimed = {}
    /\ outcome = [c \in Calls |-> "none"]
    /\ runs = [t \in Minutes |-> 0]
    /\ deferred = {}
    /\ crashes = 0
    /\ failures = 0
    /\ toggles = 0

-----------------------------------------------------------------------------
(* The clock, the processes and the pause switch.                          *)

Minute ==
    /\ now < MaxMinute
    /\ now' = now + 1
    /\ UNCHANGED <<up, rows, paused, caughtUp, call, runs, deferred, counts>>

\* Nothing of a call outlives its process.
Crash(w) ==
    LET dead == {c \in Calls : WorkerOf[c] = w}
    IN  /\ w \in up
        /\ crashes < MaxCrashes
        /\ crashes' = crashes + 1
        /\ up' = up \ {w}
        /\ caughtUp' = caughtUp \ {w}
        /\ pc' = [c \in Calls |-> IF c \in dead THEN "idle" ELSE pc[c]]
        /\ tick' = [c \in Calls |-> IF c \in dead THEN 1 ELSE tick[c]]
        /\ queue' = [c \in Calls |-> IF c \in dead THEN {} ELSE queue[c]]
        /\ live' = live \ dead
        /\ claimed' = claimed \ dead
        /\ outcome' = [c \in Calls |-> IF c \in dead THEN "none" ELSE outcome[c]]
        /\ UNCHANGED <<now, rows, paused, runs, deferred, failures, toggles>>

Boot(w) ==
    /\ w \notin up
    /\ up' = up \cup {w}
    /\ UNCHANGED <<now, rows, paused, caughtUp, call, runs, deferred, counts>>

\* setPaused, from the dashboard.
SetPaused ==
    /\ toggles < MaxToggles
    /\ toggles' = toggles + 1
    /\ paused' = ~paused
    /\ UNCHANGED <<now, up, rows, caughtUp, call, runs, deferred, crashes, failures>>

-----------------------------------------------------------------------------
(* trackedRun, one action per await.                                       *)

Fails == failures < MaxFailures /\ failures' = failures + 1

Unfailing == UNCHANGED failures

Go(c, next) == pc' = [pc EXCEPT ![c] = next]

\* The minute rounded up.
RoundedUp == now + 1

\* The minute it is, read anew each time it is needed.
CurrentTick == now

Return(c) ==
    /\ Go(c, "idle")
    /\ tick' = [tick EXCEPT ![c] = 1]
    /\ queue' = [queue EXCEPT ![c] = {}]
    /\ live' = live \ {c}
    /\ claimed' = claimed \ {c}
    /\ outcome' = [outcome EXCEPT ![c] = "none"]

\* The next runOnce: of the oldest fire still queued, or, when none is left, of
\* the minute it is by then.
RunOnce(c, fires) ==
    /\ Go(c, "claim")
    /\ claimed' = claimed \ {c}
    /\ outcome' = [outcome EXCEPT ![c] = "none"]
    /\ IF fires = {}
         THEN /\ tick' = [tick EXCEPT ![c] = CurrentTick]
              /\ live' = live \cup {c}
              /\ UNCHANGED queue
         ELSE \E t \in fires :
                /\ \A u \in fires : t <= u
                /\ tick' = [tick EXCEPT ![c] = t]
                /\ queue' = [queue EXCEPT ![c] = fires \ {t}]
                /\ UNCHANGED live

\* runOnce is over: a throw of the handler ends a replay's turn like a return.
Continue(c) == IF c \in live THEN Return(c) ELSE RunOnce(c, queue[c])

\* The timer of the worker.
Fire(c) ==
    /\ pc[c] = "idle"
    /\ WorkerOf[c] \in up
    /\ now \in Cron
    /\ Go(c, "pause")
    /\ UNCHANGED <<now, up, rows, paused, caughtUp, tick, queue, live, claimed, outcome, runs,
                   deferred, counts>>

\* Not paused: a catch-up once per process, otherwise the live fire.
Proceed(c) ==
    IF CatchUp /\ WorkerOf[c] \notin caughtUp
      THEN /\ caughtUp' = caughtUp \cup {WorkerOf[c]}
           /\ Go(c, "anchor")
           /\ UNCHANGED <<tick, queue, live, claimed, outcome>>
      ELSE RunOnce(c, {}) /\ UNCHANGED caughtUp

\* pausedSafely fails open.
CheckPause(c) ==
    /\ pc[c] = "pause"
    /\ \/ /\ paused
          /\ Unfailing
          /\ Go(c, "skip")
          /\ tick' = [tick EXCEPT ![c] = CurrentTick]
          /\ UNCHANGED <<caughtUp, queue, live, claimed, outcome>>
       \/ ~paused /\ Unfailing /\ Proceed(c)
       \/ Fails /\ Proceed(c)
    /\ UNCHANGED <<now, up, rows, paused, runs, deferred, crashes, toggles>>

\* A claim that also takes over rows left "running".
FreeUnlessOver(t) == rows[t] \in {"none", "running"}

\* claimRun's INSERT ... ON CONFLICT (name, fire_at) DO NOTHING.
Free(t) == rows[t] = "none"

Insert(t) == rows' = [rows EXCEPT ![t] = "running"]

\* A failed claim may have reached the table or not.
ClaimFails(t) == Fails /\ (UNCHANGED rows \/ (Free(t) /\ Insert(t)))

\* The fire of a paused schedule claims its tick to record it as skipped.
Skip(c) ==
    /\ pc[c] = "skip"
    /\ \/ /\ Free(tick[c])
          /\ Unfailing
          /\ Insert(tick[c])
          /\ Go(c, "finish")
          /\ claimed' = claimed \cup {c}
          /\ outcome' = [outcome EXCEPT ![c] = "skipped"]
          /\ live' = live \cup {c}
          /\ UNCHANGED <<tick, queue>>
       \/ ~Free(tick[c]) /\ Unfailing /\ UNCHANGED rows /\ Return(c)
       \/ ClaimFails(tick[c]) /\ Return(c)
    /\ UNCHANGED <<now, up, paused, caughtUp, runs, deferred, crashes, toggles>>

\* missedFires between lastFireAt, or the edge of the window, and a minute ago.
Recorded == {t \in Minutes : rows[t] # "none"}

Missed == {t \in Cron : t < now /\ t > now - Window /\ \A r \in Recorded : r < t}

Oldest(fires) == {t \in fires : Cardinality({u \in fires : u < t}) < Limit}

\* replayMissed up to its loop; without a first row there is no anchor.
Anchor(c) ==
    /\ pc[c] = "anchor"
    /\ \/ /\ Unfailing
          /\ LET fires == IF Recorded = {} THEN {} ELSE Missed
             IN  /\ RunOnce(c, Oldest(fires))
                 /\ deferred' = deferred \cup (fires \ Oldest(fires))
       \/ Fails /\ RunOnce(c, {}) /\ UNCHANGED deferred
    /\ UNCHANGED <<now, up, rows, paused, caughtUp, runs, crashes, toggles>>

StartHandler(c) ==
    /\ Go(c, "handle")
    /\ runs' = [runs EXCEPT ![tick[c]] = @ + 1]
    /\ UNCHANGED <<tick, queue, live, outcome>>

\* The guard `id === null && isCatchUp`, which let a live fire fall through.
TakenStopsReplays(c) ==
    IF c \in live THEN StartHandler(c) /\ UNCHANGED claimed
    ELSE RunOnce(c, queue[c]) /\ UNCHANGED runs

\* A tick already in the table belongs to whoever wrote it.
Taken(c) == Continue(c) /\ UNCHANGED runs

\* The old answer to a store that failed: no id, no run.
UnrecordedStops(c) == Continue(c) /\ UNCHANGED runs

\* Bookkeeping never stops a schedule: run it unrecorded.
Unrecorded(c) == StartHandler(c) /\ UNCHANGED claimed

Claim(c) ==
    /\ pc[c] = "claim"
    /\ \/ /\ Free(tick[c])
          /\ Unfailing
          /\ Insert(tick[c])
          /\ claimed' = claimed \cup {c}
          /\ StartHandler(c)
       \/ ~Free(tick[c]) /\ Unfailing /\ UNCHANGED rows /\ Taken(c)
       \/ ClaimFails(tick[c]) /\ Unrecorded(c)
    /\ UNCHANGED <<now, up, paused, caughtUp, deferred, crashes, toggles>>

\* Only a completed handler has its row finished.
FinishesIfCompleted(c, status) == c \in claimed /\ status = "completed"

Finishes(c, status) == c \in claimed

\* The handler returns or throws; a fire that holds a row records which.
HandlerEnds(c, status) ==
    /\ pc[c] = "handle"
    /\ IF Finishes(c, status)
         THEN /\ Go(c, "finish")
              /\ outcome' = [outcome EXCEPT ![c] = status]
              /\ UNCHANGED <<tick, queue, live, claimed>>
         ELSE Continue(c)
    /\ UNCHANGED <<now, up, rows, paused, caughtUp, runs, deferred, counts>>

\* finishSafely: the UPDATE, or its failure logged and forgotten.
FinishRun(c) ==
    /\ pc[c] = "finish"
    /\ \/ Unfailing /\ rows' = [rows EXCEPT ![tick[c]] = outcome[c]]
       \/ Fails /\ UNCHANGED rows
    /\ Continue(c)
    /\ UNCHANGED <<now, up, paused, caughtUp, runs, deferred, crashes, toggles>>

Step(c) ==
    \/ CheckPause(c) \/ Skip(c) \/ Anchor(c) \/ Claim(c)
    \/ \E status \in {"completed", "failed"} : HandlerEnds(c, status)
    \/ FinishRun(c)

Next ==
    \/ Minute \/ SetPaused
    \/ \E w \in Workers : Crash(w) \/ Boot(w)
    \/ \E c \in Calls : Fire(c) \/ Step(c)

Spec == Init /\ [][Next]_vars

-----------------------------------------------------------------------------
(* Properties.                                                             *)

Status == {"none", "running", "completed", "failed", "skipped"}

\* Every variable has its type.
TypeOK ==
    /\ now \in Minutes
    /\ up \in SUBSET Workers
    /\ rows \in [Minutes -> Status]
    /\ paused \in BOOLEAN
    /\ caughtUp \in SUBSET Workers
    /\ pc \in [Calls -> {"idle", "pause", "skip", "anchor", "claim", "handle", "finish"}]
    /\ tick \in [Calls -> Minutes]
    /\ queue \in [Calls -> SUBSET Minutes]
    /\ live \in SUBSET Calls
    /\ claimed \in SUBSET Calls
    /\ outcome \in [Calls -> Status]
    /\ runs \in [Minutes -> Nat]
    /\ deferred \in SUBSET Minutes
    /\ crashes \in Nat /\ failures \in Nat /\ toggles \in Nat

\* "One scheduled tick runs at most once" (README): workers, replays and live
\* fires that race for it start the handler once, and once more for each claim
\* the store failed to answer.
AtMostOncePerTick == \A t \in Minutes : runs[t] <= 1 + failures

\* A fire recorded as skipped was not run, though other workers may have read
\* the switch before it was turned; only a claim that failed can have run it.
SkippedNeverRan == \A t \in Minutes : rows[t] = "skipped" => runs[t] <= failures

\* One call at most is at work on the row of a tick: what it records is what it
\* did, and nobody overwrites it.
OneOwner ==
    \A c, d \in claimed : tick[c] = tick[d] => c = d

\* A row still "running" with nobody behind it is a crash or a failed statement,
\* as the dashboard tells its reader.
RunningHasARunner ==
    (crashes = 0 /\ failures = 0)
      => \A t \in Minutes : rows[t] = "running" => \E c \in claimed : tick[c] = t

\* "A store failure never stops your handler" (README): a fire that was not
\* paused, live or replayed, ends without its handler only where the tick has a row.
StoreNeverStops ==
    [][\A c \in Calls :
         ( /\ pc[c] = "claim" /\ (pc'[c] # "claim" \/ tick'[c] # tick[c])
           /\ runs' = runs /\ crashes' = crashes )
           => rows[tick[c]] # "none"]_vars

\* replayMissed: ticks over the limit "are not lost: lastFireAt is MAX(fire_at),
\* so it advances to the last one replayed and the next tick resumes from there".
\* A deferred tick still inside the window has a row, or no later tick has one.
DeferredStillDue ==
    \A t \in deferred :
        t > now - Window /\ rows[t] = "none" => \A r \in Recorded : r < t
=============================================================================
