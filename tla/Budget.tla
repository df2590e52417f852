-------------------------------- MODULE Budget --------------------------------
(***************************************************************************)
(* packages/evestack-budget: the hook that turns step.completed into money *)
(* and stops (hook.ts, cancel.ts), the guard that shadows tools            *)
(* (guard.ts) and the tables both share (store.ts).                        *)
(*                                                                         *)
(* The turn itself belongs to eve and is modelled from what the hook       *)
(* relies on: eve awaits a hook before the turn goes on, a thrown hook     *)
(* fails the turn, a cancel is cooperative, and a step cut short by a      *)
(* crash runs again under the same coordinates.  Sessions interleave at    *)
(* every await.  Prices are small numbers; the tables' other columns       *)
(* (tokens, reasons, budget_events) are read by people only and left out,  *)
(* as are the 30-day sweeps.                                               *)
(***************************************************************************)
EXTENDS Integers, FiniteSetsExt

CONSTANTS
    Sessions,
    Principals,
    CallersOf,   \* the principals that may drive each session
    Configs,     \* the configurations the agent may be deployed with
    Prices,      \* what one step can cost
    MaxTurns,    \* bound: turns of each session
    MaxSteps,    \* bound: steps per turn
    MaxDay,      \* bound: days
    MaxFaults    \* bound: crashes, redeployments, users' cancels, and database
                 \* statements and cancel requests that fail, all together

Modes == {"fail", "cancel", "observe"}

\* resolveConfig; a cap of -1 is `false`, an axis switched off.  unpricedStop is
\* unpricedModel = "stop" with a model that has no price.
Config == [mode : Modes, sessionUsd : Int, dailyUsd : Int,
           unpricedStop : BOOLEAN, failClosed : BOOLEAN]

ASSUME BudgetAssumption ==
    /\ CallersOf \in [Sessions -> SUBSET Principals]
    /\ Configs \subseteq Config
    /\ Prices \subseteq Nat
    /\ MaxTurns \in [Sessions -> Nat]
    /\ {MaxSteps, MaxFaults} \subseteq Nat
    /\ MaxDay \in Nat \ {0}

Days == 1 .. MaxDay

VARIABLES
    config,      \* the deployed configuration
    today,       \* dayKey now
    phase,       \* eve: where each session's turn is
    turn, step,  \* eve: its current turn, and the steps of it that are over
    caller,      \* eve: who sent the current message
    cancelling,  \* eve: sessions whose turn was asked to cancel
    refused,     \* sessions whose guarded tools are shadowed in this step
    ledger,      \* budget_steps
    spent,       \* budget_usage of scope session
    daySpent,    \* budget_usage of scope principal-day
    stops,       \* budget_stops of scope session
    dayStops,    \* budget_stops of scope principal-day
    stopSays,    \* the reason and limit columns of each session row, as the
    daySays,     \* configuration they were written from; of each day row
    stopped, known, \* the process's memory: `stopped`, `knownUnderBudget`
    pc,          \* where the step.completed handler of each session is
    day,         \* its `day`
    verdict,     \* its `verdict`
    asked,       \* the last turn of each session the hook set out to stop
    blocked,     \* the scope whose stop row the session's last stop wrote
    overrun,     \* steps of this turn that ran with a cap already blown
    restarts, errors, cancels

eve == <<phase, turn, step, caller, cancelling>>
tables == <<ledger, spent, daySpent, stops, dayStops, stopSays, daySays>>
memory == <<stopped, known>>
local == <<pc, day, verdict>>
history == <<asked, blocked, overrun>>
vars == <<config, today, eve, refused, tables, memory, local, history, restarts, errors,
          cancels>>

-----------------------------------------------------------------------------
Init ==
    /\ config \in Configs
    /\ today = 1
    /\ phase = [s \in Sessions |-> "new"]
    /\ turn = [s \in Sessions |-> 0]
    /\ step = [s \in Sessions |-> 0]
    /\ caller \in {c \in [Sessions -> Principals] : \A s \in Sessions : c[s] \in CallersOf[s]}
    /\ cancelling = {}
    /\ refused = {}
    /\ ledger = {}
    /\ spent = [s \in Sessions |-> 0]
    /\ daySpent = [k \in Principals \X Days |-> 0]
    /\ stops = {}
    /\ dayStops = {}
    /\ stopSays = [s \in Sessions |-> config]
    /\ daySays = [k \in Principals \X Days |-> config]
    /\ stopped = {}
    /\ known = {}
    /\ pc = [s \in Sessions |-> "idle"]
    /\ day = [s \in Sessions |-> 1]
    /\ verdict = [s \in Sessions |-> "under"]
    /\ asked = [s \in Sessions |-> 0]
    /\ blocked = [s \in Sessions |-> "none"]
    /\ overrun = [s \in Sessions |-> 0]
    /\ restarts = 0
    /\ errors = 0
    /\ cancels = 0

\* A statement or a request fails; every catch below swallows or rethrows it.
Faults == restarts + errors + cancels

Fails == Faults < MaxFaults /\ errors' = errors + 1

IsUncapped == config.sessionUsd < 0 /\ config.dailyUsd < 0

-----------------------------------------------------------------------------
(* eve: sessions, turns and steps as the hook sees them.                   *)

\* session.started: the flags of an earlier session of that id are dropped and
\* the schema is prepared; a failure is fatal only to an agent that fails closed.
SessionStarted(s) ==
    /\ phase[s] = "new"
    /\ \/ phase' = [phase EXCEPT ![s] = "parked"] /\ UNCHANGED errors
       \/ /\ ~IsUncapped
          /\ Fails
          /\ phase' = [phase EXCEPT ![s] = IF config.failClosed THEN "failed" ELSE "parked"]
    /\ IF IsUncapped
         THEN UNCHANGED memory
         ELSE stopped' = stopped \ {s} /\ known' = known \ {s}
    /\ UNCHANGED <<config, today, turn, step, caller, cancelling, refused, tables, local,
                   history, restarts, cancels>>

Message(s, p) ==
    /\ phase[s] = "parked"
    /\ turn[s] < MaxTurns[s]
    /\ p \in CallersOf[s]
    /\ phase' = [phase EXCEPT ![s] = "ready"]
    /\ turn' = [turn EXCEPT ![s] = @ + 1]
    /\ step' = [step EXCEPT ![s] = 0]
    /\ caller' = [caller EXCEPT ![s] = p]
    /\ overrun' = [overrun EXCEPT ![s] = 0]
    /\ blocked' = [blocked EXCEPT ![s] =
                     IF @ = "principal-day" /\ p # caller[s] THEN "none" ELSE @]
    /\ UNCHANGED <<config, today, cancelling, refused, tables, memory, local, asked,
                   restarts, errors, cancels>>

\* readStop: the row of the session, or of its caller's day.
Stop(s) == s \in stops \/ <<caller[s], today>> \in dayStops

\* budgetGuard on step.started, before every model call; an unreadable store
\* leaves the tools enabled.
StepStarted(s) ==
    /\ phase[s] = "ready"
    /\ phase' = [phase EXCEPT ![s] = "model"]
    /\ \/ /\ refused' = IF Stop(s) THEN refused \cup {s} ELSE refused \ {s}
          /\ UNCHANGED errors
       \/ /\ Fails
          /\ refused' = refused \ {s}
    /\ UNCHANGED <<config, today, turn, step, caller, cancelling, tables, memory, local,
                   history, restarts, cancels>>

TurnOver(s) ==
    /\ phase' = [phase EXCEPT ![s] = "parked"]
    /\ UNCHANGED <<config, today, turn, step, caller, refused, tables, known, local, history,
                   restarts, errors, cancels>>

NextStep(s) ==
    /\ phase[s] = "next"
    /\ step[s] < MaxSteps
    /\ phase' = [phase EXCEPT ![s] = "ready"]
    /\ UNCHANGED <<config, today, turn, step, caller, cancelling, refused, tables, memory,
                   local, history, restarts, errors, cancels>>

\* turn.completed: no handler of the hook listens.
TurnCompleted(s) ==
    /\ phase[s] = "next"
    /\ s \notin cancelling
    /\ TurnOver(s)
    /\ UNCHANGED <<stopped, cancelling>>

\* The flag outlives the turn: freed on session.completed only.
KeptFlag(s) == stopped

Freed(s) == stopped \ {s}

\* turn.cancelled settles between steps and frees the flag; ...
TurnCancelled(s) ==
    /\ phase[s] \in {"ready", "next"}
    /\ s \in cancelling
    /\ TurnOver(s)
    /\ cancelling' = cancelling \ {s}
    /\ stopped' = Freed(s)

\* turn.failed after a thrown hook frees it without anything more to wait for.
TurnFailed(s) ==
    /\ phase[s] = "failed"
    /\ TurnOver(s)
    /\ cancelling' = cancelling \ {s}
    /\ stopped' = Freed(s)

\* Somebody cancels the turn from a client.
UserCancels(s) ==
    /\ phase[s] \in {"ready", "model", "emit", "next"}
    /\ s \notin cancelling
    /\ Faults < MaxFaults
    /\ cancels' = cancels + 1
    /\ cancelling' = cancelling \cup {s}
    /\ UNCHANGED <<config, today, phase, turn, step, caller, refused, tables, memory, local,
                   history, restarts, errors>>

NewDay ==
    /\ today < MaxDay
    /\ today' = today + 1
    /\ blocked' = [s \in Sessions |->
                     IF blocked[s] = "principal-day" THEN "none" ELSE blocked[s]]
    /\ UNCHANGED <<config, eve, refused, tables, memory, local, asked, overrun, restarts,
                   errors, cancels>>

\* A crash, or a redeployment with other caps and the same mode.  The process
\* forgets its flags and the handlers under way; a step cut short runs again.
Restart(c) ==
    /\ Faults < MaxFaults
    /\ restarts' = restarts + 1
    /\ c.mode = config.mode
    /\ config' = c
    /\ phase' = [s \in Sessions |->
                   IF phase[s] \in {"model", "emit"} THEN "ready" ELSE phase[s]]
    /\ stopped' = {}
    /\ known' = {}
    /\ pc' = [s \in Sessions |-> "idle"]
    /\ day' = [s \in Sessions |-> 1]
    /\ verdict' = [s \in Sessions |-> "under"]
    /\ blocked' = IF c = config THEN blocked ELSE [s \in Sessions |-> "none"]
    /\ UNCHANGED <<today, turn, step, caller, cancelling, refused, tables, asked, overrun,
                   errors, cancels>>

-----------------------------------------------------------------------------
(* The step.completed handler, one action per await.                       *)

\* The event is emitted and the handler takes its day before the first await; with
\* no cap, or no usage on the event, it returns before it has done anything.
StepCompleted(s) ==
    /\ phase[s] = "model"
    /\ \/ /\ ~IsUncapped
          /\ phase' = [phase EXCEPT ![s] = "emit"]
          /\ pc' = [pc EXCEPT ![s] = "record"]
          /\ day' = [day EXCEPT ![s] = today]
          /\ UNCHANGED step
       \/ /\ phase' = [phase EXCEPT ![s] = "next"]
          /\ step' = [step EXCEPT ![s] = @ + 1]
          /\ UNCHANGED <<pc, day>>
    /\ UNCHANGED <<config, today, turn, caller, cancelling, refused, tables, memory, verdict,
                   history, restarts, errors, cancels>>

\* The handler is over; its locals with it.
Done(s) ==
    /\ pc' = [pc EXCEPT ![s] = "idle"]
    /\ day' = [day EXCEPT ![s] = 1]
    /\ verdict' = [verdict EXCEPT ![s] = "under"]

\* It returns and the turn goes on, ...
Return(s) ==
    /\ Done(s)
    /\ phase' = [phase EXCEPT ![s] = "next"]
    /\ step' = [step EXCEPT ![s] = @ + 1]

\* ... or throws and eve fails the turn, ...
Throw(s) ==
    /\ Done(s)
    /\ phase' = [phase EXCEPT ![s] = "failed"]
    /\ UNCHANGED step

\* ... or goes on to its next await.
Go(s, next) ==
    /\ pc' = [pc EXCEPT ![s] = next]
    /\ UNCHANGED <<phase, step>>

Over(cost, cap) == cap >= 0 /\ cost >= cap

\* The verdict of a day's cap put down to the session.
BlamesSession(sessionCost, dayCost) ==
    IF \/ config.unpricedStop \/ Over(sessionCost, config.sessionUsd)
       \/ Over(dayCost, config.dailyUsd)
    THEN "session" ELSE "under"

\* evaluate: the session cap first; an unpriced model may count as exceeded.
Evaluate(sessionCost, dayCost) ==
    IF config.unpricedStop \/ Over(sessionCost, config.sessionUsd) THEN "session"
    ELSE IF Over(dayCost, config.dailyUsd) THEN "principal-day" ELSE "under"

\* principalDayKey.
DayKey(s) == <<caller[s], day[s]>>

Coordinates(s) == <<s, turn[s], step[s]>>

\* Keyed on the event: a step that runs again is a step that pays again.
NeverSeen(s) == TRUE

\* The deduplication gate of recordStep's INSERT ... DO NOTHING.
Uncounted(s) == \A r \in ledger : r.at # Coordinates(s)

\* One more step of s ran with a cap already blown.
Overran(s) ==
    overrun' = [overrun EXCEPT ![s] =
        @ + IF Evaluate(spent[s], daySpent[DayKey(s)]) = "under" THEN 0 ELSE 1]

\* recordStep is one statement: the step row and both totals, or, for a step
\* already in the ledger, the totals as they stand.
RecordStep(s, cost) ==
    IF Uncounted(s)
      THEN /\ ledger' = ledger \cup
                 {[at |-> Coordinates(s), principal |-> caller[s], day |-> day[s],
                   cost |-> cost]}
           /\ spent' = [spent EXCEPT ![s] = @ + cost]
           /\ daySpent' = [daySpent EXCEPT ![DayKey(s)] = @ + cost]
           /\ Overran(s)
      ELSE UNCHANGED <<ledger, spent, daySpent, overrun>>

\* What recordStep returned, against the caps; clearStop is asked for once per
\* session and process, observe mode goes no further than the counters.
Record(s) ==
    /\ pc[s] = "record"
    /\ \E cost \in IF config.unpricedStop THEN {0} ELSE Prices : RecordStep(s, cost)
    /\ LET outcome == Evaluate(spent'[s], daySpent'[DayKey(s)])
           silent == IF outcome = "under" THEN s \in known ELSE config.mode = "observe"
       IN  /\ known' = IF outcome = "under" THEN known \cup {s} ELSE known \ {s}
           /\ IF silent
                THEN Return(s)
                ELSE /\ verdict' = [verdict EXCEPT ![s] = outcome]
                     /\ Go(s, IF outcome = "under" THEN "clear" ELSE "stop")
                     /\ UNCHANGED day
    /\ UNCHANGED <<config, today, turn, caller, cancelling, refused, stops, dayStops, stopSays,
                   daySays, stopped, asked, blocked, restarts, errors, cancels>>

RecordFails(s) ==
    /\ pc[s] = "record"
    /\ Fails
    /\ Overran(s)
    /\ IF config.failClosed THEN Throw(s) ELSE Return(s)
    /\ UNCHANGED <<config, today, turn, caller, cancelling, refused, tables, memory,
                   asked, blocked, restarts, cancels>>

\* The DELETE without its scope_key: everybody's stop is lifted.
ClearsEverySession(s) == {}

\* A DELETE that forgets the session's half of its WHERE.
ClearsDayOnly(s) == stops

\* The session rows clearStop leaves.
ClearsOwnSession(s) == stops \ {s}

\* clearStop, after a verdict that may be old by now; its failure is swallowed.
ClearStop(s) ==
    /\ pc[s] = "clear"
    /\ \/ /\ stops' = ClearsOwnSession(s)
          /\ dayStops' = dayStops \ {DayKey(s)}
          /\ UNCHANGED errors
       \/ Fails /\ UNCHANGED <<stops, dayStops>>
    /\ Return(s)
    /\ UNCHANGED <<config, today, turn, caller, cancelling, refused, ledger, spent, daySpent,
                   stopSays, daySays, memory, history, restarts, cancels>>

\* recordStop for the day that begins.
KeyTomorrow(s) == <<caller[s], day[s] + 1>>

\* The scope key of a stop: the day the spend was recorded under.
StopKey(s) == DayKey(s)

\* The INSERT of recordStop; ON CONFLICT keeps the reason and limit already there.
StopRow(s) ==
    IF verdict[s] = "session"
      THEN /\ stops' = stops \cup {s}
           /\ stopSays' = [stopSays EXCEPT ![s] = IF s \in stops THEN @ ELSE config]
           /\ UNCHANGED <<dayStops, daySays>>
      ELSE /\ dayStops' = dayStops \cup {StopKey(s)}
           /\ daySays' = [daySays EXCEPT ![StopKey(s)] =
                             IF StopKey(s) \in dayStops THEN @ ELSE config]
           /\ UNCHANGED <<stops, stopSays>>

\* recordStop, its failure swallowed, then the check of `stopped`: one stop per
\* session until a turn.cancelled or turn.failed frees it.
RecordStop(s) ==
    /\ pc[s] = "stop"
    /\ \/ /\ StopRow(s)
          /\ blocked' = [blocked EXCEPT ![s] =
                IF verdict[s] = "principal-day" /\ day[s] # today THEN "none" ELSE verdict[s]]
          /\ UNCHANGED errors
       \/ Fails /\ UNCHANGED <<stops, dayStops, stopSays, daySays, blocked>>
    /\ IF s \in stopped
         THEN Return(s) /\ UNCHANGED <<stopped, asked>>
         ELSE /\ stopped' = stopped \cup {s}
              /\ asked' = [asked EXCEPT ![s] = turn[s]]
              /\ Go(s, "act")
              /\ UNCHANGED <<day, verdict>>
    /\ UNCHANGED <<config, today, turn, caller, cancelling, refused, ledger, spent, daySpent,
                   known, overrun, restarts, cancels>>

\* Mode fail: BudgetExceededError is thrown.
FailTurn(s) ==
    /\ pc[s] = "act"
    /\ config.mode = "fail"
    /\ Throw(s)
    /\ UNCHANGED <<config, today, turn, caller, cancelling, refused, tables, memory,
                   history, restarts, errors, cancels>>

\* Mode cancel: cancelTurn's POST, answered or not; the flag stays either way.
CancelTurn(s) ==
    /\ pc[s] = "act"
    /\ config.mode = "cancel"
    /\ \/ cancelling' = cancelling \cup {s} /\ UNCHANGED errors
       \/ Fails /\ UNCHANGED cancelling
    /\ Return(s)
    /\ UNCHANGED <<config, today, turn, caller, refused, tables, memory,
                   history, restarts, cancels>>

Handler(s) ==
    \/ Record(s) \/ RecordFails(s) \/ ClearStop(s) \/ RecordStop(s)
    \/ FailTurn(s) \/ CancelTurn(s)

Turn(s) ==
    \/ SessionStarted(s) \/ \E p \in Principals : Message(s, p)
    \/ StepStarted(s) \/ StepCompleted(s) \/ NextStep(s)
    \/ TurnCompleted(s) \/ TurnCancelled(s) \/ TurnFailed(s) \/ UserCancels(s)

Next ==
    \/ \E s \in Sessions : Handler(s) \/ Turn(s)
    \/ NewDay
    \/ \E c \in Configs : Restart(c)

Spec == Init /\ [][Next]_vars

-----------------------------------------------------------------------------
(* Properties.                                                             *)

Phases == {"new", "parked", "ready", "model", "emit", "next", "failed"}

Row == [at : Sessions \X Nat \X Nat, principal : Principals, day : Days, cost : Nat]

\* Every variable has its type.
TypeOK ==
    /\ config \in Configs
    /\ today \in Days
    /\ phase \in [Sessions -> Phases]
    /\ turn \in [Sessions -> Nat]
    /\ step \in [Sessions -> Nat]
    /\ caller \in [Sessions -> Principals]
    /\ cancelling \in SUBSET Sessions
    /\ refused \in SUBSET Sessions
    /\ ledger \subseteq Row
    /\ spent \in [Sessions -> Nat]
    /\ daySpent \in [Principals \X Days -> Nat]
    /\ stops \in SUBSET Sessions
    /\ dayStops \in SUBSET (Principals \X Days)
    /\ stopSays \in [Sessions -> Configs]
    /\ daySays \in [Principals \X Days -> Configs]
    /\ stopped \in SUBSET Sessions
    /\ known \in SUBSET Sessions
    /\ pc \in [Sessions -> {"idle", "record", "clear", "stop", "act"}]
    /\ day \in [Sessions -> Days]
    /\ verdict \in [Sessions -> {"under", "session", "principal-day"}]
    /\ asked \in [Sessions -> Nat]
    /\ blocked \in [Sessions -> {"none", "session", "principal-day"}]
    /\ overrun \in [Sessions -> Nat]
    /\ restarts \in Nat
    /\ errors \in Nat
    /\ cancels \in Nat

Cost(rows) == MapThenSumSet(LAMBDA r : r.cost, rows)

\* Both totals are exactly what the ledger adds up to, and the ledger holds each
\* step once, however often a crash made it run (store.ts: "keying money on
\* meta.id would bill a retried step twice").
NeverBilledTwice ==
    /\ \A q, r \in ledger : q.at = r.at => q = r
    /\ \A s \in Sessions : spent[s] = Cost({r \in ledger : r.at[1] = s})
    /\ \A p \in Principals, d \in Days :
         daySpent[<<p, d>>] = Cost({r \in ledger : r.principal = p /\ r.day = d})

\* Tools are refused to nobody who has not spent a cap, and the row says so: the
\* limit a stop row carries, which is that of the configuration its writer ran
\* with, is reached by what its own session, or its own principal's day, has
\* spent, though the row is written an await after the verdict, among other
\* sessions' clears, redeployments with other caps and changes of date.  Only a
\* model without a price stops a session for another reason.
StopIsEarned ==
    /\ \A s \in stops : stopSays[s].unpricedStop \/ Over(spent[s], stopSays[s].sessionUsd)
    /\ \A k \in dayStops : Over(daySpent[k], daySays[k].dailyUsd)

\* "It pauses at $X, plus at most one step that was already in flight" (README):
\* in the default mode a turn runs one step at most with a cap already blown, and
\* one more per crash or failed statement, the steps that were never counted for
\* lack of a database included.
OneStepOver ==
    config.mode = "fail" => \A s \in Sessions : overrun[s] <= 1 + restarts + errors

Starts(s) == phase[s] = "ready" /\ phase'[s] = "model"

\* A step that starts after the hook wrote a stop for its session, caps and
\* window unchanged and the store readable, starts with its tools refused.
Refusal(scopes) ==
    \A s \in Sessions :
        (Starts(s) /\ blocked[s] \in scopes /\ errors' = errors) => s \in refused'

\* A session over its own cap keeps being refused: no other session's clear, no
\* crash and no retried step lifts the stop.
SessionStaysRefused == [][Refusal({"session"})]_vars

\* guard.ts: "Tools are disabled until the budget is raised or the window rolls
\* over", whichever of the two scopes stopped the session.
StaysRefused == [][Refusal({"session", "principal-day"})]_vars

\* hook.ts: the flag is freed so that after a stop "the very next step must be
\* able to stop it again"; README: "The next message runs normally, and is
\* stopped again if the budget is still gone".  No handler that found the budget
\* gone leaves a turn running that nobody ever set out to stop.
StoppedAgain ==
    [][\A s \in Sessions :
         (pc[s] = "stop" /\ phase'[s] = "next") => asked[s] = turn[s]]_vars

\* The same in the default mode, where it holds through failing statements: a
\* handler that found the budget gone never lets its turn go on.
FailedAgain ==
    [][\A s \in Sessions :
         (pc[s] \in {"stop", "act"} /\ config.mode = "fail") => phase'[s] # "next"]_vars

\* "A cap raised under a session that already hit the old one heals on the next
\* step" (README): when no statement failed, a measured step that is found under
\* budget leaves its session with no stop of its own.
RaisedCapHeals ==
    [][\A s \in Sessions :
         ( /\ phase'[s] = "next" /\ errors' = 0
           /\ \/ pc[s] = "clear"
              \/ pc[s] = "record" /\ Evaluate(spent'[s], daySpent'[DayKey(s)]) = "under")
           => s \notin stops']_vars
=============================================================================
