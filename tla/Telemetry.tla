------------------------------ MODULE Telemetry ------------------------------
(***************************************************************************)
(* Trace ingest and the fact layer of the dashboard (lib/traces.ts,        *)
(* lib/facts.ts, sql/traces.sql, sql/facts.sql).                           *)
(*                                                                         *)
(* Exporters post batches of spans, at least once and in any order.  Each  *)
(* batch is stored in a transaction whose trigger resolves the spans of    *)
(* the trace to workflow runs, and resolved once more after the commit.    *)
(* refresh_facts then rebuilds the rows of the turns that moved since a    *)
(* watermark.                                                              *)
(*                                                                         *)
(* PostgreSQL is external, at READ COMMITTED: a query sees what had been   *)
(* committed when it began, and an UPDATE that had to wait for a row       *)
(* writes the value it computed before.  now() is the time a transaction   *)
(* began, so that a row may become visible with a stamp from long before.  *)
(***************************************************************************)
EXTENDS Integers

CONSTANTS
    Spans, Batches,
    Turns,        \* the workflow runs of turns
    Sessions,     \* the workflow runs of sessions
    Content,      \* per batch: the spans it carries, all of one trace
    Parent,       \* per span: its parent_span_id, or None
    Alias,        \* the declared turn ids that name no workflow run
    Declared,     \* per span: its turn_id, a member of Turns or of Alias, or None
    Session,      \* per span: its session_id, or None
    RunId,        \* per span: its workflow.run.id, of a turn or of a session, or None
    Trace,        \* per span
    None,
    Refreshers,   \* pages that call refreshFacts
    MaxTime,      \* bound: the clock
    MaxEvents     \* bound: posts, refreshes and run rows that move (each once), together

ASSUME TelemetryAssumption ==
    /\ None \notin Spans \cup Turns \cup Sessions \cup Alias
    /\ Turns \cap Sessions = {} /\ (Turns \cup Sessions) \cap Alias = {}
    /\ Content \in [Batches -> SUBSET Spans]
    /\ \A b \in Batches : \A s, t \in Content[b] : Trace[s] = Trace[t]
    /\ Parent \in [Spans -> Spans \cup {None}]
    /\ \A S \in (SUBSET Spans) \ {{}} : \E s \in S : Parent[s] \notin S   \* no cycle
    /\ Declared \in [Spans -> Turns \cup Alias \cup {None}]
    /\ Session \in [Spans -> Sessions \cup {None}]
    /\ RunId \in [Spans -> Turns \cup Sessions \cup {None}]
    /\ {MaxTime, MaxEvents} \subseteq Nat

VARIABLES
    clock,
    row,       \* evestack.spans: received_at (Never: not stored) and the resolved ids
    call,      \* per batch: insertSpans, what its statement is about to write, and
               \* whether a batch of the trace landed since its walk looked (late)
    run,       \* workflow.workflow_runs of the turns: updated_at, a version, and
               \* when the transaction that is to change it began
    fact,      \* evestack.fact_turn: the version and the spans it was built from
    mark,      \* evestack.fact_watermark, Never when absent
    refresh,   \* per page: the call of refresh_facts
    overtaken, \* the spans that a late walk wrote, and that no walk looked at since
    missed,    \* the turns that their last write left where no refresh looks
    fresh,     \* nothing has been written since a refresh that met no write
    events     \* begun so far

facts == <<fact, mark>>
vars == <<clock, row, call, run, facts, refresh, overtaken, missed, fresh, events>>

Never == -1
Time == 0 .. MaxTime
Ids == Turns \cup Sessions \cup Alias \cup {None}
NoPlan == [s \in {} |-> None]

TypeOK ==
    /\ clock \in Time
    /\ row \in [Spans -> [at : Time \cup {Never}, turn : Ids, session : Sessions \cup {None}]]
    /\ \A b \in Batches :
          /\ call[b].at \in {"unsent", "writing", "stored", "resolving", "done"}
          /\ call[b].began \in Time /\ call[b].late \in BOOLEAN
          /\ DOMAIN call[b].plan \subseteq Spans
    /\ run \in [Turns -> [at : Time, version : 0 .. 1, began : Time \cup {Never}]]
    /\ fact \in [Turns -> [version : -1 .. 1, spans : SUBSET Spans]]
    /\ mark \in [runs : Time \cup {Never}, spans : Time \cup {Never}]
    /\ \A r \in Refreshers :
          /\ refresh[r].at \in {"idle", "read", "touched"}
          /\ refresh[r].since \in [runs : Time \cup {Never}, spans : Time \cup {Never}]
          /\ refresh[r].until \in [runs : Time \cup {Never}, spans : Time \cup {Never}]
          /\ refresh[r].turns \subseteq Turns
          /\ refresh[r].clean \in BOOLEAN
    /\ fresh \in BOOLEAN
    /\ overtaken \subseteq Spans /\ missed \subseteq Turns
    /\ events \in 0 .. MaxEvents

Unsent == [at |-> "unsent", began |-> 0, plan |-> NoPlan, late |-> FALSE]
NoMark == [runs |-> Never, spans |-> Never]
Idle == [at |-> "idle", since |-> NoMark, until |-> NoMark, turns |-> {}, clean |-> FALSE]

Init ==
    /\ clock = 0
    /\ row = [s \in Spans |-> [at |-> Never, turn |-> None, session |-> None]]
    /\ call = [b \in Batches |-> Unsent]
    /\ run = [t \in Turns |-> [at |-> 0, version |-> 0, began |-> Never]]
    /\ fact = [t \in Turns |-> [version |-> -1, spans |-> {}]]
    /\ mark = NoMark
    /\ refresh = [r \in Refreshers |-> Idle]
    /\ overtaken = {} /\ missed = {} /\ fresh = FALSE /\ events = 0

Event == events < MaxEvents /\ events' = events + 1

Stored == {s \in Spans : row[s].at # Never}
InTrace(b) == {s \in Spans : \E t \in Content[b] : Trace[s] = Trace[t]}
Beside(b, c) == InTrace(b) \cap Content[c] # {}   \* c is of the trace of b

(***************************************************************************)
(* resolve_span_ancestry over the spans S that its query sees.             *)
(***************************************************************************)
\* The nearest value on the way up, own value first.
Inherited(S, own) ==
    LET up[s \in S] ==
          IF own[s] # None THEN own[s]
          ELSE IF Parent[s] \in S THEN up[Parent[s]] ELSE None
    IN up

\* An alias gives way to the run it was executed in, unless that is the session's.
TurnOf(S, s) ==
    LET tid == Inherited(S, Declared)[s]
        rid == Inherited(S, RunId)[s]
        sid == Inherited(S, Session)[s]
    IN IF tid \in Alias /\ rid # None /\ rid # sid THEN rid ELSE tid

ResolvedOf(S, s) == [turn |-> TurnOf(S, s), session |-> Inherited(S, Session)[s]]

\* The walk over the trace of b: the rows it is going to change, in both columns.
Plan(b, S) ==
    LET seen == S \cap InTrace(b)
        now(s) == [turn |-> row[s].turn, session |-> row[s].session]
        new == [s \in seen |-> ResolvedOf(seen, s)]
    IN [s \in {x \in seen : new[x] # now(x)} |-> new[s]]

(***************************************************************************)
(* insertSpans, POST /api/ingest/v1/traces                                 *)
(***************************************************************************)
\* A write, for the two history variables: does it leave a turn it changes with
\* nothing as new as a watermark that a refresh has read?
Looked == {mark} \cup {refresh[r].until : r \in {x \in Refreshers : refresh[x].at # "idle"}}
Changed(t) ==
    run'[t] # run[t] \/ \E s \in Spans : row'[s] # row[s] /\ t \in {row[s].turn, row'[s].turn}
OutOfSight(t) ==
    \E x \in Looked :
        /\ run'[t].at < x.runs
        /\ \A s \in Spans : row'[s].at # Never /\ row'[s].turn = t => row'[s].at < x.spans
Written ==
    /\ missed' = {t \in Turns : IF Changed(t) THEN OutOfSight(t) ELSE t \in missed}
    /\ fresh' = FALSE
    /\ refresh' = [r \in Refreshers |-> [refresh[r] EXCEPT !.clean = FALSE]]

\* The rows that the statement of b leaves.
Rows(b, content) ==
    LET plan == call[b].plan
    IN [s \in Spans |->
          [at |-> IF s \in content THEN call[b].began ELSE row[s].at,
           turn |-> IF s \in DOMAIN plan THEN plan[s].turn ELSE row[s].turn,
           session |-> IF s \in DOMAIN plan THEN plan[s].session ELSE row[s].session]]

\* The INSERT and the walk of its trigger, in one transaction.
Post(b) ==
    /\ call[b].at = "unsent" /\ Event
    /\ call' = [call EXCEPT ![b] = [Unsent EXCEPT !.at = "writing", !.began = clock,
                                     !.plan = Plan(b, Stored \cup Content[b])]]
    /\ UNCHANGED <<clock, row, run, facts, refresh, overtaken, missed, fresh>>

Commit(b) ==
    /\ call[b].at = "writing"
    /\ row' = Rows(b, Content[b])
    /\ call' = [c \in Batches |->
                  IF c = b THEN [Unsent EXCEPT !.at = "stored"]
                  ELSE [call[c] EXCEPT !.late = @ \/ (call[c].at = "resolving" /\ Beside(c, b))]]
    /\ UNCHANGED run /\ Written
    /\ UNCHANGED <<clock, facts, overtaken, events>>

\* The resolve after the commit, a statement of its own.  NoWalk relies on the
\* trigger alone.
NoWalk(b) == NoPlan
Walk(b) == Plan(b, Stored)

Resolve(b) ==
    /\ call[b].at = "stored"
    /\ call' = [call EXCEPT ![b].at = "resolving", ![b].plan = Walk(b)]
    /\ overtaken' = overtaken \ InTrace(b)
    /\ UNCHANGED <<clock, row, run, facts, refresh, missed, fresh, events>>

Resolved(b) ==
    /\ call[b].at = "resolving"
    /\ row' = Rows(b, {})
    /\ call' = [call EXCEPT ![b] = [Unsent EXCEPT !.at = "done"]]
    /\ overtaken' = IF call[b].late THEN overtaken \cup DOMAIN call[b].plan ELSE overtaken
    /\ UNCHANGED run /\ Written
    /\ UNCHANGED <<clock, facts, events>>

\* A statement fails, which is a 503, or the 200 is lost: it is posted again.
Refused(b) ==
    /\ call[b].at \in {"writing", "stored", "done"}
    /\ events < MaxEvents
    /\ call' = [call EXCEPT ![b] = Unsent]
    /\ UNCHANGED <<clock, row, run, facts, refresh, overtaken, missed, fresh, events>>

(***************************************************************************)
(* The world                                                               *)
(***************************************************************************)
Tick ==
    /\ clock < MaxTime /\ clock' = clock + 1
    /\ UNCHANGED <<row, call, run, facts, refresh, overtaken, missed, fresh, events>>

\* eve moves a turn on: a transaction stamps its run row, and commits later.
RunBegins(t) ==
    /\ run[t].began = Never /\ Event
    /\ run' = [run EXCEPT ![t].began = clock]
    /\ UNCHANGED <<clock, row, call, facts, refresh, overtaken, missed, fresh>>

RunMoves(t) ==
    /\ run[t].began # Never /\ run[t].version = 0
    /\ run' = [run EXCEPT ![t].at = run[t].began, ![t].version = 1]
    /\ UNCHANGED row /\ Written
    /\ UNCHANGED <<clock, call, facts, overtaken, events>>

(***************************************************************************)
(* refreshFacts: refresh_facts is one transaction, each of its queries     *)
(* sees what was committed when the query began.                           *)
(***************************************************************************)
\* NewestRoundedUp rounds the newest instant up to the next one.
NewestRoundedUp(S) == IF S = {} THEN Never ELSE 1 + (CHOOSE x \in S : \A y \in S : y <= x)
Newest(S) == IF S = {} THEN Never ELSE CHOOSE x \in S : \A y \in S : y <= x

\* The watermarks: those stored are the arguments, the new ones are read first.
Watermarks ==
    [runs |-> Newest({run[t].at : t \in Turns}),
     spans |-> Newest({row[s].at : s \in Stored})]

RefreshBegins(r) ==
    /\ refresh[r].at = "idle" /\ Event
    /\ refresh' = [refresh EXCEPT ![r] =
                     [at |-> "read", since |-> mark, until |-> Watermarks,
                      turns |-> {}, clean |-> TRUE]]
    /\ UNCHANGED <<clock, row, call, run, facts, overtaken, missed, fresh>>

\* touched_turns: the run row moved, or a span of it landed.  After compares
\* strictly.
After(at, since) == at > since
Since(at, since) == at >= since

Touched(since) ==
    {t \in Turns :
        \/ Since(run[t].at, since.runs)
        \/ \E s \in Stored : row[s].turn = t /\ Since(row[s].at, since.spans)}

RefreshTouches(r) ==
    /\ refresh[r].at = "read"
    /\ refresh' = [refresh EXCEPT ![r].at = "touched", ![r].turns = Touched(refresh[r].since)]
    /\ UNCHANGED <<clock, row, call, run, facts, overtaken, missed, fresh, events>>

Rebuilt(t) == [version |-> run[t].version, spans |-> {s \in Stored : row[s].turn = t}]

RefreshEnds(r) ==
    /\ refresh[r].at = "touched"
    /\ fact' = [t \in Turns |-> IF t \in refresh[r].turns THEN Rebuilt(t) ELSE fact[t]]
    /\ mark' = refresh[r].until
    /\ refresh' = [refresh EXCEPT ![r] = Idle]
    /\ missed' = missed \ refresh[r].turns
    /\ fresh' = refresh[r].clean
    /\ UNCHANGED <<clock, row, call, run, overtaken, events>>

Next ==
    \/ \E b \in Batches : Post(b) \/ Commit(b) \/ Resolve(b) \/ Resolved(b) \/ Refused(b)
    \/ \E r \in Refreshers : RefreshBegins(r) \/ RefreshTouches(r) \/ RefreshEnds(r)
    \/ \E t \in Turns : RunBegins(t) \/ RunMoves(t)
    \/ Tick

Spec == Init /\ [][Next]_vars

(***************************************************************************)
(* Properties                                                              *)
(***************************************************************************)
\* Once every post is answered, each stored span has the turn and the session that
\* its whole trace gives it, in whatever order and overlap its batches came, any of
\* them again, and the run of its session is not its turn.  The exception is a row
\* that a resolve which had looked before a batch of the trace landed writes after
\* the last of the resolves has looked: nothing looks at that trace again.
ResolvedWhenQuiet ==
    (\A b \in Batches : call[b].at = "done") =>
        \A s \in Stored \ overtaken :
            /\ [turn |-> row[s].turn, session |-> row[s].session]
                  = ResolvedOf({x \in Stored : Trace[x] = Trace[s]}, s)
            /\ row[s].turn = row[s].session => row[s].turn = None

\* A refresh during which nothing is written leaves what a full rebuild would,
\* whatever the refreshes before it overlapped: retries, late parents, spans
\* resolved again, shared instants and other pages refreshing included.  The
\* exceptions are the turns whose last write left nothing of theirs as new as a
\* watermark already read, and that were not rebuilt since.  Three writes can: a run
\* row or a batch that commits after a refresh has read a watermark newer than its
\* stamp; a resolve that brings a span to a turn after a refresh has passed the
\* parent it got it from; and one that takes a span from a turn.
FactsEqualARebuild ==
    fresh => \A t \in Turns \ missed : fact[t] = Rebuilt(t)
=============================================================================
