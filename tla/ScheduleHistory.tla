--------------------------- MODULE ScheduleHistory ---------------------------
(***************************************************************************)
(* A schedule seen over days on which its zone changes its clock: eve      *)
(* fires it at the readings its expression asks for, tracked() records the *)
(* fires and replays those missed while the agent was down                 *)
(* (packages/evestack-schedules), and the page projects the next one from  *)
(* what is recorded (packages/dashboard/app/schedules).                    *)
(*                                                                         *)
(* The steps of tracked() and their faults are the subject of Schedules;   *)
(* here a fire, with the replay before it, is one step.                    *)
(***************************************************************************)
EXTENDS NextFire, Functions

CONSTANTS
    Expressions,  \* cron expressions
    AgentZones,   \* the zones the agent may live in
    Limit,        \* options.catchUpLimit
    Window,       \* options.catchUpWindowMs, in minutes
    MaxInstant,   \* bound: the last minute
    MaxOutages    \* bound: stops of the agent

ASSUME HistoryAssumption ==
    /\ AgentZones \subseteq Candidates /\ Expressions \subseteq Expression
    /\ {Limit, Window, MaxInstant, MaxOutages} \subseteq Nat

VARIABLES
    zone, cron,   \* where the agent lives, and its expression
    now,
    up, caughtUp, \* the agent runs; its wrapper has caught up
    rows,         \* evestack.schedule_runs: the recorded fire_at
    outages

vars == <<zone, cron, now, up, caughtUp, rows, outages>>

\* tracked() refuses an expression it cannot parse when it is loaded.
Init ==
    /\ zone \in AgentZones
    /\ cron \in {e \in Expressions : Accepts(e)}
    /\ now = 0 /\ up = TRUE /\ caughtUp = FALSE /\ rows = {} /\ outages = 0

Fields == ParseCron(cron)

\* Does the reading at i occur for the second time?
Repeated(i) == Instant(zone, Label(zone, i)) # i

\* replayMissed: from the last recorded fire, or the edge of the window, up to a
\* minute ago.
ReplayFrom(at) == Greatest({Greatest(rows), at - Window})
Missed(at) == MissedFires(zone, Fields, ReplayFrom(at), at - 1, Limit)
Replay(at) ==
    IF caughtUp \/ rows = {} THEN {} ELSE Range(Missed(at).fires)

\* eve fires at the readings asked for, once each, and once at the instant a
\* forward jump lands on for those it erased.
Fires(i) ==
    \/ Matches(Fields, Label(zone, i)) /\ ~Repeated(i)
    \/ Swallowed(zone, Fields, i - 1, i)

Minute ==
    /\ now < MaxInstant
    /\ now' = now + 1
    /\ IF up /\ Fires(now + 1)
         THEN rows' = rows \cup Replay(now + 1) \cup {now + 1} /\ caughtUp' = TRUE
         ELSE UNCHANGED <<rows, caughtUp>>
    /\ UNCHANGED <<zone, cron, up, outages>>

Stop ==
    /\ up /\ outages < MaxOutages
    /\ up' = FALSE /\ caughtUp' = FALSE /\ outages' = outages + 1
    /\ UNCHANGED <<zone, cron, now, rows>>

Start ==
    /\ ~up
    /\ up' = TRUE
    /\ UNCHANGED <<zone, cron, now, caughtUp, rows, outages>>

Next == Minute \/ Stop \/ Start

Spec == Init /\ [][Next]_vars

-----------------------------------------------------------------------------
(* What an expression asks for, from its grammar, and what is owed for it. *)

Means(t, min, max, v) ==
    \E n \in 0 .. max :
        /\ v = (IF t.first = Star THEN min ELSE t.first) + n * (IF t.step = None THEN 1 ELSE t.step)
        /\ t.first # Star /\ t.last # None => v <= t.last
        /\ t.first # Star /\ t.last = None /\ t.step = None => v = t.first

Asks(field, min, max, v) == \E t \in field : Means(t, min, max, v)
Plain(field) == \A t \in field : t.first = Star /\ (t.step = None \/ t.step = 1)

AskedFor(l) ==
    LET dom == Asks(cron.dom, 1, DaysPerMonth, DayOfMonth(l))
        dow == \/ Asks(cron.dow, 0, DaysPerWeek, DayOfWeek(l))
               \/ DayOfWeek(l) = 0 /\ Asks(cron.dow, 0, DaysPerWeek, DaysPerWeek)
    IN /\ Asks(cron.minute, 0, MinutesPerHour - 1, MinuteOf(l))
       /\ Asks(cron.hour, 0, HoursPerDay - 1, HourOf(l))
       /\ Asks(cron.month, 1, MonthsPerYear, MonthOf(l))
       /\ IF Plain(cron.dom) \/ Plain(cron.dow) THEN dom /\ dow ELSE dom \/ dow

\* The instant a forward jump lands on answers for what it erased.
Erased(i) == {l \in Label(zone, i - 1) + 1 .. Label(zone, i) - 1 : AskedFor(l)}
OwesErased(i) == Erased(i) # {} /\ ~AskedFor(Label(zone, i))
IsOwed(i) == (AskedFor(Label(zone, i)) /\ ~Repeated(i)) \/ OwesErased(i)
Owed(after, until) == {i \in after + 1 .. until : IsOwed(i)}

-----------------------------------------------------------------------------
(* Properties                                                              *)

\* The next minute is the far side of a forward jump.
Jumps(i) == OffsetOf(zone, i + 1) > OffsetOf(zone, i)

\* The fires a catch-up would replay now are the oldest of those owed since the
\* last record or the edge of the window, each once, and it says when it leaves
\* some over; and the next fire is the first one owed, or there is none within the
\* limit of a walk: on days the clock jumps over a reading asked for, on days it
\* repeats one, and on all the others.
\* The two exceptions are starts from the minute before a forward jump, whose
\* first step is not looked at, and from within a repeated hour, which
\* begin again with the hour.
RunnerFiresWhatIsOwed ==
    LET from == ReplayFrom(now)
        owed == Owed(from, now - 1)
        missed == Missed(now)
        next == NextFire(zone, Fields, now)
    IN /\ rows # {} /\ ~Jumps(from) /\ ~Repeated(from) =>
             /\ Range(missed.fires) = {i \in owed : Cardinality({j \in owed : j < i}) < Limit}
             /\ Len(missed.fires) <= Cardinality(owed)
             /\ missed.truncated = (Cardinality(owed) > Limit)
       /\ ~Jumps(now) /\ ~Repeated(now) =>
             IF next = None THEN Owed(now, now + WalkLimit) = {}
             ELSE next > now /\ IsOwed(next) /\ Owed(now, next - 1) = {}

\* A reading of the repeated hour that is asked for comes again after i.
ComesAgain(i) ==
    \E k \in i + 1 .. i + WalkLimit : (\A j \in i .. k : Repeated(j)) /\ AskedFor(Label(zone, k))

\* i is the edge of a repeated hour, in which a reading asked for came again.
BehindASpentReading(i) ==
    \E k \in now + 1 .. i - 1 : (\A j \in k - 1 .. i - 1 : Repeated(j)) /\ AskedFor(Label(zone, k))

\* A recorded fire that stands for an erased reading, and a zone which reads it
\* as one asked for: the narrowing has dropped the zone of the agent.
Misleads(i) == OwesErased(i) /\ ExplainedBack(Fields, rows, i)

\* What the page calls pinned is the agent's next fire, whatever zones the history
\* leaves standing and whatever they do until then: a wrong zone never passes for
\* established, a repeated reading for a fire, nor is one lost that an hour of
\* repeated readings puts off or a forward jump erased.
\* But a fire on the very edge of a repeated hour is passed over when a reading
\* asked for came again within the hour.  And it is not said within a repeated hour
\* with such a reading still to come, which the page takes for the next fire, nor
\* of a history that has misled it about the zone.
PinnedIsTheNextFire ==
    LET page == ProjectNextFire(Fields, rows, now)
    IN page.pinned /\ ~ComesAgain(now) /\ (\A i \in rows : ~Misleads(i)) =>
           /\ page.at \in now + 1 .. now + WalkLimit /\ IsOwed(page.at)
           /\ \A i \in Owed(now, page.at - 1) : BehindASpentReading(i)
=============================================================================
