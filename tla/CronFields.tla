----------------------------- MODULE CronFields -----------------------------
(***************************************************************************)
(* parseCron and matchesParts of packages/evestack-schedules/src/cron.ts,  *)
(* which the schedules page uses too.  A reading of a wall clock is a      *)
(* label: the minutes since an epoch, whatever the zone.  The calendar is  *)
(* scaled down and regular; that of the program is JavaScript's.           *)
(*                                                                         *)
(* An expression is five fields, a field a set of tokens [first, last,     *)
(* step] with Star for `*' and None for a part that is not written.        *)
(* Names, aliases and the refusals of other grammars are left out.         *)
(***************************************************************************)
EXTENDS Integers

CONSTANTS
    MinutesPerHour, HoursPerDay, DaysPerWeek, DaysPerMonth, MonthsPerYear,
    Star, None

ASSUME CalendarAssumption ==
    /\ {MinutesPerHour, HoursPerDay, DaysPerWeek, DaysPerMonth, MonthsPerYear} \subseteq Nat \ {0}
    /\ {Star, None} \cap Int = {} /\ Star # None

Token == [first : Nat \cup {Star}, last : Nat \cup {None}, step : Nat \cup {None}]
Expression ==
    [minute : SUBSET Token, hour : SUBSET Token, dom : SUBSET Token, month : SUBSET Token, dow : SUBSET Token]

MinutesPerDay == MinutesPerHour * HoursPerDay

MinuteOf(l) == l % MinutesPerHour
HourOf(l) == (l \div MinutesPerHour) % HoursPerDay
DayOfMonth(l) == 1 + ((l \div MinutesPerDay) % DaysPerMonth)
MonthOf(l) == 1 + ((l \div (MinutesPerDay * DaysPerMonth)) % MonthsPerYear)
DayOfWeek(l) == (l \div MinutesPerDay) % DaysPerWeek

\* parseField: a number with a step and no end runs to the end of the field.
Step(t) == IF t.step = None THEN 1 ELSE t.step
Lo(t, min) == IF t.first = Star THEN min ELSE t.first
Hi(t, max) ==
    IF t.first = Star \/ (t.last = None /\ t.step # None) THEN max
    ELSE IF t.last = None THEN t.first ELSE t.last

Parses(field, min, max) ==
    \A t \in field : Step(t) > 0 /\ min <= Lo(t, min) /\ Lo(t, min) <= Hi(t, max) /\ Hi(t, max) <= max

ParseField(field, min, max) ==
    UNION {{v \in Lo(t, min) .. Hi(t, max) : (v - Lo(t, min)) % Step(t) = 0} : t \in field}

Restricted(field) == \E t \in field : t.first # Star \/ Step(t) # 1

\* An expression parseCron does not throw on.
Accepts(e) ==
    /\ Parses(e.minute, 0, MinutesPerHour - 1) /\ Parses(e.hour, 0, HoursPerDay - 1)
    /\ Parses(e.dom, 1, DaysPerMonth) /\ Parses(e.month, 1, MonthsPerYear)
    /\ Parses(e.dow, 0, DaysPerWeek)

\* Sunday has two numbers.
ParseCron(e) ==
    [minutes |-> ParseField(e.minute, 0, MinutesPerHour - 1),
     hours |-> ParseField(e.hour, 0, HoursPerDay - 1),
     daysOfMonth |-> ParseField(e.dom, 1, DaysPerMonth),
     months |-> ParseField(e.month, 1, MonthsPerYear),
     daysOfWeek |-> {d % DaysPerWeek : d \in ParseField(e.dow, 0, DaysPerWeek)},
     bothDaysRestricted |-> Restricted(e.dom) /\ Restricted(e.dow)]

\* matchesParts, and matchesLabel of the page.
Matches(f, l) ==
    LET dom == DayOfMonth(l) \in f.daysOfMonth
        dow == DayOfWeek(l) \in f.daysOfWeek
    IN /\ MinuteOf(l) \in f.minutes /\ HourOf(l) \in f.hours /\ MonthOf(l) \in f.months
       /\ IF f.bothDaysRestricted THEN dom \/ dow ELSE dom /\ dow
=============================================================================
