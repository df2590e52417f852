\* Expressions of every kind of field in five zones, over three days on two
\* of which the clock changes; one outage.
SPECIFICATION Spec
CONSTANTS
    Star = Star
    None = None
    MinutesPerHour = 3
    HoursPerDay = 3
    DaysPerWeek = 3
    DaysPerMonth = 2
    MonthsPerYear = 2
    WalkLimit = 54
    MaxHops = 8
    Candidates <- ZonesDef
    AgentZones <- ZonesDef
    Expressions <- ExpressionsDef
    Limit = 2
    Window = 14
    MaxInstant = 25
    MaxOutages = 1
INVARIANTS RunnerFiresWhatIsOwed PinnedIsTheNextFire
CHECK_DEADLOCK FALSE
