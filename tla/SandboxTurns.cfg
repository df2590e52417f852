\* One session over three turns and two sandboxes, with or without the metadata
\* of an older version; two spellings of "no restriction" and a restriction; one
\* process with two kill() calls and an abort signal; two calls that fail.
SPECIFICATION Spec
CONSTANTS
    unset = unset
    allowAll = allowAll
    denyAll = denyAll
    k1 = k1
    k2 = k2
    Signal = Signal
    Policies = {unset, allowAll, denyAll}
    Unrestricted = {unset, allowAll}
    Unset = unset
    Killers = {k1, k2}
    MaxTurns = 3
    MaxBoxes = 2
    MaxFaults = 2
SYMMETRY Callers
INVARIANTS TypeOK WorkspaceIsKept EgressIsAsAsked WaitAndKillAgree
CHECK_DEADLOCK FALSE
