\* One trace in three batches, posted in any order and overlap, one of them again; a
\* turn whose run row moves; a page that refreshes the facts twice.
SPECIFICATION Spec
CONSTANTS
    root = root
    outer = outer
    model = model
    flush = flush
    b1 = b1
    b2 = b2
    b3 = b3
    t1 = t1
    t2 = t2
    s1 = s1
    turn0 = turn0
    p1 = p1
    None = None
    Spans = {root, outer, model, flush}
    Batches = {b1, b2, b3}
    Turns = {t1, t2}
    Sessions = {s1}
    Alias = {turn0}
    Content <- ContentDef
    Parent <- ParentDef
    Declared <- DeclaredDef
    Session <- SessionDef
    RunId <- RunIdDef
    Trace <- TraceDef
    Refreshers = {p1}
    MaxTime = 1
    MaxEvents = 5
INVARIANTS TypeOK ResolvedWhenQuiet FactsEqualARebuild
CHECK_DEADLOCK FALSE
