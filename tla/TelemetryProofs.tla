--------------------------- MODULE TelemetryProofs ---------------------------
(***************************************************************************)
(* For every number of batches, turns, pages that refresh and refreshes,   *)
(* whatever overlaps.  What a resolve computes from a part of a trace, the *)
(* whole trace does not take back, where spans declare their ids together; *)
(* a row that no overtaken resolve spoiled is right when all is quiet; and *)
(* the facts follow the rows, but for the turns that a write left out of   *)
(* sight of the watermarks.                                                *)
(***************************************************************************)
EXTENDS Telemetry, WellFoundedInduction, TLAPS

Resolution == [turn : Ids, session : Sessions \cup {None}]
Held(s) == [turn |-> row[s].turn, session |-> row[s].session]
Nothing == [turn |-> None, session |-> None]

-----------------------------------------------------------------------------
(* The way up.  A span inherits along its parents, a recursion that ends   *)
(* because no span is above itself: that the function Inherited speaks of  *)
(* exists takes an induction, from the spans whose parent is elsewhere.    *)

LEMMA UpwardInduction ==
    ASSUME NEW S \in SUBSET Spans, NEW G,
           \A s \in S : (Parent[s] \in S => Parent[s] \in G) => s \in G
    PROVE  S \subseteq G
<1> SUFFICES ASSUME S \ G # {} PROVE FALSE
  OBVIOUS
<1>1. S \ G \in (SUBSET Spans) \ {{}}
  OBVIOUS
<1>2. PICK s \in S \ G : Parent[s] \notin S \ G
  BY <1>1, TelemetryAssumption
<1> QED
  BY <1>2

\* What a table of the way up holds for s, and a table for the part D of S.
UpAt(g, S, own, s) ==
    IF own[s] # None THEN own[s]
    ELSE IF Parent[s] \in S THEN g[Parent[s]] ELSE None
IsUp(g, D, S, own) == g = [s \in D |-> UpAt(g, S, own, s)]

\* D holds the way up of each of its spans.
WithParents(D, S) == D \subseteq S /\ \A s \in D : Parent[s] \in S => Parent[s] \in D

LEMMA UpValue ==
    ASSUME NEW g, NEW D, NEW S, NEW own, IsUp(g, D, S, own), NEW s \in D
    PROVE  g[s] = UpAt(g, S, own, s)
<1> DEFINE at(x) == UpAt(g, S, own, x)
<1>1. g = [x \in D |-> at(x)]
  BY Zenon DEF IsUp
<1> HIDE DEF at
<1>2. g[s] = at(s)
  BY <1>1
<1> QED
  BY <1>2 DEF at

LEMMA UpUnique ==
    ASSUME NEW S \in SUBSET Spans, NEW own, NEW C, NEW D, NEW g, NEW h,
           WithParents(C, S), WithParents(D, S), IsUp(g, C, S, own), IsUp(h, D, S, own)
    PROVE  \A s \in C \cap D : g[s] = h[s]
<1> DEFINE G == {s \in C \cap D : g[s] = h[s]}
<1>1. C \cap D \in SUBSET Spans
  BY DEF WithParents
<1>2. ASSUME NEW s \in C \cap D, Parent[s] \in C \cap D => Parent[s] \in G
      PROVE  s \in G
  <2>1. g[s] = UpAt(g, S, own, s) /\ h[s] = UpAt(h, S, own, s)
    BY UpValue
  <2>2. Parent[s] \in S => g[Parent[s]] = h[Parent[s]]
    BY <1>2 DEF WithParents
  <2>3. UpAt(g, S, own, s) = UpAt(h, S, own, s)
    BY <2>2 DEF UpAt
  <2> QED
    BY <2>1, <2>3
<1> HIDE DEF G
<1>3. C \cap D \subseteq G
  BY <1>1, <1>2, UpwardInduction
<1> QED
  BY <1>3 DEF G

\* Some part of S with s in it has a table.
HasUp(s, D, S, own) == s \in D /\ WithParents(D, S) /\ \E g : IsUp(g, D, S, own)

LEMMA UpReaches ==
    ASSUME NEW S \in SUBSET Spans, NEW own
    PROVE  \A s \in S : \E D : HasUp(s, D, S, own)
<1> DEFINE G == {s \in S : \E D : HasUp(s, D, S, own)}
<1>1. ASSUME NEW s \in S, Parent[s] \in S => Parent[s] \in G
      PROVE  s \in G
  <2>1. PICK D, g : /\ WithParents(D, S) /\ IsUp(g, D, S, own)
                    /\ Parent[s] \in S => Parent[s] \in D
    <3>1. CASE Parent[s] \in S
      <4>1. PICK D : HasUp(Parent[s], D, S, own)
        BY <1>1, <3>1
      <4> QED
        BY <4>1 DEF HasUp
    <3>2. CASE Parent[s] \notin S
      <4>1. WithParents({}, S)
        BY DEF WithParents
      <4>2. IsUp([x \in {} |-> None], {}, S, own)
        BY DEF IsUp
      <4> QED
        BY <3>2, <4>1, <4>2
    <3> QED
      BY <3>1, <3>2
  <2>2. CASE s \in D
    BY <2>1, <2>2 DEF HasUp
  <2>3. CASE s \notin D
    <3> DEFINE E == D \cup {s}
               h == [x \in E |-> IF x = s THEN UpAt(g, S, own, s) ELSE g[x]]
    <3>1. WithParents(E, S)
      BY <2>1 DEF WithParents
    <3>2. \A x \in D : h[x] = g[x]
      BY <2>3
    <3>3. ASSUME NEW x \in E PROVE h[x] = UpAt(h, S, own, x)
      <4>1. Parent[x] \in S => Parent[x] \in D
        BY <2>1 DEF WithParents
      <4>2. UpAt(h, S, own, x) = UpAt(g, S, own, x)
        <5> HIDE DEF h
        <5> QED
          BY <3>2, <4>1 DEF UpAt
      <4>3. x = s => h[x] = UpAt(g, S, own, x)
        OBVIOUS
      <4>4. x # s => h[x] = UpAt(g, S, own, x)
        <5> HAVE x # s
        <5>1. x \in D /\ h[x] = g[x]
          OBVIOUS
        <5> HIDE DEF h
        <5> QED
          BY <2>1, <5>1, UpValue
      <4> HIDE DEF h
      <4> QED
        BY <4>2, <4>3, <4>4
    <3>4. IsUp(h, E, S, own)
      <4>1. h = [x \in E |-> h[x]]
        OBVIOUS
      <4> HIDE DEF h
      <4> QED
        BY <3>3, <4>1 DEF IsUp
    <3> HIDE DEF h
    <3> QED
      BY <3>1, <3>4 DEF HasUp
  <2> QED
    BY <2>2, <2>3
<1> HIDE DEF G
<1>2. S \subseteq G
  BY <1>1, UpwardInduction
<1> QED
  BY <1>2 DEF G

LEMMA UpExists ==
    ASSUME NEW S \in SUBSET Spans, NEW own
    PROVE  \E up : IsUp(up, S, S, own)
<1> DEFINE D(s) == CHOOSE D : HasUp(s, D, S, own)
           g(s) == CHOOSE g : IsUp(g, D(s), S, own)
           up == [s \in S |-> g(s)[s]]
<1>1. ASSUME NEW s \in S
      PROVE  s \in D(s) /\ WithParents(D(s), S) /\ IsUp(g(s), D(s), S, own)
  <2>1. HasUp(s, D(s), S, own)
    BY UpReaches, Zenon
  <2> HIDE DEF D
  <2> QED
    BY <2>1, Zenon DEF HasUp
<1>2. \A s \in S : up[s] = g(s)[s]
  OBVIOUS
<1>3. ASSUME NEW s \in S PROVE up[s] = UpAt(up, S, own, s)
  <2> HIDE DEF D, g, up
  <2>1. up[s] = UpAt(g(s), S, own, s)
    BY <1>1, <1>2, UpValue
  <2>2. ASSUME Parent[s] \in S PROVE g(s)[Parent[s]] = up[Parent[s]]
    <3>1. Parent[s] \in D(s) \cap D(Parent[s])
      BY <1>1, <2>2 DEF WithParents
    <3>2. PICK C, E, h, k : C = D(s) /\ E = D(Parent[s]) /\ h = g(s) /\ k = g(Parent[s])
      OBVIOUS
    <3>3. WithParents(C, S) /\ WithParents(E, S) /\ IsUp(h, C, S, own) /\ IsUp(k, E, S, own)
      BY <1>1, <2>2, <3>2
    <3>4. \A x \in C \cap E : h[x] = k[x]
      BY <3>3, UpUnique
    <3>5. g(s)[Parent[s]] = g(Parent[s])[Parent[s]]
      BY <3>1, <3>2, <3>4
    <3> QED
      BY <1>2, <2>2, <3>5
  <2> QED
    BY <2>1, <2>2 DEF UpAt
<1>4. up = [s \in S |-> up[s]]
  OBVIOUS
<1> HIDE DEF up
<1> QED
  BY <1>3, <1>4 DEF IsUp

\* The walk does what its recursion says.
LEMMA InheritedIs ==
    ASSUME NEW S \in SUBSET Spans, NEW own
    PROVE  /\ IsUp(Inherited(S, own), S, S, own)
           /\ \A s \in S : Inherited(S, own)[s] = UpAt(Inherited(S, own), S, own, s)
<1>1. Inherited(S, own) = CHOOSE up : IsUp(up, S, S, own)
  BY Zenon DEF Inherited, IsUp, UpAt
<1>2. IsUp(Inherited(S, own), S, S, own)
  BY <1>1, UpExists, Zenon
<1> QED
  BY <1>2, UpValue

LEMMA InheritedTyped ==
    ASSUME NEW S \in SUBSET Spans, NEW V, NEW own \in [Spans -> V \cup {None}]
    PROVE  \A s \in S : Inherited(S, own)[s] \in V \cup {None}
<1> DEFINE G == {s \in S : Inherited(S, own)[s] \in V \cup {None}}
<1>1. ASSUME NEW s \in S, Parent[s] \in S => Parent[s] \in G
      PROVE  s \in G
  <2>1. Inherited(S, own)[s] = UpAt(Inherited(S, own), S, own, s)
    BY InheritedIs
  <2>2. Parent[s] \in S => Inherited(S, own)[Parent[s]] \in V \cup {None}
    BY <1>1
  <2>3. own[s] \in V \cup {None}
    OBVIOUS
  <2> QED
    BY <2>1, <2>2, <2>3 DEF UpAt
<1> HIDE DEF G
<1>2. S \subseteq G
  BY <1>1, UpwardInduction
<1> QED
  BY <1>2 DEF G

\* What a span has inherited it keeps, however many spans are found above it.
LEMMA InheritedStays ==
    ASSUME NEW T \in SUBSET Spans, NEW S \in SUBSET T, NEW own
    PROVE  \A s \in S : Inherited(S, own)[s] # None =>
              Inherited(T, own)[s] = Inherited(S, own)[s]
<1> DEFINE up(R) == Inherited(R, own)
           G == {s \in S : up(S)[s] # None => up(T)[s] = up(S)[s]}
<1>0. S \in SUBSET Spans
  OBVIOUS
<1>1. ASSUME NEW s \in S, Parent[s] \in S => Parent[s] \in G
      PROVE  s \in G
  <2>1. /\ up(S)[s] = UpAt(up(S), S, own, s)
        /\ up(T)[s] = UpAt(up(T), T, own, s)
    BY <1>0, InheritedIs
  <2>2. Parent[s] \in S => (up(S)[Parent[s]] # None => up(T)[Parent[s]] = up(S)[Parent[s]])
    BY <1>1
  <2> HIDE DEF up
  <2>3. CASE own[s] # None
    BY <2>1, <2>3 DEF UpAt
  <2>4. CASE own[s] = None /\ Parent[s] \in S
    BY <2>1, <2>2, <2>4 DEF UpAt
  <2>5. CASE own[s] = None /\ Parent[s] \notin S
    BY <2>1, <2>5 DEF UpAt
  <2> QED
    BY <2>3, <2>4, <2>5
<1> HIDE DEF G
<1>2. S \subseteq G
  BY <1>0, <1>1, UpwardInduction
<1> QED
  BY <1>2 DEF G

\* resolve_span_ancestry, "this can only fill a join that was empty; it cannot move one
\* that worked": a span that a part of its trace gives a run, and a session, gets the
\* same from all of it.
THEOREM RunsStand ==
    ASSUME NEW T \in SUBSET Spans, NEW S \in SUBSET T, NEW s \in S,
           TurnOf(S, s) \in Turns \cup Sessions, Inherited(S, Session)[s] # None
    PROVE  ResolvedOf(T, s) = ResolvedOf(S, s)
<1> DEFINE tid(R) == Inherited(R, Declared)[s]
           rid(R) == Inherited(R, RunId)[s]
           sid(R) == Inherited(R, Session)[s]
<1>1. \A R : TurnOf(R, s) =
               IF tid(R) \in Alias /\ rid(R) # None /\ rid(R) # sid(R) THEN rid(R) ELSE tid(R)
  BY DEF TurnOf
<1>2. /\ tid(S) # None => tid(T) = tid(S)
      /\ rid(S) # None => rid(T) = rid(S)
      /\ sid(S) # None => sid(T) = sid(S)
  BY InheritedStays
<1>3. None \notin Turns \cup Sessions /\ (Turns \cup Sessions) \cap Alias = {}
  BY TelemetryAssumption
<1>4. sid(T) = sid(S)
  BY <1>2
<1> HIDE DEF tid, rid, sid
<1>5. TurnOf(T, s) = TurnOf(S, s)
  <2>1. CASE tid(S) \in Alias /\ rid(S) # None /\ rid(S) # sid(S)
    <3>1. tid(T) = tid(S) /\ rid(T) = rid(S)
      BY <1>2, <2>1, TelemetryAssumption
    <3> QED
      BY <1>1, <1>4, <2>1, <3>1
  <2>2. CASE ~(tid(S) \in Alias /\ rid(S) # None /\ rid(S) # sid(S))
    <3>1. tid(S) \in Turns \cup Sessions
      BY <1>1, <2>2
    <3>2. tid(T) = tid(S) /\ tid(T) \notin Alias
      BY <1>2, <1>3, <3>1
    <3> QED
      BY <1>1, <2>2, <3>2
  <2> QED
    BY <2>1, <2>2
<1> QED
  BY <1>4, <1>5 DEF ResolvedOf, sid

\* Spans that declare a turn declare the session as well.
DeclaredTogether == \A s \in Spans : Declared[s] # None => Session[s] # None

LEMMA TurnNeedsSession ==
    ASSUME DeclaredTogether, NEW S \in SUBSET Spans, NEW s \in S, TurnOf(S, s) # None
    PROVE  Inherited(S, Session)[s] # None
<1> DEFINE G == {x \in S : Inherited(S, Declared)[x] # None => Inherited(S, Session)[x] # None}
<1>1. ASSUME NEW x \in S, Parent[x] \in S => Parent[x] \in G
      PROVE  x \in G
  <2>1. /\ Inherited(S, Declared)[x] = UpAt(Inherited(S, Declared), S, Declared, x)
        /\ Inherited(S, Session)[x] = UpAt(Inherited(S, Session), S, Session, x)
    BY InheritedIs
  <2>2. Declared[x] # None => Session[x] # None
    BY DEF DeclaredTogether
  <2>3. Parent[x] \in S =>
          (Inherited(S, Declared)[Parent[x]] # None => Inherited(S, Session)[Parent[x]] # None)
    BY <1>1
  <2> QED
    BY <2>1, <2>2, <2>3 DEF UpAt
<1> HIDE DEF G
<1>2. S \subseteq G
  BY <1>1, UpwardInduction
<1>3. None \notin Alias
  BY TelemetryAssumption
<1>4. Inherited(S, Declared)[s] # None
  BY <1>3 DEF TurnOf
<1> QED
  BY <1>2, <1>4 DEF G

LEMMA ResolvedTyped ==
    ASSUME NEW S \in SUBSET Spans, NEW s \in S
    PROVE  /\ ResolvedOf(S, s) \in Resolution
           /\ ResolvedOf(S, s).turn = ResolvedOf(S, s).session => ResolvedOf(S, s).turn = None
<1>1. /\ Declared \in [Spans -> (Turns \cup Alias) \cup {None}]
      /\ RunId \in [Spans -> (Turns \cup Sessions) \cup {None}]
      /\ Session \in [Spans -> Sessions \cup {None}]
      /\ Turns \cap Sessions = {} /\ (Turns \cup Sessions) \cap Alias = {}
  BY TelemetryAssumption
<1>2. Inherited(S, Declared)[s] \in (Turns \cup Alias) \cup {None}
  BY <1>1, InheritedTyped
<1>3. Inherited(S, RunId)[s] \in (Turns \cup Sessions) \cup {None}
  BY <1>1, InheritedTyped
<1>4. Inherited(S, Session)[s] \in Sessions \cup {None}
  BY <1>1, InheritedTyped
<1>5. TurnOf(S, s) \in Ids
  BY <1>2, <1>3 DEF TurnOf, Ids
<1>6. TurnOf(S, s) = Inherited(S, Session)[s] => TurnOf(S, s) = None
  BY <1>1, <1>2, <1>4 DEF TurnOf
<1> QED
  BY <1>4, <1>5, <1>6 DEF ResolvedOf, Resolution
-----------------------------------------------------------------------------
(* Types.                                                                  *)

LEMMA ClockIsBounded == MaxTime \in Nat
  BY TelemetryAssumption

USE ClockIsBounded DEF Never, Time

Instants == Time \cup {Never}
Marks == [runs : Instants, spans : Instants]
Plans == UNION {[P -> Resolution] : P \in SUBSET Spans}
Calls == [at : {"unsent", "writing", "stored", "resolving", "done"}, began : Time,
          plan : Plans, late : BOOLEAN]
Runs == [at : Time, version : 0 .. 1, began : Instants]
Refreshes == [at : {"idle", "read", "touched"}, since : Marks, until : Marks,
              turns : SUBSET Turns, clean : BOOLEAN]

RowType == row \in [Spans -> [at : Instants, turn : Ids, session : Sessions \cup {None}]]
CallType == call \in [Batches -> Calls]
RunType == run \in [Turns -> Runs]
FactType == fact \in [Turns -> [version : -1 .. 1, spans : SUBSET Spans]]
RefreshType == refresh \in [Refreshers -> Refreshes]
Rest ==
    /\ clock \in Time /\ mark \in Marks /\ fresh \in BOOLEAN
    /\ overtaken \subseteq Spans /\ missed \subseteq Turns
    /\ events \in 0 .. MaxEvents

Typed == RowType /\ CallType /\ RunType /\ FactType /\ RefreshType /\ Rest

LEMMA PlanIs ==
    ASSUME NEW P \in SUBSET Spans, NEW f, f = [s \in P |-> f[s]],
           \A s \in P : f[s] \in Resolution
    PROVE  f \in Plans
<1>1. f \in [P -> Resolution]
  OBVIOUS
<1> QED
  BY <1>1 DEF Plans

LEMMA PlanHas ==
    ASSUME NEW f \in Plans
    PROVE  DOMAIN f \subseteq Spans /\ \A s \in DOMAIN f : f[s] \in Resolution
  BY DEF Plans

LEMMA NoPlanTyped == NoPlan \in Plans /\ Unsent \in Calls
<1>1. NoPlan \in [{} -> Resolution]
  BY DEF NoPlan
<1>2. NoPlan \in Plans
  BY <1>1 DEF Plans
<1>3. 0 \in Time
  OBVIOUS
<1> QED
  BY <1>2, <1>3 DEF Unsent, Calls

LEMMA PlanTyped ==
    ASSUME NEW b \in Batches, NEW S \in SUBSET Spans
    PROVE  /\ Plan(b, S) \in Plans
           /\ DOMAIN Plan(b, S) \subseteq S \cap InTrace(b)
           /\ \A s \in S \cap InTrace(b) :
                 IF s \in DOMAIN Plan(b, S)
                 THEN Plan(b, S)[s] = ResolvedOf(S \cap InTrace(b), s)
                 ELSE Held(s) = ResolvedOf(S \cap InTrace(b), s)
<1> DEFINE seen == S \cap InTrace(b)
           new == [s \in seen |-> ResolvedOf(seen, s)]
           P == {x \in seen : new[x] # Held(x)}
           f == [s \in P |-> new[s]]
<1>1. Plan(b, S) = f
  BY DEF Plan, Held
<1>2. \A s \in seen : new[s] = ResolvedOf(seen, s)
  OBVIOUS
<1>3. \A s \in seen : new[s] \in Resolution
  BY <1>2, ResolvedTyped
<1>4. P \in SUBSET seen /\ seen \in SUBSET Spans
  OBVIOUS
<1>5. DOMAIN f = P /\ \A s \in P : f[s] = new[s]
  OBVIOUS
<1>6. f = [s \in P |-> f[s]]
  OBVIOUS
<1>7. f \in Plans
  <2> HIDE DEF f, new
  <2>1. \A s \in P : f[s] \in Resolution
    BY <1>3, <1>5
  <2> HIDE DEF P
  <2> QED
    BY <1>4, <1>6, <2>1, PlanIs
<1>8. \A s \in seen : IF s \in P THEN f[s] = ResolvedOf(seen, s)
                      ELSE Held(s) = ResolvedOf(seen, s)
  <2> HIDE DEF f, new
  <2> QED
    BY <1>2, <1>5
<1> HIDE DEF f
<1> QED
  BY <1>1, <1>4, <1>5, <1>7, <1>8

LEMMA RowsTyped ==
    ASSUME Typed, NEW b \in Batches, NEW C \in SUBSET Spans, row' = Rows(b, C)
    PROVE  /\ RowType'
           /\ Stored' = Stored \cup C
           /\ \A s \in DOMAIN call[b].plan : Held(s)' = call[b].plan[s]
           /\ \A s \in Spans \ DOMAIN call[b].plan : Held(s)' = Held(s)
           /\ \A s \in Spans \ (C \cup DOMAIN call[b].plan) : row'[s] = row[s]
<1> DEFINE plan == call[b].plan
           at(s) == IF s \in C THEN call[b].began ELSE row[s].at
           turn(s) == IF s \in DOMAIN plan THEN plan[s].turn ELSE row[s].turn
           session(s) == IF s \in DOMAIN plan THEN plan[s].session ELSE row[s].session
<1>1. plan \in Plans /\ call[b].began \in Time
  BY DEF Typed, CallType, Calls
<1>2. DOMAIN plan \subseteq Spans /\ \A s \in DOMAIN plan : plan[s] \in Resolution
  BY <1>1, PlanHas
<1>3. row' = [s \in Spans |-> [at |-> at(s), turn |-> turn(s), session |-> session(s)]]
  BY DEF Rows
<1>0. /\ row' = [s \in Spans |-> row'[s]]
      /\ \A s \in Spans : /\ row'[s] = [at |-> at(s), turn |-> turn(s), session |-> session(s)]
                            /\ row'[s].at = at(s) /\ row'[s].turn = turn(s)
                            /\ row'[s].session = session(s)
  <2> HIDE DEF at, turn, session, plan
  <2> QED
    BY <1>3
<1>5. \A s \in Spans : row[s] \in [at : Instants, turn : Ids, session : Sessions \cup {None}]
  BY DEF Typed, RowType
<1>6. \A s \in DOMAIN plan : /\ plan[s].turn \in Ids /\ plan[s].session \in Sessions \cup {None}
                              /\ plan[s] = [turn |-> plan[s].turn, session |-> plan[s].session]
  BY <1>2 DEF Resolution
<1> HIDE DEF plan
<1>7. RowType'
  <2>1. \A s \in Spans : /\ at(s) \in Instants /\ turn(s) \in Ids
                          /\ session(s) \in Sessions \cup {None}
    BY <1>1, <1>5, <1>6 DEF Instants
  <2> HIDE DEF at, turn, session
  <2>2. \A s \in Spans : row'[s] \in [at : Instants, turn : Ids, session : Sessions \cup {None}]
    BY <1>0, <2>1
  <2> QED
    BY <1>0, <2>2 DEF RowType
<1>8. Stored' = Stored \cup C
  <2>1. \A s \in C : row'[s].at # Never
    BY <1>0, <1>1
  <2>2. \A s \in Spans \ C : row'[s].at = row[s].at
    BY <1>0
  <2>3. \A s \in Stored : row'[s].at # Never
    BY <2>1, <2>2 DEF Stored
  <2> QED
    BY <2>1, <2>2, <2>3 DEF Stored
<1>9. \A s \in DOMAIN plan : Held(s)' = plan[s]
  BY <1>0, <1>2, <1>6 DEF Held
<1>10. \A s \in Spans \ DOMAIN plan : Held(s)' = Held(s)
  BY <1>0 DEF Held
<1>11. \A s \in Spans \ (C \cup DOMAIN plan) : row'[s] = row[s]
  <2> SUFFICES ASSUME NEW s \in Spans \ (C \cup DOMAIN plan) PROVE row'[s] = row[s]
    OBVIOUS
  <2>1. row'[s] = [at |-> row[s].at, turn |-> row[s].turn, session |-> row[s].session]
    BY <1>0
  <2> QED
    BY <1>5, <2>1
<1> QED
  BY <1>7, <1>8, <1>9, <1>10, <1>11 DEF plan
-----------------------------------------------------------------------------
(* The newest of some instants.                                            *)

LEMMA NewestIsNewest ==
    ASSUME NEW S \in SUBSET Time
    PROVE  /\ Newest(S) \in Time \cup {Never}
           /\ S = {} => Newest(S) = Never
           /\ S # {} => Newest(S) \in S
           /\ \A y \in S : y <= Newest(S)
<1>1. CASE S = {}
  BY <1>1 DEF Newest
<1>2. CASE S # {}
  <2> DEFINE Left == {MaxTime - x : x \in S}
  <2>1. Left \subseteq Nat /\ Left # {}
    <3>1. \A x \in S : x \in Int /\ MaxTime - x \in Nat
      OBVIOUS
    <3> QED
      BY <1>2, <3>1
  <2>2. PICK d \in Left : \A e \in Left : <<e, d>> \notin OpToRel(<, Nat)
    <3> HIDE DEF Left
    <3> QED
      BY <2>1, NatLessThanWellFounded, WFMin
  <2>3. \A e \in Left : d <= e
    <3> HIDE DEF Left
    <3> SUFFICES ASSUME NEW e \in Left, e < d PROVE FALSE
      BY <2>1
    <3>1. <<e, d>> \in Nat \X Nat
      BY <2>1
    <3> QED
      BY <2>2, <3>1 DEF OpToRel
  <2>4. PICK x \in S : d = MaxTime - x
    OBVIOUS
  <2>5. \A y \in S : y <= x
    <3> SUFFICES ASSUME NEW y \in S PROVE y <= x
      OBVIOUS
    <3>1. MaxTime - x <= MaxTime - y
      BY <2>3, <2>4
    <3>2. x \in Int /\ y \in Int
      OBVIOUS
    <3> QED
      BY <3>1, <3>2
  <2>6. Newest(S) = CHOOSE z \in S : \A y \in S : y <= z
    BY <1>2 DEF Newest
  <2>7. Newest(S) \in S /\ \A y \in S : y <= Newest(S)
    <3> HIDE DEF Left
    <3> QED
      BY <2>5, <2>6
  <2>8. S \subseteq Time \cup {Never}
    OBVIOUS
  <2> QED
    BY <1>2, <2>7, <2>8
<1> QED
  BY <1>1, <1>2

LEMMA WatermarksTyped == ASSUME Typed PROVE Watermarks \in Marks
<1> DEFINE R == {run[t].at : t \in Turns}
           S == {row[s].at : s \in Stored}
<1>1. \A t \in Turns : run[t].at \in Time
  BY DEF Typed, RunType, Runs
<1>2. \A s \in Stored : row[s].at \in Time
  BY DEF Typed, RowType, Stored, Instants
<1>3. R \in SUBSET Time /\ S \in SUBSET Time
  BY <1>1, <1>2
<1> HIDE DEF R, S
<1>4. Newest(R) \in Instants /\ Newest(S) \in Instants
  BY <1>3, NewestIsNewest DEF Instants
<1>5. Watermarks = [runs |-> Newest(R), spans |-> Newest(S)]
  BY DEF Watermarks, R, S
<1> QED
  BY <1>4, <1>5 DEF Marks

-----------------------------------------------------------------------------
(* Every step keeps the types.                                             *)

LEMMA EventTyped == ASSUME Rest, Event PROVE events' \in 0 .. MaxEvents
<1>1. MaxEvents \in Nat
  BY TelemetryAssumption
<1> QED
  BY <1>1 DEF Rest, Event

LEMMA InitTyped == Init => Typed
<1> SUFFICES ASSUME Init PROVE Typed
  OBVIOUS
<1> USE DEF Init
<1>1. Never \in Instants /\ 0 \in Time /\ None \in Ids /\ NoMark \in Marks
  BY DEF Instants, Ids, NoMark, Marks
<1>2. RowType /\ RunType /\ FactType
  BY <1>1 DEF RowType, RunType, Runs, FactType, Instants
<1>3. CallType
  BY NoPlanTyped DEF CallType
<1>4. RefreshType
  BY <1>1 DEF RefreshType, Refreshes, Idle
<1>5. Rest
  <2>1. MaxEvents \in Nat
    BY TelemetryAssumption
  <2>2. 0 \in 0 .. MaxEvents
    BY <2>1
  <2>3. clock \in Time /\ mark \in Marks /\ fresh \in BOOLEAN
    BY <1>1
  <2> QED
    BY <2>2, <2>3 DEF Rest
<1> QED
  BY <1>2, <1>3, <1>4, <1>5 DEF Typed

LEMMA CallTyped ==
    ASSUME Typed, NEW b \in Batches, Post(b) \/ Commit(b) \/ Resolve(b) \/ Resolved(b) \/ Refused(b)
    PROVE  CallType'
<1>0. Unsent \in Calls /\ clock \in Time /\ \A c \in Batches : call[c] \in Calls
  BY NoPlanTyped DEF Typed, CallType, Rest
<1>1. \A x \in Calls, P \in Plans, at \in {"unsent", "writing", "stored", "resolving", "done"} :
         /\ [x EXCEPT !.at = at, !.plan = P] \in Calls
         /\ [x EXCEPT !.at = at, !.began = clock, !.plan = P] \in Calls
  BY <1>0 DEF Calls
<1>2. Content[b] \subseteq Spans /\ Stored \subseteq Spans
  BY TelemetryAssumption DEF Stored
<1>3. Plan(b, Stored \cup Content[b]) \in Plans /\ Plan(b, Stored) \in Plans
  BY <1>2, PlanTyped
<1>4. CASE Post(b)
  <2>1. [Unsent EXCEPT !.at = "writing", !.began = clock,
                       !.plan = Plan(b, Stored \cup Content[b])] \in Calls
    BY <1>0, <1>1, <1>3
  <2> QED
    BY <1>4, <2>1 DEF Post, Typed, CallType
<1>5. CASE Commit(b)
  <2>1. \A c \in Batches : call'[c] \in Calls
    <3> SUFFICES ASSUME NEW c \in Batches PROVE call'[c] \in Calls
      OBVIOUS
    <3>1. CASE c = b
      <4>1. call'[c] = [Unsent EXCEPT !.at = "stored"]
        BY <1>5, <3>1 DEF Commit
      <4> QED
        BY <1>0, <4>1 DEF Calls
    <3>2. CASE c # b
      <4>1. call'[c] = [call[c] EXCEPT !.late = @ \/ (call[c].at = "resolving" /\ Beside(c, b))]
        BY <1>5, <3>2 DEF Commit
      <4>2. PICK x \in Calls : x = call[c]
        BY <1>0
      <4>3. PICK late \in BOOLEAN : late = (x.late \/ (x.at = "resolving" /\ Beside(c, b)))
        OBVIOUS
      <4>4. call'[c] = [x EXCEPT !.late = late]
        BY <4>1, <4>2, <4>3
      <4> QED
        BY <4>4 DEF Calls
    <3> QED
      BY <3>1, <3>2
  <2>2. call' = [c \in Batches |-> call'[c]]
    BY <1>5 DEF Commit
  <2> QED
    BY <2>1, <2>2 DEF CallType
<1>6. CASE Resolve(b)
  <2>1. call' = [call EXCEPT ![b] = [call[b] EXCEPT !.at = "resolving", !.plan = Walk(b)]]
    BY <1>6 DEF Resolve, Typed, CallType
  <2>2. [call[b] EXCEPT !.at = "resolving", !.plan = Walk(b)] \in Calls
    BY <1>0, <1>1, <1>3 DEF Walk
  <2> QED
    BY <2>1, <2>2 DEF Typed, CallType
<1>7. CASE Resolved(b) \/ Refused(b)
  <2>1. Unsent \in Calls /\ [Unsent EXCEPT !.at = "done"] \in Calls
    BY <1>0 DEF Calls
  <2> QED
    BY <1>7, <2>1 DEF Resolved, Refused, Typed, CallType
<1> QED
  BY <1>4, <1>5, <1>6, <1>7

LEMMA WrittenTyped ==
    ASSUME Typed, Written
    PROVE  /\ RefreshType' /\ missed' \subseteq Turns /\ fresh' = FALSE
           /\ \A r \in Refreshers : /\ refresh'[r].at = refresh[r].at
                                     /\ refresh'[r].since = refresh[r].since
                                     /\ refresh'[r].until = refresh[r].until
                                     /\ refresh'[r].turns = refresh[r].turns
                                     /\ refresh'[r].clean = FALSE
<1>1. \A r \in Refreshers : /\ refresh[r] \in Refreshes
                             /\ refresh'[r] = [refresh[r] EXCEPT !.clean = FALSE]
  BY DEF Typed, RefreshType, Written
<1>2. \A r \in Refreshers : refresh'[r] \in Refreshes
  BY <1>1 DEF Refreshes
<1>3. refresh' = [r \in Refreshers |-> refresh'[r]]
  BY DEF Written
<1>4. RefreshType'
  BY <1>2, <1>3 DEF RefreshType
<1>5. \A r \in Refreshers : /\ refresh'[r].at = refresh[r].at
                             /\ refresh'[r].since = refresh[r].since
                             /\ refresh'[r].until = refresh[r].until
                             /\ refresh'[r].turns = refresh[r].turns
                             /\ refresh'[r].clean = FALSE
  BY <1>1 DEF Refreshes
<1> QED
  BY <1>4, <1>5 DEF Written

LEMMA StepTyped == ASSUME Typed, [Next]_vars PROVE Typed'
<1> USE DEF Typed
<1>1. ASSUME NEW b \in Batches, Post(b) PROVE Typed'
  <2>1. UNCHANGED <<clock, row, run, fact, mark, refresh, overtaken, missed, fresh>> /\ Event
    BY <1>1 DEF Post, facts
  <2>2. CallType'
    BY <1>1, CallTyped
  <2>3. events' \in 0 .. MaxEvents
    BY <2>1, EventTyped
  <2>4. Rest'
    BY <2>1, <2>3 DEF Rest
  <2>5. RowType' /\ RunType' /\ FactType' /\ RefreshType'
    BY <2>1 DEF RowType, RunType, FactType, RefreshType
  <2> QED
    BY <2>2, <2>4, <2>5
<1>2. ASSUME NEW b \in Batches, Commit(b) PROVE Typed'
  <2>1. /\ UNCHANGED <<clock, run, fact, mark, overtaken, events>> /\ Written
        /\ row' = Rows(b, Content[b])
    BY <1>2 DEF Commit, facts
  <2>2. CallType' /\ RefreshType' /\ missed' \subseteq Turns /\ fresh' = FALSE
    BY <1>2, <2>1, CallTyped, WrittenTyped
  <2>3. Content[b] \in SUBSET Spans
    BY TelemetryAssumption
  <2>4. RowType'
    BY <2>1, <2>3, RowsTyped
  <2>5. Rest'
    BY <2>1, <2>2 DEF Rest
  <2>6. RunType' /\ FactType'
    BY <2>1 DEF RunType, FactType
  <2> QED
    BY <2>2, <2>4, <2>5, <2>6
<1>3. ASSUME NEW b \in Batches, Resolve(b) PROVE Typed'
  <2>1. /\ UNCHANGED <<clock, row, run, fact, mark, refresh, missed, fresh, events>>
        /\ overtaken' = overtaken \ InTrace(b)
    BY <1>3 DEF Resolve, facts
  <2>2. CallType'
    BY <1>3, CallTyped
  <2>3. Rest'
    BY <2>1 DEF Rest
  <2>4. RowType' /\ RunType' /\ FactType' /\ RefreshType'
    BY <2>1 DEF RowType, RunType, FactType, RefreshType
  <2> QED
    BY <2>2, <2>3, <2>4
<1>4. ASSUME NEW b \in Batches, Resolved(b) PROVE Typed'
  <2>1. /\ UNCHANGED <<clock, run, fact, mark, events>> /\ Written /\ row' = Rows(b, {})
        /\ overtaken' \subseteq overtaken \cup DOMAIN call[b].plan
    BY <1>4 DEF Resolved, facts
  <2>2. CallType' /\ RefreshType' /\ missed' \subseteq Turns /\ fresh' = FALSE
    BY <1>4, <2>1, CallTyped, WrittenTyped
  <2>3. RowType'
    BY <2>1, RowsTyped
  <2>4. call[b].plan \in Plans
    BY DEF CallType, Calls
  <2>5. overtaken' \subseteq Spans
    BY <2>1, <2>4, PlanHas DEF Rest
  <2>6. Rest'
    BY <2>1, <2>2, <2>5 DEF Rest
  <2>7. RunType' /\ FactType'
    BY <2>1 DEF RunType, FactType
  <2> QED
    BY <2>2, <2>3, <2>6, <2>7
<1>5. ASSUME NEW b \in Batches, Refused(b) PROVE Typed'
  <2>1. UNCHANGED <<clock, row, run, fact, mark, refresh, overtaken, missed, fresh, events>>
    BY <1>5 DEF Refused, facts
  <2>2. CallType'
    BY <1>5, CallTyped
  <2>3. Rest'
    BY <2>1 DEF Rest
  <2>4. RowType' /\ RunType' /\ FactType' /\ RefreshType'
    BY <2>1 DEF RowType, RunType, FactType, RefreshType
  <2> QED
    BY <2>2, <2>3, <2>4
<1>6. ASSUME NEW r \in Refreshers, RefreshBegins(r) PROVE Typed'
  <2>1. UNCHANGED <<clock, row, call, run, fact, mark, overtaken, missed, fresh>> /\ Event
    BY <1>6 DEF RefreshBegins, facts
  <2>2. Watermarks \in Marks /\ mark \in Marks
    BY WatermarksTyped DEF Rest
  <2>3. [at |-> "read", since |-> mark, until |-> Watermarks, turns |-> {}, clean |-> TRUE]
          \in Refreshes
    BY <2>2 DEF Refreshes
  <2>4. RefreshType'
    BY <1>6, <2>3 DEF RefreshBegins, RefreshType
  <2>5. events' \in 0 .. MaxEvents
    BY <2>1, EventTyped
  <2>6. Rest'
    BY <2>1, <2>5 DEF Rest
  <2>7. RowType' /\ CallType' /\ RunType' /\ FactType'
    BY <2>1 DEF RowType, CallType, RunType, FactType
  <2> QED
    BY <2>4, <2>6, <2>7
<1>7. ASSUME NEW r \in Refreshers, RefreshTouches(r) PROVE Typed'
  <2>1. UNCHANGED <<clock, row, call, run, fact, mark, overtaken, missed, fresh, events>>
    BY <1>7 DEF RefreshTouches, facts
  <2>2. Touched(refresh[r].since) \in SUBSET Turns
    BY DEF Touched
  <2>3. PICK T \in SUBSET Turns : T = Touched(refresh[r].since)
    BY <2>2
  <2>4. refresh' = [refresh EXCEPT ![r] = [refresh[r] EXCEPT !.at = "touched", !.turns = T]]
    BY <1>7, <2>3 DEF RefreshTouches, RefreshType
  <2>5. [refresh[r] EXCEPT !.at = "touched", !.turns = T] \in Refreshes
    BY DEF RefreshType, Refreshes
  <2>6. RefreshType'
    BY <2>4, <2>5 DEF RefreshType
  <2>7. Rest'
    BY <2>1 DEF Rest
  <2>8. RowType' /\ CallType' /\ RunType' /\ FactType'
    BY <2>1 DEF RowType, CallType, RunType, FactType
  <2> QED
    BY <2>6, <2>7, <2>8
<1>8. ASSUME NEW r \in Refreshers, RefreshEnds(r) PROVE Typed'
  <2>1. /\ UNCHANGED <<clock, row, call, run, overtaken, events>>
        /\ mark' = refresh[r].until /\ fresh' = refresh[r].clean
        /\ missed' = missed \ refresh[r].turns
    BY <1>8 DEF RefreshEnds
  <2>2. refresh[r].until \in Marks /\ refresh[r].clean \in BOOLEAN
    BY DEF RefreshType, Refreshes
  <2>3. Rest'
    BY <2>1, <2>2 DEF Rest
  <2>4. FactType'
    <3>1. \A t \in Turns : Rebuilt(t) \in [version : -1 .. 1, spans : SUBSET Spans]
      BY DEF Rebuilt, Stored, RunType, Runs
    <3> QED
      BY <1>8, <3>1 DEF RefreshEnds, FactType
  <2>5. Idle \in Refreshes
    BY DEF Idle, Refreshes, NoMark, Marks, Instants
  <2>6. RefreshType'
    BY <1>8, <2>5 DEF RefreshEnds, RefreshType
  <2>7. RowType' /\ CallType' /\ RunType'
    BY <2>1 DEF RowType, CallType, RunType
  <2> QED
    BY <2>3, <2>4, <2>6, <2>7
<1>9. ASSUME NEW t \in Turns, RunBegins(t) PROVE Typed'
  <2>1. UNCHANGED <<clock, row, call, fact, mark, refresh, overtaken, missed, fresh>> /\ Event
    BY <1>9 DEF RunBegins, facts
  <2>2. run' = [run EXCEPT ![t] = [run[t] EXCEPT !.began = clock]]
    BY <1>9 DEF RunBegins, RunType
  <2>3. [run[t] EXCEPT !.began = clock] \in Runs
    BY DEF RunType, Runs, Rest, Instants
  <2>4. RunType'
    BY <2>2, <2>3 DEF RunType
  <2>5. events' \in 0 .. MaxEvents
    BY <2>1, EventTyped
  <2>6. Rest'
    BY <2>1, <2>5 DEF Rest
  <2>7. RowType' /\ CallType' /\ FactType' /\ RefreshType'
    BY <2>1 DEF RowType, CallType, FactType, RefreshType
  <2> QED
    BY <2>4, <2>6, <2>7
<1>10. ASSUME NEW t \in Turns, RunMoves(t) PROVE Typed'
  <2>1. UNCHANGED <<clock, row, call, fact, mark, overtaken, events>> /\ Written
    BY <1>10 DEF RunMoves, facts
  <2>2. run' = [run EXCEPT ![t] = [run[t] EXCEPT !.at = run[t].began, !.version = 1]]
    BY <1>10 DEF RunMoves, RunType
  <2>3. run[t] \in Runs /\ run[t].began # Never
    BY <1>10 DEF RunMoves, RunType
  <2>4. run[t].began \in Time
    BY <2>3 DEF Runs, Instants
  <2>5. [run[t] EXCEPT !.at = run[t].began, !.version = 1] \in Runs
    <3>1. PICK x \in Runs, a \in Time : x = run[t] /\ a = run[t].began
      BY <2>3, <2>4
    <3>2. PICK y \in Runs : y = [x EXCEPT !.at = a]
      BY DEF Runs
    <3>3. [y EXCEPT !.version = 1] \in Runs
      BY DEF Runs
    <3>4. [x EXCEPT !.at = a, !.version = 1] = [y EXCEPT !.version = 1]
      BY <3>2 DEF Runs
    <3> QED
      BY <3>1, <3>3, <3>4
  <2>6. RunType'
    BY <2>2, <2>5 DEF RunType
  <2>7. RefreshType' /\ missed' \subseteq Turns /\ fresh' = FALSE
    BY <2>1, WrittenTyped
  <2>8. Rest'
    BY <2>1, <2>7 DEF Rest
  <2>9. RowType' /\ CallType' /\ FactType'
    BY <2>1 DEF RowType, CallType, FactType
  <2> QED
    BY <2>6, <2>7, <2>8, <2>9
<1>11. ASSUME Tick PROVE Typed'
  <2>1. UNCHANGED <<row, call, run, fact, mark, refresh, overtaken, missed, fresh, events>>
    BY <1>11 DEF Tick, facts
  <2>2. clock' \in Time
    BY <1>11 DEF Tick, Rest
  <2>3. Rest'
    BY <2>1, <2>2 DEF Rest
  <2>4. RowType' /\ CallType' /\ RunType' /\ FactType' /\ RefreshType'
    BY <2>1 DEF RowType, CallType, RunType, FactType, RefreshType
  <2> QED
    BY <2>3, <2>4
<1>12. ASSUME UNCHANGED vars PROVE Typed'
  BY <1>12 DEF vars, facts, RowType, CallType, RunType, FactType, RefreshType, Rest
<1> QED
  BY <1>1, <1>2, <1>3, <1>4, <1>5, <1>6, <1>7, <1>8, <1>9, <1>10, <1>11, <1>12 DEF Next

\* Every stored id is one a span declared, and the watermarks, the stamps and the
\* calls stay what the code can hold: insertSpans, refresh_facts.
THEOREM TypeCorrect == Spec => []TypeOK
<1>1. Typed => TypeOK
  <2> SUFFICES ASSUME Typed PROVE TypeOK
    OBVIOUS
  <2>1. \A b \in Batches : /\ call[b] \in Calls /\ DOMAIN call[b].plan \subseteq Spans
    <3>1. \A b \in Batches : call[b] \in Calls /\ call[b].plan \in Plans
      BY DEF Typed, CallType, Calls
    <3> QED
      BY <3>1, PlanHas
  <2>2. \A b \in Batches :
          /\ call[b].at \in {"unsent", "writing", "stored", "resolving", "done"}
          /\ call[b].began \in Time /\ call[b].late \in BOOLEAN
    BY <2>1 DEF Calls
  <2>3. \A r \in Refreshers :
          /\ refresh[r].at \in {"idle", "read", "touched"}
          /\ refresh[r].since \in [runs : Time \cup {Never}, spans : Time \cup {Never}]
          /\ refresh[r].until \in [runs : Time \cup {Never}, spans : Time \cup {Never}]
          /\ refresh[r].turns \subseteq Turns /\ refresh[r].clean \in BOOLEAN
    BY DEF Typed, RefreshType, Refreshes, Marks, Instants
  <2>4. /\ row \in [Spans -> [at : Time \cup {Never}, turn : Ids, session : Sessions \cup {None}]]
        /\ run \in [Turns -> [at : Time, version : 0 .. 1, began : Time \cup {Never}]]
        /\ fact \in [Turns -> [version : -1 .. 1, spans : SUBSET Spans]]
    BY DEF Typed, RowType, RunType, Runs, FactType, Instants
  <2>5. /\ clock \in Time /\ mark \in [runs : Time \cup {Never}, spans : Time \cup {Never}]
        /\ fresh \in BOOLEAN /\ overtaken \subseteq Spans /\ missed \subseteq Turns
        /\ events \in 0 .. MaxEvents
    BY DEF Typed, Rest, Marks, Instants
  <2> QED
    BY <2>1, <2>2, <2>3, <2>4, <2>5 DEF TypeOK
<1> QED
  BY <1>1, InitTyped, StepTyped, PTL DEF Spec

-----------------------------------------------------------------------------
(* The facts.  What is stale and not missed stays in sight: of the next    *)
(* refresh, of the one under way, or of the one after it.                  *)

\* The turns whose fact a rebuild would change, but for those that were missed.
Owed == {t \in Turns \ missed : fact[t] # Rebuilt(t)}

SightOf(r) ==
    /\ refresh[r].at = "read" =>
          Owed \subseteq Touched(refresh[r].since) \cup Touched(refresh[r].until)
    /\ refresh[r].at = "read" /\ refresh[r].clean => Owed \subseteq Touched(refresh[r].since)
    /\ refresh[r].at = "touched" =>
          Owed \subseteq refresh[r].turns \cup Touched(refresh[r].until)
    /\ refresh[r].at = "touched" /\ refresh[r].clean => Owed \subseteq refresh[r].turns

InSight ==
    /\ Owed \subseteq Touched(mark)
    /\ \A r \in Refreshers : SightOf(r)
    /\ fresh => Owed = {}

\* A turn that a write changes is in sight of a watermark, or missed.
LEMMA WrittenInSight ==
    ASSUME Typed, Typed', Written, NEW x \in Looked,
           NEW t \in Turns, Changed(t), t \notin missed'
    PROVE  t \in Touched(x)'
<1>1. ~OutOfSight(t)
  BY DEF Written
<1>2. x \in Marks
  BY DEF Typed, RefreshType, Refreshes, Rest, Looked
<1>3. x.runs \in Instants /\ x.spans \in Instants
  BY <1>2 DEF Marks
<1>4. run'[t].at \in Time
  BY DEF Typed, RunType, Runs
<1>5. \A s \in Spans : row'[s].at \in Instants
  BY DEF Typed, RowType
<1>6. CASE ~(run'[t].at < x.runs)
  <2>1. run'[t].at >= x.runs
    BY <1>3, <1>4, <1>6 DEF Instants
  <2> QED
    BY <2>1 DEF Touched, Since
<1>7. CASE \E s \in Spans : row'[s].at # Never /\ row'[s].turn = t /\ ~(row'[s].at < x.spans)
  <2>1. PICK s \in Spans : row'[s].at # Never /\ row'[s].turn = t /\ ~(row'[s].at < x.spans)
    BY <1>7
  <2>2. row'[s].at >= x.spans
    BY <1>3, <1>5, <2>1 DEF Instants
  <2>3. s \in Stored'
    BY <2>1 DEF Stored
  <2> QED
    BY <2>1, <2>2, <2>3 DEF Touched, Since
<1> QED
  BY <1>1, <1>6, <1>7 DEF OutOfSight

\* A turn that a write leaves alone is as stale and as touched as it was.
LEMMA UnchangedTurn ==
    ASSUME Typed, NEW t \in Turns, ~Changed(t)
    PROVE  /\ Rebuilt(t)' = Rebuilt(t)
           /\ \A x : t \in Touched(x) <=> t \in Touched(x)'
<1>1. run'[t] = run[t]
  BY DEF Changed
<1>2. \A s \in Spans : row[s].turn = t \/ row'[s].turn = t => row'[s] = row[s]
  BY DEF Changed
<1>3. \A s \in Spans : (s \in Stored /\ row[s].turn = t) <=> (s \in Stored' /\ row'[s].turn = t)
  BY <1>2 DEF Stored
<1>4. {s \in Stored : row[s].turn = t} = {s \in Stored' : row'[s].turn = t}
  BY <1>3 DEF Stored
<1>5. Rebuilt(t)' = Rebuilt(t)
  BY <1>1, <1>4 DEF Rebuilt
<1>6. ASSUME NEW x PROVE t \in Touched(x) <=> t \in Touched(x)'
  <2>1. \A s \in Spans : (s \in Stored /\ row[s].turn = t /\ Since(row[s].at, x.spans))
                       <=> (s \in Stored' /\ row'[s].turn = t /\ Since(row'[s].at, x.spans))
    BY <1>2 DEF Stored
  <2>2. (\E s \in Stored : row[s].turn = t /\ Since(row[s].at, x.spans))
        <=> (\E s \in Stored' : row'[s].turn = t /\ Since(row'[s].at, x.spans))
    BY <2>1 DEF Stored
  <2>3. Since(run[t].at, x.runs) <=> Since(run'[t].at, x.runs)
    BY <1>1
  <2> QED
    BY <2>2, <2>3 DEF Touched, Since
<1> QED
  BY <1>5, <1>6

LEMMA WriteKeepsSight ==
    ASSUME Typed, Typed', InSight, Written, UNCHANGED <<fact, mark>>
    PROVE  InSight'
<1>1. ASSUME NEW t \in Owed', ~Changed(t) PROVE t \in Owed
  <2>1. t \in Turns /\ t \notin missed' /\ fact[t] # Rebuilt(t)'
    BY <1>1 DEF Owed
  <2>2. t \notin missed
    BY <1>1, <2>1 DEF Written
  <2> QED
    BY <1>1, <2>1, <2>2, UnchangedTurn DEF Owed
<1>2. ASSUME NEW x \in Looked, NEW T, Owed \subseteq T \cup Touched(x)
      PROVE  Owed' \subseteq T \cup Touched(x)'
  <2> SUFFICES ASSUME NEW t \in Owed', t \notin T PROVE t \in Touched(x)'
    OBVIOUS
  <2>1. t \in Turns /\ t \notin missed'
    BY DEF Owed
  <2>2. CASE Changed(t)
    BY <2>1, <2>2, WrittenInSight
  <2>3. CASE ~Changed(t)
    BY <1>1, <1>2, <2>1, <2>3, UnchangedTurn
  <2> QED
    BY <2>2, <2>3
<1>3. Owed' \subseteq Touched(mark)'
  <2>1. PICK x \in Looked : x = mark
    BY DEF Looked
  <2>2. Owed \subseteq {} \cup Touched(x)
    BY <2>1 DEF InSight
  <2>3. Owed' \subseteq {} \cup Touched(x)'
    BY <1>2, <2>2
  <2> QED
    BY <2>1, <2>3 DEF Touched
<1>4. ASSUME NEW r \in Refreshers PROVE SightOf(r)'
  <2>0. /\ refresh'[r].at = refresh[r].at /\ refresh'[r].since = refresh[r].since
        /\ refresh'[r].until = refresh[r].until /\ refresh'[r].turns = refresh[r].turns
        /\ refresh'[r].clean = FALSE /\ SightOf(r)
    BY WrittenTyped DEF InSight
  <2>1. CASE refresh[r].at = "read"
    <3>1. PICK x \in Looked, y \in {refresh[r].since} : x = refresh[r].until /\ y = refresh[r].since
      BY <2>1 DEF Looked
    <3>2. Owed \subseteq Touched(y) \cup Touched(x)
      BY <2>0, <2>1, <3>1 DEF SightOf
    <3>3. ASSUME NEW t \in Owed' PROVE t \in Touched(y)' \cup Touched(x)'
      <4>1. t \in Turns /\ t \notin missed'
        BY DEF Owed
      <4>2. CASE Changed(t)
        BY <4>1, <4>2, WrittenInSight
      <4>3. CASE ~Changed(t)
        BY <1>1, <3>2, <4>1, <4>3, UnchangedTurn
      <4> QED
        BY <4>2, <4>3
    <3>4. Touched(refresh[r].since)' = Touched(y)' /\ Touched(refresh[r].until)' = Touched(x)'
      BY <2>0, <3>1 DEF Touched
    <3> QED
      BY <2>0, <2>1, <3>3, <3>4 DEF SightOf
  <2>2. CASE refresh[r].at = "touched"
    <3>1. PICK x \in Looked, T \in {refresh[r].turns} : x = refresh[r].until /\ T = refresh[r].turns
      BY <2>2 DEF Looked
    <3>2. Owed \subseteq T \cup Touched(x)
      BY <2>0, <2>2, <3>1 DEF SightOf
    <3>3. Owed' \subseteq T \cup Touched(x)'
      BY <1>2, <3>2
    <3>4. Touched(refresh[r].until)' = Touched(x)'
      BY <2>0, <3>1 DEF Touched
    <3> QED
      BY <2>0, <2>2, <3>1, <3>3, <3>4 DEF SightOf
  <2> QED
    BY <2>0, <2>1, <2>2 DEF SightOf
<1> QED
  BY <1>3, <1>4 DEF InSight, Written

\* A step that writes nothing, and begins and ends no refresh.
LEMMA QuietKeepsSight ==
    ASSUME InSight, UNCHANGED <<row, fact, mark, refresh, missed, fresh>>,
           \A t \in Turns : run'[t].at = run[t].at /\ run'[t].version = run[t].version
    PROVE  InSight'
<1>1. Stored' = Stored
  BY DEF Stored
<1>2. \A t \in Turns : Rebuilt(t)' = Rebuilt(t)
  BY <1>1 DEF Rebuilt
<1>3. Owed' = Owed
  BY <1>2 DEF Owed
<1>4. \A x : Touched(x)' = Touched(x)
  BY <1>1 DEF Touched
<1>5. /\ Touched(mark)' = Touched(mark)
      /\ \A r : /\ Touched(refresh[r].since)' = Touched(refresh[r].since)
                /\ Touched(refresh[r].until)' = Touched(refresh[r].until)
  BY <1>1 DEF Touched
<1> QED
  BY <1>3, <1>5 DEF InSight, SightOf

LEMMA RefreshBeginsInSight ==
    ASSUME Typed, InSight, NEW r \in Refreshers, RefreshBegins(r) PROVE InSight'
<1>1. UNCHANGED <<row, run, fact, mark, missed, fresh>>
  BY DEF RefreshBegins, facts
<1>2. /\ refresh'[r] = [at |-> "read", since |-> mark, until |-> Watermarks,
                         turns |-> {}, clean |-> TRUE]
      /\ \A q \in Refreshers \ {r} : refresh'[q] = refresh[q]
  BY DEF RefreshBegins, Typed, RefreshType
<1>3. Stored' = Stored
  BY <1>1 DEF Stored
<1>4. Owed' = Owed
  BY <1>1, <1>3 DEF Owed, Rebuilt
<1>5. \A x : Touched(x)' = Touched(x)
  BY <1>1, <1>3 DEF Touched
<1>6. Touched(mark)' = Touched(mark)
  BY <1>1, <1>3 DEF Touched
<1>7. SightOf(r)'
  <2>1. Touched(refresh[r].since)' = Touched(mark)
    BY <1>1, <1>2, <1>3 DEF Touched
  <2> QED
    BY <1>2, <1>4, <2>1 DEF SightOf, InSight
<1>8. ASSUME NEW q \in Refreshers \ {r} PROVE SightOf(q)'
  <2>1. /\ Touched(refresh[q].since)' = Touched(refresh[q].since)
        /\ Touched(refresh[q].until)' = Touched(refresh[q].until)
    BY <1>1, <1>2, <1>3 DEF Touched
  <2> QED
    BY <1>2, <1>4, <2>1 DEF SightOf, InSight
<1> QED
  BY <1>1, <1>4, <1>6, <1>7, <1>8 DEF InSight

LEMMA RefreshTouchesInSight ==
    ASSUME Typed, InSight, NEW r \in Refreshers, RefreshTouches(r) PROVE InSight'
<1>1. UNCHANGED <<row, run, fact, mark, missed, fresh>>
  BY DEF RefreshTouches, facts
<1>2. /\ refresh[r].at = "read" /\ refresh'[r].at = "touched"
      /\ refresh'[r].turns = Touched(refresh[r].since)
      /\ refresh'[r].until = refresh[r].until /\ refresh'[r].clean = refresh[r].clean
      /\ \A q \in Refreshers \ {r} : refresh'[q] = refresh[q]
  BY DEF RefreshTouches, Typed, RefreshType, Refreshes
<1>3. Stored' = Stored
  BY <1>1 DEF Stored
<1>4. Owed' = Owed
  BY <1>1, <1>3 DEF Owed, Rebuilt
<1>6. Touched(mark)' = Touched(mark)
  BY <1>1, <1>3 DEF Touched
<1>7. SightOf(r)'
  <2>1. Touched(refresh[r].until)' = Touched(refresh[r].until)
    BY <1>1, <1>2, <1>3 DEF Touched
  <2> QED
    BY <1>2, <1>4, <2>1 DEF SightOf, InSight
<1>8. ASSUME NEW q \in Refreshers \ {r} PROVE SightOf(q)'
  <2>1. /\ Touched(refresh[q].since)' = Touched(refresh[q].since)
        /\ Touched(refresh[q].until)' = Touched(refresh[q].until)
    BY <1>1, <1>2, <1>3 DEF Touched
  <2> QED
    BY <1>2, <1>4, <2>1 DEF SightOf, InSight
<1> QED
  BY <1>1, <1>4, <1>6, <1>7, <1>8 DEF InSight

LEMMA RefreshEndsInSight ==
    ASSUME Typed, InSight, NEW r \in Refreshers, RefreshEnds(r) PROVE InSight'
<1>1. /\ UNCHANGED <<row, run>>
      /\ mark' = refresh[r].until /\ fresh' = refresh[r].clean
      /\ missed' = missed \ refresh[r].turns
      /\ fact' = [t \in Turns |-> IF t \in refresh[r].turns THEN Rebuilt(t) ELSE fact[t]]
  BY DEF RefreshEnds
<1>2. /\ refresh[r].at = "touched" /\ refresh'[r] = Idle
      /\ \A q \in Refreshers \ {r} : refresh'[q] = refresh[q]
  BY DEF RefreshEnds, Typed, RefreshType
<1>3. Stored' = Stored
  BY <1>1 DEF Stored
<1>4. Owed' \subseteq Owed \ refresh[r].turns
  <2> SUFFICES ASSUME NEW t \in Owed' PROVE t \in Owed \ refresh[r].turns
    OBVIOUS
  <2>1. t \in Turns /\ t \notin missed' /\ fact'[t] # Rebuilt(t)'
    BY DEF Owed
  <2>2. Rebuilt(t)' = Rebuilt(t)
    BY <1>1, <1>3 DEF Rebuilt
  <2>3. t \notin refresh[r].turns
    <3> SUFFICES ASSUME t \in refresh[r].turns PROVE FALSE
      OBVIOUS
    <3>1. fact'[t] = Rebuilt(t)
      BY <1>1, <2>1
    <3> QED
      BY <2>1, <2>2, <3>1
  <2>4. fact'[t] = fact[t] /\ t \notin missed
    BY <1>1, <2>1, <2>3
  <2> QED
    BY <2>1, <2>2, <2>3, <2>4 DEF Owed
<1>5. SightOf(r)
  BY DEF InSight
<1>6. Owed' \subseteq Touched(mark)'
  <2>1. Touched(mark)' = Touched(refresh[r].until)
    BY <1>1, <1>3 DEF Touched
  <2> QED
    BY <1>2, <1>4, <1>5, <2>1 DEF SightOf
<1>7. fresh' => Owed' = {}
  BY <1>1, <1>2, <1>4, <1>5 DEF SightOf
<1>8. SightOf(r)'
  BY <1>2 DEF SightOf, Idle
<1>9. ASSUME NEW q \in Refreshers \ {r} PROVE SightOf(q)'
  <2>1. /\ Touched(refresh[q].since)' = Touched(refresh[q].since)
        /\ Touched(refresh[q].until)' = Touched(refresh[q].until)
    BY <1>1, <1>2, <1>3 DEF Touched
  <2> QED
    BY <1>2, <1>4, <2>1 DEF SightOf, InSight
<1> QED
  BY <1>6, <1>7, <1>8, <1>9 DEF InSight

LEMMA InitInSight == Init => InSight
<1> SUFFICES ASSUME Init PROVE InSight
  OBVIOUS
<1>1. \A r \in Refreshers : SightOf(r)
  BY DEF Init, Idle, SightOf
<1>2. Turns \subseteq Touched(mark)
  BY DEF Init, NoMark, Touched, Since
<1> QED
  BY <1>1, <1>2 DEF Init, InSight, Owed

LEMMA StepInSight == ASSUME Typed, InSight, [Next]_vars PROVE InSight'
<1>0. Typed'
  BY StepTyped
<1>1. ASSUME NEW b \in Batches, Post(b) \/ Resolve(b) \/ Refused(b) PROVE InSight'
  <2>1. UNCHANGED <<row, run, fact, mark, refresh, missed, fresh>>
    BY <1>1 DEF Post, Resolve, Refused, facts
  <2> QED
    BY <2>1, QuietKeepsSight
<1>2. ASSUME NEW b \in Batches, Commit(b) \/ Resolved(b) PROVE InSight'
  <2>1. UNCHANGED <<fact, mark>> /\ Written
    BY <1>2 DEF Commit, Resolved, facts
  <2> QED
    BY <1>0, <2>1, WriteKeepsSight
<1>3. ASSUME NEW r \in Refreshers, RefreshBegins(r) \/ RefreshTouches(r) \/ RefreshEnds(r)
      PROVE  InSight'
  BY <1>3, RefreshBeginsInSight, RefreshTouchesInSight, RefreshEndsInSight
<1>4. ASSUME NEW t \in Turns, RunBegins(t) PROVE InSight'
  <2>1. UNCHANGED <<row, fact, mark, refresh, missed, fresh>>
    BY <1>4 DEF RunBegins, facts
  <2>2. run' = [run EXCEPT ![t] = [run[t] EXCEPT !.began = clock]]
    BY <1>4 DEF RunBegins, Typed, RunType
  <2>3. \A u \in Turns : run[u] \in Runs
    BY DEF Typed, RunType
  <2>4. \A u \in Turns : run'[u].at = run[u].at /\ run'[u].version = run[u].version
    BY <2>2, <2>3 DEF Typed, RunType, Runs
  <2> QED
    BY <2>1, <2>4, QuietKeepsSight
<1>5. ASSUME NEW t \in Turns, RunMoves(t) PROVE InSight'
  <2>1. UNCHANGED <<fact, mark>> /\ Written
    BY <1>5 DEF RunMoves, facts
  <2> QED
    BY <1>0, <2>1, WriteKeepsSight
<1>6. CASE Tick \/ UNCHANGED vars
  <2>1. UNCHANGED <<row, run, fact, mark, refresh, missed, fresh>>
    BY <1>6 DEF Tick, vars, facts
  <2> QED
    BY <2>1, QuietKeepsSight
<1> QED
  BY <1>1, <1>2, <1>3, <1>4, <1>5, <1>6 DEF Next

\* refresh_facts, "turns to rebuild: the run row moved, or a span that resolves to it
\* landed": a refresh during which nothing is written leaves what a full rebuild would
\* for every turn but those that their last write left out of sight.
THEOREM FactsFollowTheSpans == Spec => []FactsEqualARebuild
<1>1. InSight => FactsEqualARebuild
  BY DEF InSight, Owed, FactsEqualARebuild
<1> QED
  BY <1>1, InitTyped, InitInSight, StepTyped, StepInSight, PTL DEF Spec

-----------------------------------------------------------------------------
(* The resolves.  A walk that no batch overtook gives each row what the    *)
(* whole trace does, and until a walk of the trace is done one is to come. *)

Seen(s) == {x \in Stored : Trace[x] = Trace[s]}
Due(s) == ResolvedOf(Seen(s), s)

InTime(b) == call[b].at = "resolving" /\ ~call[b].late
ToCome(s) ==
    \E b \in Batches : s \in InTrace(b) /\ call[b].at \in {"unsent", "writing", "stored"}
UnderWay(s) == \E b \in Batches : InTime(b) /\ s \in DOMAIN call[b].plan

Settling ==
    /\ \A b \in Batches : DOMAIN call[b].plan \subseteq InTrace(b)
    /\ \A b \in Batches : call[b].late => call[b].at = "resolving"
    /\ \A b \in Batches : call[b].at = "resolving" => DOMAIN call[b].plan \subseteq Stored
    /\ \A b \in Batches : InTime(b) => \A s \in DOMAIN call[b].plan : call[b].plan[s] = Due(s)
    /\ \A s \in Stored \ overtaken : ToCome(s) \/ UnderWay(s) \/ Held(s) = Due(s)

\* A batch is of one trace.
LEMMA OneTrace ==
    ASSUME NEW b \in Batches
    PROVE  /\ Content[b] \subseteq InTrace(b) /\ InTrace(b) \subseteq Spans
           /\ \A s \in InTrace(b) : \A x \in Spans : x \in InTrace(b) <=> Trace[x] = Trace[s]
           /\ \A s \in InTrace(b) : Stored \cap InTrace(b) = Seen(s)
<1>1. /\ Content[b] \subseteq Spans
      /\ \A s, t \in Content[b] : Trace[s] = Trace[t]
  BY TelemetryAssumption
<1>2. \A s \in InTrace(b) : \A x \in Spans : x \in InTrace(b) <=> Trace[x] = Trace[s]
  BY <1>1 DEF InTrace
<1>3. Content[b] \subseteq InTrace(b) /\ InTrace(b) \subseteq Spans
  BY <1>1 DEF InTrace
<1> QED
  BY <1>2, <1>3 DEF Seen, Stored

\* A step that only moves the call of b on, and plans nothing in time.
LEMMA CallSettles ==
    ASSUME Typed, Settling, NEW b \in Batches, UNCHANGED <<row, overtaken>>,
           \A c \in Batches \ {b} : call'[c] = call[c],
           call'[b].at \in {"unsent", "writing"}, DOMAIN call'[b].plan \subseteq InTrace(b),
           ~call'[b].late, ~InTime(b)
    PROVE  Settling'
<1>1. Stored' = Stored /\ \A s : Due(s)' = Due(s) /\ Held(s)' = Held(s)
  BY DEF Stored, Due, Seen, Held
<1>2. ~InTime(b)' /\ \A c \in Batches \ {b} : InTime(c)' = InTime(c)
  BY DEF InTime
<1>3. \A s : ToCome(s) => ToCome(s)'
  BY DEF ToCome, InTrace
<1>4. \A s : UnderWay(s) => UnderWay(s)'
  BY <1>2 DEF UnderWay
<1>5. \A c \in Batches : DOMAIN call'[c].plan \subseteq InTrace(c)
  BY DEF Settling
<1>6. \A c \in Batches : call'[c].at = "resolving" => DOMAIN call'[c].plan \subseteq Stored'
  BY <1>1 DEF Settling
<1>7. \A c \in Batches : InTime(c)' => \A s \in DOMAIN call'[c].plan : call'[c].plan[s] = Due(s)'
  BY <1>1, <1>2 DEF Settling
<1>8. \A s \in Stored' \ overtaken' : ToCome(s)' \/ UnderWay(s)' \/ Held(s)' = Due(s)'
  BY <1>1, <1>3, <1>4 DEF Settling
<1>9. \A c \in Batches : call'[c].late => call'[c].at = "resolving"
  BY DEF Settling
<1> QED
  BY <1>5, <1>6, <1>7, <1>8, <1>9 DEF Settling, InTrace

LEMMA ResolveSettles ==
    ASSUME Typed, Settling, NEW b \in Batches, Resolve(b) PROVE Settling'
<1>1. /\ UNCHANGED row /\ overtaken' = overtaken \ InTrace(b)
      /\ \A c \in Batches \ {b} : call'[c] = call[c]
      /\ call'[b].at = "resolving" /\ call'[b].plan = Plan(b, Stored)
      /\ call[b].at = "stored" /\ call'[b].late = call[b].late
  BY DEF Resolve, Walk, Typed, CallType, Calls
<1>2. Stored' = Stored /\ \A s : Due(s)' = Due(s) /\ Held(s)' = Held(s)
  BY <1>1 DEF Stored, Due, Seen, Held
<1>3. \A c \in Batches \ {b} : InTime(c)' = InTime(c)
  BY <1>1 DEF InTime
<1>4. Stored \in SUBSET Spans
  BY DEF Stored
<1>5. /\ DOMAIN Plan(b, Stored) \subseteq Stored \cap InTrace(b)
      /\ \A s \in Stored \cap InTrace(b) : IF s \in DOMAIN Plan(b, Stored)
                                          THEN Plan(b, Stored)[s] = Due(s)
                                          ELSE Held(s) = Due(s)
  <2>1. /\ DOMAIN Plan(b, Stored) \subseteq Stored \cap InTrace(b)
        /\ \A s \in Stored \cap InTrace(b) :
              IF s \in DOMAIN Plan(b, Stored)
              THEN Plan(b, Stored)[s] = ResolvedOf(Stored \cap InTrace(b), s)
              ELSE Held(s) = ResolvedOf(Stored \cap InTrace(b), s)
    BY <1>4, PlanTyped
  <2>2. \A s \in InTrace(b) : ResolvedOf(Stored \cap InTrace(b), s) = Due(s)
    BY OneTrace DEF Due
  <2> QED
    BY <2>1, <2>2
<1>6. \A c \in Batches : DOMAIN call'[c].plan \subseteq InTrace(c)
  BY <1>1, <1>5 DEF Settling
<1>7. \A c \in Batches : call'[c].at = "resolving" => DOMAIN call'[c].plan \subseteq Stored'
  BY <1>1, <1>2, <1>5 DEF Settling
<1>8. \A c \in Batches : InTime(c)' => \A s \in DOMAIN call'[c].plan : call'[c].plan[s] = Due(s)'
  BY <1>1, <1>2, <1>3, <1>5 DEF Settling
<1>9. InTime(b)'
  BY <1>1 DEF InTime, Settling
<1>11. \A c \in Batches : call'[c].late => call'[c].at = "resolving"
  BY <1>1 DEF Settling
<1>10. ASSUME NEW s \in Stored \ overtaken' PROVE ToCome(s)' \/ UnderWay(s)' \/ Held(s) = Due(s)
  <2>1. CASE s \in InTrace(b)
    BY <1>1, <1>5, <1>9, <2>1 DEF UnderWay
  <2>2. CASE s \notin InTrace(b)
    <3>1. ToCome(s) \/ UnderWay(s) \/ Held(s) = Due(s)
      BY <1>1, <2>2 DEF Settling
    <3>2. ToCome(s) => ToCome(s)'
      BY <1>1, <2>2 DEF ToCome, InTrace
    <3>3. UnderWay(s) => UnderWay(s)'
      BY <1>1, <1>3 DEF UnderWay, InTime
    <3> QED
      BY <3>1, <3>2, <3>3
  <2> QED
    BY <2>1, <2>2
<1> QED
  BY <1>2, <1>6, <1>7, <1>8, <1>10, <1>11 DEF Settling, InTrace

LEMMA ResolvedSettles ==
    ASSUME Typed, Settling, NEW b \in Batches, Resolved(b) PROVE Settling'
<1>1. /\ row' = Rows(b, {}) /\ call[b].at = "resolving"
      /\ overtaken' = IF call[b].late THEN overtaken \cup DOMAIN call[b].plan ELSE overtaken
      /\ \A c \in Batches \ {b} : call'[c] = call[c]
      /\ call'[b].at = "done" /\ call'[b].plan = NoPlan /\ call'[b].late = FALSE
  BY DEF Resolved, Typed, CallType, Unsent
<1>2. /\ Stored' = Stored
      /\ \A s \in DOMAIN call[b].plan : Held(s)' = call[b].plan[s]
      /\ \A s \in Spans \ DOMAIN call[b].plan : Held(s)' = Held(s)
  <2>1. PICK C \in SUBSET Spans : C = {}
    OBVIOUS
  <2>2. Stored' = Stored \cup C
    BY <1>1, <2>1, RowsTyped
  <2>3. /\ \A s \in DOMAIN call[b].plan : Held(s)' = call[b].plan[s]
        /\ \A s \in Spans \ DOMAIN call[b].plan : Held(s)' = Held(s)
    BY <1>1, <2>1, RowsTyped
  <2> QED
    BY <2>1, <2>2, <2>3
<1>3. \A s : Due(s)' = Due(s)
  BY <1>2 DEF Due, Seen
<1>4. DOMAIN NoPlan = {}
  BY DEF NoPlan
<1>5. ~InTime(b)' /\ \A c \in Batches \ {b} : InTime(c)' = InTime(c)
  BY <1>1 DEF InTime
<1>6. \A c \in Batches : DOMAIN call'[c].plan \subseteq InTrace(c)
  BY <1>1, <1>4 DEF Settling
<1>7. \A c \in Batches : call'[c].at = "resolving" => DOMAIN call'[c].plan \subseteq Stored'
  BY <1>1, <1>2 DEF Settling
<1>8. \A c \in Batches : InTime(c)' => \A s \in DOMAIN call'[c].plan : call'[c].plan[s] = Due(s)'
  BY <1>1, <1>3, <1>5 DEF Settling
<1>9. ASSUME NEW s \in Stored \ overtaken' PROVE ToCome(s)' \/ UnderWay(s)' \/ Held(s)' = Due(s)'
  <2>1. s \in Stored \ overtaken /\ s \in Spans
    BY <1>1 DEF Stored
  <2>2. CASE s \in DOMAIN call[b].plan
    <3>1. InTime(b)
      BY <1>1, <2>2 DEF InTime
    <3> QED
      BY <1>2, <1>3, <2>2, <3>1 DEF Settling
  <2>3. CASE s \notin DOMAIN call[b].plan
    <3>1. ToCome(s) \/ UnderWay(s) \/ Held(s) = Due(s)
      BY <2>1 DEF Settling
    <3>2. ToCome(s) => ToCome(s)'
      BY <1>1 DEF ToCome, InTrace
    <3>3. UnderWay(s) => UnderWay(s)'
      BY <1>1, <1>5, <2>3 DEF UnderWay
    <3> QED
      BY <1>2, <1>3, <2>1, <2>3, <3>1, <3>2, <3>3
  <2> QED
    BY <2>2, <2>3
<1>10. \A c \in Batches : call'[c].late => call'[c].at = "resolving"
  BY <1>1 DEF Settling
<1> QED
  BY <1>2, <1>6, <1>7, <1>8, <1>9, <1>10 DEF Settling, InTrace

LEMMA CommitSettles ==
    ASSUME Typed, Settling, NEW b \in Batches, Commit(b) PROVE Settling'
<1>1. /\ row' = Rows(b, Content[b]) /\ call[b].at = "writing" /\ overtaken' = overtaken
      /\ call'[b].at = "stored" /\ call'[b].plan = NoPlan /\ call'[b].late = FALSE
  BY DEF Commit, Unsent
<1>2. ASSUME NEW c \in Batches \ {b}
      PROVE  /\ call'[c].at = call[c].at /\ call'[c].plan = call[c].plan
             /\ InTime(c)' <=> InTime(c) /\ ~Beside(c, b)
             /\ call'[c].late => call[c].late \/ call[c].at = "resolving"
  <2>1. PICK x \in Calls : x = call[c]
    BY DEF Typed, CallType
  <2>2. call'[c] = [x EXCEPT !.late = x.late \/ (x.at = "resolving" /\ Beside(c, b))]
    BY <2>1 DEF Commit
  <2>3. PICK late \in BOOLEAN : late = (x.late \/ (x.at = "resolving" /\ Beside(c, b)))
    OBVIOUS
  <2>4. call'[c] = [x EXCEPT !.late = late]
    BY <2>2, <2>3
  <2>5. call'[c].at = x.at /\ call'[c].plan = x.plan /\ call'[c].late = late
    BY <2>4 DEF Calls
  <2>6. (x.at = "resolving" /\ ~late) <=> (x.at = "resolving" /\ ~x.late /\ ~Beside(c, b))
    BY <2>3 DEF Calls
  <2>7. late => x.late \/ x.at = "resolving"
    BY <2>3 DEF Calls
  <2> QED
    BY <2>1, <2>5, <2>6, <2>7 DEF InTime
<1>3. Content[b] \in SUBSET Spans
  BY TelemetryAssumption
<1>4. /\ Stored' = Stored \cup Content[b]
      /\ \A s \in Spans \ DOMAIN call[b].plan : Held(s)' = Held(s)
  BY <1>1, <1>3, RowsTyped
<1>5. DOMAIN NoPlan = {} /\ DOMAIN call[b].plan \subseteq InTrace(b)
  BY DEF NoPlan, Settling
<1>6. ASSUME NEW s \in Spans \ InTrace(b)
      PROVE  Due(s)' = Due(s) /\ Held(s)' = Held(s) /\ (s \in Stored' => s \in Stored)
  <2>1. s \notin Content[b] /\ \A x \in Content[b] : Trace[x] # Trace[s]
    BY <1>3 DEF InTrace
  <2>2. Seen(s)' = Seen(s)
    BY <1>4, <2>1 DEF Seen
  <2> QED
    BY <1>4, <1>5, <2>1, <2>2 DEF Due
<1>7. ASSUME NEW c \in Batches \ {b}, InTime(c)' PROVE InTrace(c) \cap InTrace(b) = {}
  <2>1. ~Beside(c, b)
    BY <1>2, <1>7
  <2>2. \A x \in Content[b] : x \in Spans /\ x \notin InTrace(c)
    BY <1>3, <2>1 DEF Beside
  <2> QED
    BY <2>2 DEF InTrace
<1>8. ~InTime(b)'
  BY <1>1 DEF InTime
<1>9. \A c \in Batches : DOMAIN call'[c].plan \subseteq InTrace(c)
  BY <1>1, <1>2, <1>5 DEF Settling
<1>10. \A c \in Batches : call'[c].at = "resolving" => DOMAIN call'[c].plan \subseteq Stored'
  BY <1>1, <1>2, <1>4 DEF Settling
<1>11. ASSUME NEW c \in Batches, InTime(c)', NEW s \in DOMAIN call'[c].plan
       PROVE  call'[c].plan[s] = Due(s)'
  <2>1. c # b /\ InTime(c) /\ call'[c].plan = call[c].plan
    BY <1>2, <1>8, <1>11
  <2>2. s \in InTrace(c) /\ s \in Spans
    BY <1>9, OneTrace
  <2>3. s \notin InTrace(b)
    BY <1>7, <1>11, <2>1, <2>2
  <2> QED
    BY <1>6, <2>1, <2>2, <2>3 DEF Settling
<1>12. ASSUME NEW s \in Stored' \ overtaken' PROVE ToCome(s)' \/ UnderWay(s)' \/ Held(s)' = Due(s)'
  <2>0. s \in Spans
    BY DEF Stored
  <2>1. CASE s \in InTrace(b)
    BY <1>1, <2>1 DEF ToCome, InTrace
  <2>2. CASE s \notin InTrace(b)
    <3>1. s \in Stored \ overtaken
      BY <1>1, <1>6, <2>0, <2>2
    <3>2. ToCome(s) \/ UnderWay(s) \/ Held(s) = Due(s)
      BY <3>1 DEF Settling
    <3>3. ToCome(s) => ToCome(s)'
      BY <1>2, <2>2 DEF ToCome, InTrace
    <3>4. ASSUME UnderWay(s) PROVE UnderWay(s)'
      <4>1. PICK c \in Batches : InTime(c) /\ s \in DOMAIN call[c].plan
        BY <3>4 DEF UnderWay
      <4>2. c # b /\ s \in InTrace(c)
        BY <1>1, <4>1 DEF InTime, Settling
      <4>3. ~Beside(c, b)
        <5> SUFFICES ASSUME NEW x \in InTrace(c), x \in Content[b] PROVE FALSE
          BY DEF Beside
        <5>1. x \in Spans /\ Trace[x] = Trace[s]
          BY <1>3, <4>2, OneTrace
        <5> QED
          BY <2>0, <2>2, <5>1 DEF InTrace
      <4> QED
        BY <1>2, <4>1, <4>2, <4>3 DEF UnderWay
    <3> QED
      BY <1>6, <2>0, <2>2, <3>2, <3>3, <3>4
  <2> QED
    BY <2>1, <2>2
<1>13. \A c \in Batches : call'[c].late => call'[c].at = "resolving"
  BY <1>1, <1>2 DEF Settling
<1> QED
  BY <1>9, <1>10, <1>11, <1>12, <1>13 DEF Settling, InTrace

LEMMA StepSettles == ASSUME Typed, Settling, [Next]_vars PROVE Settling'
<1>1. ASSUME NEW b \in Batches, Post(b) PROVE Settling'
  <2>1. /\ UNCHANGED <<row, overtaken>> /\ call[b].at = "unsent"
        /\ \A c \in Batches \ {b} : call'[c] = call[c]
        /\ call'[b].at = "writing" /\ call'[b].plan = Plan(b, Stored \cup Content[b])
        /\ call'[b].late = FALSE
    BY <1>1 DEF Post, Typed, CallType, Unsent
  <2>2. Stored \cup Content[b] \in SUBSET Spans
    BY TelemetryAssumption DEF Stored
  <2>3. DOMAIN call'[b].plan \subseteq InTrace(b)
    BY <2>1, <2>2, PlanTyped
  <2> QED
    BY <2>1, <2>3, CallSettles DEF InTime
<1>2. ASSUME NEW b \in Batches, Refused(b) PROVE Settling'
  <2>1. /\ UNCHANGED <<row, overtaken>> /\ call[b].at # "resolving"
        /\ \A c \in Batches \ {b} : call'[c] = call[c]
        /\ call'[b].at = "unsent" /\ DOMAIN call'[b].plan = {} /\ call'[b].late = FALSE
    BY <1>2 DEF Refused, Typed, CallType, Unsent, NoPlan
  <2> QED
    BY <2>1, CallSettles DEF InTime
<1>3. ASSUME NEW b \in Batches, Commit(b) \/ Resolve(b) \/ Resolved(b) PROVE Settling'
  BY <1>3, CommitSettles, ResolveSettles, ResolvedSettles
<1>4. ASSUME UNCHANGED <<row, call, overtaken>> PROVE Settling'
  <2>1. Stored' = Stored /\ \A s : Due(s)' = Due(s) /\ Held(s)' = Held(s)
    BY <1>4 DEF Stored, Due, Seen, Held
  <2>2. \A s : ToCome(s)' = ToCome(s) /\ UnderWay(s)' = UnderWay(s)
    BY <1>4 DEF ToCome, UnderWay, InTime, InTrace
  <2>3. \A b : InTime(b)' = InTime(b)
    BY <1>4 DEF InTime
  <2> QED
    BY <1>4, <2>1, <2>2, <2>3 DEF Settling, InTrace
<1>5. ASSUME NEW r \in Refreshers, RefreshBegins(r) \/ RefreshTouches(r) \/ RefreshEnds(r)
      PROVE  Settling'
  BY <1>4, <1>5 DEF RefreshBegins, RefreshTouches, RefreshEnds
<1>6. ASSUME NEW t \in Turns, RunBegins(t) \/ RunMoves(t) PROVE Settling'
  BY <1>4, <1>6 DEF RunBegins, RunMoves
<1>7. CASE Tick \/ UNCHANGED vars
  BY <1>4, <1>7 DEF Tick, vars
<1> QED
  BY <1>1, <1>2, <1>3, <1>5, <1>6, <1>7 DEF Next

\* lib/traces.ts, "every writer of a trace runs it after its own commit, so the last
\* writer to commit is the one whose resolve sees the finished trace": when all is
\* quiet each row that no overtaken resolve wrote is what the whole trace gives.
THEOREM LastWalkSeesItAll == Spec => []ResolvedWhenQuiet
<1>1. Init => Settling
  <2> SUFFICES ASSUME Init PROVE Settling
    OBVIOUS
  <2>1. Stored = {}
    BY DEF Init, Stored
  <2>2. \A b \in Batches : call[b].at = "unsent" /\ DOMAIN call[b].plan = {} /\ ~call[b].late
    BY DEF Init, Unsent, NoPlan
  <2> QED
    BY <2>1, <2>2 DEF Settling, InTime
<1>2. Typed /\ Settling => ResolvedWhenQuiet
  <2> SUFFICES ASSUME Typed, Settling, \A b \in Batches : call[b].at = "done",
                      NEW s \in Stored \ overtaken
               PROVE  /\ Held(s) = ResolvedOf({x \in Stored : Trace[x] = Trace[s]}, s)
                      /\ row[s].turn = row[s].session => row[s].turn = None
    BY DEF ResolvedWhenQuiet, Held
  <2>1. ~ToCome(s) /\ ~UnderWay(s)
    BY DEF ToCome, UnderWay, InTime
  <2>2. Held(s) = Due(s)
    BY <2>1 DEF Settling
  <2>3. Seen(s) \in SUBSET Spans /\ s \in Seen(s)
    BY DEF Seen, Stored
  <2>4. Held(s).turn = Held(s).session => Held(s).turn = None
    BY <2>2, <2>3, ResolvedTyped DEF Due
  <2> QED
    BY <2>2, <2>4 DEF Due, Seen, Held
<1> QED
  BY <1>1, <1>2, InitTyped, StepTyped, StepSettles, PTL DEF Spec

-----------------------------------------------------------------------------
(* Quiet or not: each row is what some part of its trace gives, the part   *)
(* that a walk saw.                                                        *)

Part(U, s, v) ==
    \E S \in SUBSET {x \in U : Trace[x] = Trace[s]} : s \in S /\ v = ResolvedOf(S, s)
Upcoming(b) == IF call[b].at = "writing" THEN Stored \cup Content[b] ELSE Stored

Parts ==
    /\ \A s \in Stored : Part(Stored, s, Held(s))
    /\ \A s \in Spans \ Stored : Held(s) = Nothing
    /\ \A b \in Batches : \A s \in DOMAIN call[b].plan : Part(Upcoming(b), s, call[b].plan[s])
    /\ \A b \in Batches : call[b].at = "writing" =>
          \A s \in Content[b] \ (Stored \cup DOMAIN call[b].plan) : Part(Upcoming(b), s, Nothing)

LEMMA PartGrows ==
    ASSUME NEW U, NEW W, U \subseteq W, NEW s, NEW v, Part(U, s, v)
    PROVE  Part(W, s, v) /\ s \in U
<1>1. PICK S \in SUBSET {x \in U : Trace[x] = Trace[s]} : s \in S /\ v = ResolvedOf(S, s)
  BY DEF Part
<1>2. S \in SUBSET {x \in W : Trace[x] = Trace[s]}
  OBVIOUS
<1> QED
  BY <1>1, <1>2 DEF Part

LEMMA PlanParts ==
    ASSUME NEW b \in Batches, NEW U \in SUBSET Spans
    PROVE  /\ \A s \in DOMAIN Plan(b, U) : Part(U, s, Plan(b, U)[s])
           /\ \A s \in (U \cap InTrace(b)) \ DOMAIN Plan(b, U) : Part(U, s, Held(s))
<1> DEFINE seen == U \cap InTrace(b)
<1>1. ASSUME NEW s \in seen PROVE Part(U, s, ResolvedOf(seen, s))
  <2>1. seen \in SUBSET {x \in U : Trace[x] = Trace[s]}
    BY OneTrace
  <2> HIDE DEF seen
  <2> QED
    BY <2>1 DEF Part
<1>2. /\ DOMAIN Plan(b, U) \subseteq seen
      /\ \A s \in seen : IF s \in DOMAIN Plan(b, U)
                        THEN Plan(b, U)[s] = ResolvedOf(seen, s)
                        ELSE Held(s) = ResolvedOf(seen, s)
  BY PlanTyped
<1> HIDE DEF seen
<1>3. \A s \in seen : Part(U, s, ResolvedOf(seen, s))
  BY <1>1
<1>4. ASSUME NEW s \in DOMAIN Plan(b, U) PROVE Part(U, s, Plan(b, U)[s])
  <2>1. s \in seen /\ Plan(b, U)[s] = ResolvedOf(seen, s)
    BY <1>2
  <2> QED
    BY <1>3, <2>1
<1>5. ASSUME NEW s \in seen \ DOMAIN Plan(b, U) PROVE Part(U, s, Held(s))
  <2>1. Held(s) = ResolvedOf(seen, s)
    BY <1>2
  <2> QED
    BY <1>3, <2>1
<1> QED
  BY <1>4, <1>5 DEF seen

\* A step that only moves the call of b on.
LEMMA CallParts ==
    ASSUME Parts, NEW b \in Batches, UNCHANGED row,
           \A c \in Batches \ {b} : call'[c] = call[c],
           \A s \in DOMAIN call'[b].plan : Part(Upcoming(b)', s, call'[b].plan[s]),
           call'[b].at = "writing" =>
              \A s \in Content[b] \ (Stored \cup DOMAIN call'[b].plan) :
                 Part(Upcoming(b)', s, Nothing)
    PROVE  Parts'
<1>1. Stored' = Stored /\ \A s : Held(s)' = Held(s)
  BY DEF Stored, Held
<1>2. \A c \in Batches \ {b} : Upcoming(c)' = Upcoming(c)
  BY <1>1 DEF Upcoming
<1>3. /\ \A s \in Stored' : Part(Stored', s, Held(s)')
      /\ \A s \in Spans \ Stored' : Held(s)' = Nothing
  BY <1>1 DEF Parts
<1>4. \A c \in Batches : \A s \in DOMAIN call'[c].plan : Part(Upcoming(c)', s, call'[c].plan[s])
  BY <1>2 DEF Parts
<1>5. \A c \in Batches : call'[c].at = "writing" =>
         \A s \in Content[c] \ (Stored' \cup DOMAIN call'[c].plan) : Part(Upcoming(c)', s, Nothing)
  BY <1>1, <1>2 DEF Parts
<1> QED
  BY <1>3, <1>4, <1>5 DEF Parts, Part

\* The statement of b leaves its rows.
LEMMA RowsParts ==
    ASSUME Typed, Parts, NEW b \in Batches, NEW C \in SUBSET Spans, row' = Rows(b, C),
           Upcoming(b) = Stored \cup C,
           \A s \in C \ (Stored \cup DOMAIN call[b].plan) : Part(Upcoming(b), s, Nothing),
           call'[b].at # "writing", DOMAIN call'[b].plan = {},
           \A c \in Batches \ {b} : call'[c].at = call[c].at /\ call'[c].plan = call[c].plan
    PROVE  Parts'
<1>1. /\ Stored' = Stored \cup C
      /\ \A s \in DOMAIN call[b].plan : Held(s)' = call[b].plan[s]
      /\ \A s \in Spans \ DOMAIN call[b].plan : Held(s)' = Held(s)
  BY RowsTyped
<1>2. Stored \subseteq Spans /\ Stored' \subseteq Spans
  BY DEF Stored
<1>3. ASSUME NEW s \in DOMAIN call[b].plan PROVE Part(Stored', s, Held(s)') /\ s \in Stored'
  <2>1. Part(Upcoming(b), s, call[b].plan[s])
    BY DEF Parts
  <2>2. PICK U, v : U = Upcoming(b) /\ v = call[b].plan[s]
    OBVIOUS
  <2>3. Part(U, s, v) /\ U = Stored'
    BY <1>1, <2>1, <2>2
  <2>4. s \in U
    BY <2>3, PartGrows
  <2> QED
    BY <1>1, <2>2, <2>3, <2>4
<1>4. ASSUME NEW s \in Stored' PROVE Part(Stored', s, Held(s)')
  <2>1. CASE s \in DOMAIN call[b].plan
    BY <1>3, <2>1
  <2>2. CASE s \in Stored \ DOMAIN call[b].plan
    <3>1. PICK U, W, v : U = Stored /\ W = Stored' /\ v = Held(s)
      OBVIOUS
    <3>2. Part(U, s, v) /\ U \subseteq W
      BY <1>1, <2>2, <3>1 DEF Parts
    <3>3. Part(W, s, v)
      BY <3>2, PartGrows
    <3> QED
      BY <1>1, <1>2, <2>2, <3>1, <3>3
  <2>3. CASE s \in C \ (Stored \cup DOMAIN call[b].plan)
    <3>1. Held(s)' = Nothing
      BY <1>1, <2>3 DEF Parts
    <3> QED
      BY <1>1, <2>3, <3>1
  <2> QED
    BY <1>1, <2>1, <2>2, <2>3
<1>5. ASSUME NEW s \in Spans \ Stored' PROVE Held(s)' = Nothing
  BY <1>1, <1>3 DEF Parts
<1>6. ASSUME NEW c \in Batches \ {b}, NEW s, NEW v, Part(Upcoming(c), s, v)
      PROVE  Part(Upcoming(c)', s, v)
  <2>1. Upcoming(c) \subseteq Upcoming(c)'
    BY <1>1 DEF Upcoming
  <2>2. PICK U, W : U = Upcoming(c) /\ W = Upcoming(c)'
    OBVIOUS
  <2> QED
    BY <1>6, <2>1, <2>2, PartGrows
<1>7. \A c \in Batches : \A s \in DOMAIN call'[c].plan : Part(Upcoming(c)', s, call'[c].plan[s])
  BY <1>6 DEF Parts
<1>8. \A c \in Batches : call'[c].at = "writing" =>
         \A s \in Content[c] \ (Stored' \cup DOMAIN call'[c].plan) : Part(Upcoming(c)', s, Nothing)
  BY <1>1, <1>6 DEF Parts
<1> QED
  BY <1>4, <1>5, <1>7, <1>8 DEF Parts, Part

LEMMA StepParts == ASSUME Typed, Parts, [Next]_vars PROVE Parts'
<1>0. Stored \in SUBSET Spans /\ DOMAIN NoPlan = {}
      /\ \A b \in Batches : Content[b] \in SUBSET Spans /\ Content[b] \subseteq InTrace(b)
  BY TelemetryAssumption, OneTrace DEF Stored, NoPlan
<1>1. ASSUME NEW b \in Batches, Post(b) PROVE Parts'
  <2>1. /\ UNCHANGED row /\ \A c \in Batches \ {b} : call'[c] = call[c]
        /\ call'[b].at = "writing" /\ call'[b].plan = Plan(b, Stored \cup Content[b])
    BY <1>1 DEF Post, Typed, CallType, Unsent
  <2>2. PICK U \in SUBSET Spans, P \in {Plan(b, Stored \cup Content[b])} : U = Stored \cup Content[b] /\ P = Plan(b, U)
    BY <1>0
  <2>3. Upcoming(b)' = U /\ call'[b].plan = P
    BY <2>1, <2>2 DEF Upcoming, Stored
  <2>4. /\ \A s \in DOMAIN P : Part(U, s, P[s])
        /\ \A s \in (U \cap InTrace(b)) \ DOMAIN P : Part(U, s, Held(s))
    BY <2>2, PlanParts
  <2>5. \A s \in Content[b] \ (Stored \cup DOMAIN P) : Part(U, s, Nothing)
    <3>1. \A s \in Content[b] \ Stored : Held(s) = Nothing /\ s \in U \cap InTrace(b)
      BY <1>0, <2>2 DEF Parts
    <3> QED
      BY <2>4, <3>1
  <2> QED
    BY <2>1, <2>3, <2>4, <2>5, CallParts
<1>2. ASSUME NEW b \in Batches, Resolve(b) PROVE Parts'
  <2>1. /\ UNCHANGED row /\ \A c \in Batches \ {b} : call'[c] = call[c]
        /\ call'[b].at = "resolving" /\ call'[b].plan = Plan(b, Stored)
    BY <1>2 DEF Resolve, Walk, Typed, CallType, Calls
  <2>2. Upcoming(b)' = Stored
    BY <2>1 DEF Upcoming, Stored
  <2>3. \A s \in DOMAIN Plan(b, Stored) : Part(Stored, s, Plan(b, Stored)[s])
    BY <1>0, PlanParts
  <2> QED
    BY <2>1, <2>2, <2>3, CallParts
<1>3. ASSUME NEW b \in Batches, Refused(b) PROVE Parts'
  <2>1. /\ UNCHANGED row /\ \A c \in Batches \ {b} : call'[c] = call[c]
        /\ call'[b].at = "unsent" /\ DOMAIN call'[b].plan = {}
    BY <1>0, <1>3 DEF Refused, Typed, CallType, Unsent
  <2> QED
    BY <2>1, CallParts
<1>4. ASSUME NEW b \in Batches, Commit(b) PROVE Parts'
  <2>1. /\ row' = Rows(b, Content[b]) /\ call[b].at = "writing"
        /\ call'[b].at = "stored" /\ DOMAIN call'[b].plan = {}
    BY <1>0, <1>4 DEF Commit, Unsent
  <2>2. ASSUME NEW c \in Batches \ {b}
        PROVE  call'[c].at = call[c].at /\ call'[c].plan = call[c].plan
    <3>1. PICK x \in Calls : x = call[c]
      BY DEF Typed, CallType
    <3>2. PICK late : call'[c] = [x EXCEPT !.late = late]
      BY <1>4, <3>1 DEF Commit
    <3> QED
      BY <3>1, <3>2 DEF Calls
  <2>3. Upcoming(b) = Stored \cup Content[b]
    BY <2>1 DEF Upcoming
  <2>4. \A s \in Content[b] \ (Stored \cup DOMAIN call[b].plan) : Part(Upcoming(b), s, Nothing)
    BY <2>1 DEF Parts
  <2> QED
    BY <1>0, <2>1, <2>2, <2>3, <2>4, RowsParts
<1>5. ASSUME NEW b \in Batches, Resolved(b) PROVE Parts'
  <2>1. /\ row' = Rows(b, {}) /\ call[b].at = "resolving"
        /\ call'[b].at = "done" /\ DOMAIN call'[b].plan = {}
        /\ \A c \in Batches \ {b} : call'[c] = call[c]
    BY <1>0, <1>5 DEF Resolved, Typed, CallType, Unsent
  <2>2. PICK C \in SUBSET Spans : C = {}
    OBVIOUS
  <2>3. Upcoming(b) = Stored \cup C
    BY <2>1, <2>2 DEF Upcoming
  <2> QED
    BY <2>1, <2>2, <2>3, RowsParts
<1>6. ASSUME UNCHANGED <<row, call>> PROVE Parts'
  <2>1. Stored' = Stored /\ \A s : Held(s)' = Held(s)
    BY <1>6 DEF Stored, Held
  <2>2. \A b : Upcoming(b)' = Upcoming(b)
    BY <1>6, <2>1 DEF Upcoming
  <2> QED
    BY <1>6, <2>1, <2>2 DEF Parts, Part
<1>7. ASSUME NEW r \in Refreshers, RefreshBegins(r) \/ RefreshTouches(r) \/ RefreshEnds(r)
      PROVE  Parts'
  BY <1>6, <1>7 DEF RefreshBegins, RefreshTouches, RefreshEnds
<1>8. ASSUME NEW t \in Turns, RunBegins(t) \/ RunMoves(t) PROVE Parts'
  BY <1>6, <1>8 DEF RunBegins, RunMoves
<1>9. CASE Tick \/ UNCHANGED vars
  BY <1>6, <1>9 DEF Tick, vars
<1> QED
  BY <1>1, <1>2, <1>3, <1>4, <1>5, <1>7, <1>8, <1>9 DEF Next

\* A stored span that names a run names the one, and the session, that its whole trace
\* gives it: no walk over a part leaves a wrong one, not even for a while.
RunsAreRight ==
    \A s \in Stored : row[s].turn \in Turns \cup Sessions => Held(s) = Due(s)

\* resolve_span_ancestry, "declare all of them, on every row": where a span that
\* declares a turn declares its session too, a stored span that names a run names the
\* right one at every instant, whatever overlaps and however often.
THEOREM NoRunIsInvented == ASSUME DeclaredTogether PROVE Spec => []RunsAreRight
<1>1. Init => Parts
  <2> SUFFICES ASSUME Init PROVE Parts
    OBVIOUS
  <2>1. Stored = {} /\ \A s \in Spans : Held(s) = Nothing
    BY DEF Init, Stored, Held, Nothing
  <2>2. \A b \in Batches : call[b].at = "unsent" /\ DOMAIN call[b].plan = {}
    BY DEF Init, Unsent, NoPlan
  <2> QED
    BY <2>1, <2>2 DEF Parts
<1>2. Parts => RunsAreRight
  <2> SUFFICES ASSUME Parts, NEW s \in Stored, row[s].turn \in Turns \cup Sessions
               PROVE  Held(s) = Due(s)
    BY DEF RunsAreRight
  <2>1. PICK S \in SUBSET Seen(s) : s \in S /\ Held(s) = ResolvedOf(S, s)
    BY DEF Parts, Part, Seen
  <2>2. Seen(s) \in SUBSET Spans /\ S \in SUBSET Spans
    BY DEF Seen, Stored
  <2>3. TurnOf(S, s) \in Turns \cup Sessions
    BY <2>1 DEF Held, ResolvedOf
  <2>4. TurnOf(S, s) # None
    BY <2>3, TelemetryAssumption
  <2>5. Inherited(S, Session)[s] # None
    BY <2>1, <2>2, <2>4, TurnNeedsSession
  <2> QED
    BY <2>1, <2>2, <2>3, <2>5, RunsStand DEF Due
<1> QED
  BY <1>1, <1>2, InitTyped, StepTyped, StepParts, PTL DEF Spec
=============================================================================
