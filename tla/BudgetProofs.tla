----------------------------- MODULE BudgetProofs -----------------------------
(***************************************************************************)
(* The spend cap, for every number of sessions and principals, every       *)
(* caps and prices, and any number of crashes, failing statements and      *)
(* days: stops are earned, a session over its own cap stays refused, in    *)
(* the default mode no over-budget turn slips past its flag, and money is  *)
(* counted once: the totals are the sums of the rows of budget_steps.      *)
(***************************************************************************)
EXTENDS Budget, FiniteSetTheorems, WellFoundedInduction, TLAPS

\* The two caps as the stop rows mean them.
SessionOver(s) == config.unpricedStop \/ Over(spent[s], config.sessionUsd)

DayOver(k) == Over(daySpent[k], config.dailyUsd)

\* The turn waits for its handler.
Awaited == \A s \in Sessions : pc[s] # "idle" => phase[s] = "emit"

\* A verdict on its way to the stop row is still true.
VerdictStands ==
    \A s \in Sessions :
        pc[s] = "stop" => \/ verdict[s] = "session" /\ SessionOver(s)
                          \/ verdict[s] = "principal-day" /\ DayOver(DayKey(s))

\* A session stopped for its own spending has its row and no clear under way.
BlockHolds ==
    \A s \in Sessions :
        blocked[s] = "session" => s \in stops /\ SessionOver(s) /\ pc[s] # "clear"

\* In mode fail the flag is set only on the way to turn.failed.
FlagEnds ==
    config.mode = "fail" => \A s \in stopped : pc[s] = "act" \/ phase[s] = "failed"

Story == Awaited /\ VerdictStands /\ BlockHolds /\ FlagEnds /\ StopIsEarned

IInv == TypeOK /\ Story

USE BudgetAssumption

-----------------------------------------------------------------------------
(* Types.                                                                  *)

LEMMA InitType == Init => TypeOK
<1> SUFFICES ASSUME Init PROVE TypeOK
  OBVIOUS
<1>1. 1 \in Days
  BY DEF Days
<1>2. caller \in [Sessions -> Principals]
  BY DEF Init
<1> QED
  BY <1>1, <1>2 DEF Init, TypeOK, Phases

\* What every action leaves of the handler's locals is typed.
LEMMA DoneType ==
    ASSUME TypeOK, NEW s \in Sessions, Done(s)
    PROVE  /\ pc' \in [Sessions -> {"idle", "record", "clear", "stop", "act"}]
           /\ day' \in [Sessions -> Days]
           /\ verdict' \in [Sessions -> {"under", "session", "principal-day"}]
<1>1. 1 \in Days
  BY DEF Days
<1> QED
  BY <1>1 DEF TypeOK, Done

LEMMA ReturnType ==
    ASSUME TypeOK, NEW s \in Sessions, Return(s)
    PROVE  /\ pc' \in [Sessions -> {"idle", "record", "clear", "stop", "act"}]
           /\ day' \in [Sessions -> Days]
           /\ verdict' \in [Sessions -> {"under", "session", "principal-day"}]
           /\ phase' \in [Sessions -> Phases]
           /\ step' \in [Sessions -> Nat]
  BY DoneType DEF TypeOK, Return, Phases

LEMMA ThrowType ==
    ASSUME TypeOK, NEW s \in Sessions, Throw(s)
    PROVE  /\ pc' \in [Sessions -> {"idle", "record", "clear", "stop", "act"}]
           /\ day' \in [Sessions -> Days]
           /\ verdict' \in [Sessions -> {"under", "session", "principal-day"}]
           /\ phase' \in [Sessions -> Phases]
           /\ step' \in [Sessions -> Nat]
  BY DoneType DEF TypeOK, Throw, Phases

LEMMA FailsType ==
    ASSUME TypeOK, Fails
    PROVE  errors' \in Nat
  BY DEF TypeOK, Fails

LEMMA OverranType ==
    ASSUME TypeOK, NEW s \in Sessions, Overran(s)
    PROVE  overrun' \in [Sessions -> Nat]
<1> DEFINE n == IF Evaluate(spent[s], daySpent[DayKey(s)]) = "under" THEN 0 ELSE 1
<1>1. overrun' = [overrun EXCEPT ![s] = overrun[s] + n]
  BY DEF Overran
<1>2. n \in Nat
  OBVIOUS
<1> HIDE DEF n
<1> QED
  BY <1>1, <1>2 DEF TypeOK

\* One statement of recordStep: types, and totals that only grow.
LEMMA RecordStepType ==
    ASSUME TypeOK, NEW s \in Sessions, NEW cost \in Nat, RecordStep(s, cost)
    PROVE  /\ ledger' \subseteq Row
           /\ spent' \in [Sessions -> Nat]
           /\ daySpent' \in [Principals \X Days -> Nat]
           /\ overrun' \in [Sessions -> Nat]
           /\ \A t \in Sessions : spent'[t] >= spent[t]
           /\ \A k \in Principals \X Days : daySpent'[k] >= daySpent[k]
<1> DEFINE k == DayKey(s)
<1>1. k \in Principals \X Days
  BY DEF TypeOK, DayKey
<1>2. CASE Uncounted(s)
  <2>1. Coordinates(s) \in Sessions \X Nat \X Nat
    BY DEF TypeOK, Coordinates
  <2>2. ledger' \subseteq Row
    <3> DEFINE r == [at |-> Coordinates(s), principal |-> caller[s], day |-> day[s],
                     cost |-> cost]
    <3>1. r \in Row
      BY <2>1 DEF TypeOK, Row
    <3>2. ledger' = ledger \cup {r}
      BY <1>2 DEF RecordStep
    <3> HIDE DEF r
    <3> QED
      BY <3>1, <3>2 DEF TypeOK
  <2>3. spent' = [spent EXCEPT ![s] = spent[s] + cost]
    BY <1>2 DEF RecordStep
  <2>4. daySpent' = [daySpent EXCEPT ![k] = daySpent[k] + cost]
    BY <1>2 DEF RecordStep
  <2>5. daySpent[k] \in Nat /\ spent[s] \in Nat
    BY <1>1 DEF TypeOK
  <2>6. spent' \in [Sessions -> Nat] /\ \A t \in Sessions : spent'[t] >= spent[t]
    BY <2>3, <2>5 DEF TypeOK
  <2>7. daySpent \in [Principals \X Days -> Nat]
    BY DEF TypeOK
  <2> HIDE DEF k
  <2>8. /\ daySpent' \in [Principals \X Days -> Nat]
        /\ \A j \in Principals \X Days : daySpent'[j] >= daySpent[j]
    BY <1>1, <2>4, <2>5, <2>7
  <2>9. overrun' \in [Sessions -> Nat]
    BY <1>2, OverranType DEF RecordStep
  <2> QED
    BY <2>2, <2>6, <2>8, <2>9
<1>3. CASE ~Uncounted(s)
  BY <1>3 DEF RecordStep, TypeOK
<1> QED
  BY <1>2, <1>3

\* Whatever a step of Record does, its statement charged some natural number.
LEMMA RecordCharges ==
    ASSUME NEW s \in Sessions, Record(s)
    PROVE  \E cost \in Nat : RecordStep(s, cost)
  BY DEF Record

LEMMA RecordType ==
    ASSUME TypeOK, NEW s \in Sessions, Record(s)
    PROVE  TypeOK'
<1> DEFINE outcome == Evaluate(spent'[s], daySpent'[DayKey(s)])
           silent == IF outcome = "under" THEN s \in known ELSE config.mode = "observe"
<1>1. /\ ledger' \subseteq Row
      /\ spent' \in [Sessions -> Nat]
      /\ daySpent' \in [Principals \X Days -> Nat]
      /\ overrun' \in [Sessions -> Nat]
  BY RecordCharges, RecordStepType
<1>2. outcome \in {"under", "session", "principal-day"}
  BY DEF Evaluate
<1>3. known' = IF outcome = "under" THEN known \cup {s} ELSE known \ {s}
  BY DEF Record
<1>4. known' \in SUBSET Sessions
  BY <1>3 DEF TypeOK
<1>5. /\ pc' \in [Sessions -> {"idle", "record", "clear", "stop", "act"}]
      /\ day' \in [Sessions -> Days]
      /\ verdict' \in [Sessions -> {"under", "session", "principal-day"}]
      /\ phase' \in [Sessions -> Phases]
      /\ step' \in [Sessions -> Nat]
  <2>1. CASE silent
    BY <2>1, ReturnType DEF Record
  <2>2. CASE ~silent
    <3>1. /\ verdict' = [verdict EXCEPT ![s] = outcome]
          /\ Go(s, IF outcome = "under" THEN "clear" ELSE "stop")
          /\ UNCHANGED day
      BY <2>2 DEF Record
    <3> HIDE DEF outcome
    <3> QED
      BY <1>2, <3>1 DEF Go, TypeOK
  <2> QED
    BY <2>1, <2>2
<1> QED
  BY <1>1, <1>4, <1>5 DEF Record, TypeOK

LEMMA RecordStopType ==
    ASSUME TypeOK, NEW s \in Sessions, RecordStop(s), verdict[s] # "under"
    PROVE  TypeOK'
<1> DEFINE b == IF verdict[s] = "principal-day" /\ day[s] # today THEN "none" ELSE verdict[s]
<1>1. StopKey(s) \in Principals \X Days
  BY DEF StopKey, DayKey, TypeOK
<1>2. b \in {"none", "session", "principal-day"}
  BY DEF TypeOK
<1>3. /\ stops' \in SUBSET Sessions
      /\ dayStops' \in SUBSET (Principals \X Days)
      /\ stopSays' \in [Sessions -> Configs]
      /\ daySays' \in [Principals \X Days -> Configs]
      /\ blocked' \in [Sessions -> {"none", "session", "principal-day"}]
      /\ errors' \in Nat
  <2>1. CASE Fails /\ UNCHANGED <<stops, dayStops, stopSays, daySays, blocked>>
    BY <2>1, FailsType DEF TypeOK
  <2>2. CASE ~(Fails /\ UNCHANGED <<stops, dayStops, stopSays, daySays, blocked>>)
    <3>1. StopRow(s) /\ blocked' = [blocked EXCEPT ![s] = b] /\ UNCHANGED errors
      BY <2>2 DEF RecordStop
    <3> DEFINE key == StopKey(s)
               c == IF key \in dayStops THEN daySays[key] ELSE config
    <3>2. config \in Configs /\ stopSays[s] \in Configs /\ c \in Configs
      BY <1>1 DEF TypeOK
    <3>3. CASE verdict[s] = "session"
      <4>1. stopSays' \in [Sessions -> Configs]
        BY <3>1, <3>2, <3>3 DEF StopRow, TypeOK
      <4> QED
        BY <1>2, <3>1, <3>3, <4>1 DEF StopRow, TypeOK
    <3>4. CASE verdict[s] # "session"
      <4>1. /\ daySays' = [daySays EXCEPT ![key] = c]
            /\ dayStops' = dayStops \cup {key}
            /\ UNCHANGED <<stops, stopSays>>
        BY <3>1, <3>4 DEF StopRow
      <4> HIDE DEF key, c
      <4>2. daySays' \in [Principals \X Days -> Configs]
        BY <3>2, <4>1 DEF TypeOK
      <4>3. key \in Principals \X Days
        BY <1>1 DEF key
      <4> QED
        BY <1>2, <3>1, <4>1, <4>2, <4>3 DEF TypeOK
    <3> QED
      BY <3>3, <3>4
  <2> QED
    BY <2>1, <2>2
<1>4. /\ pc' \in [Sessions -> {"idle", "record", "clear", "stop", "act"}]
      /\ day' \in [Sessions -> Days]
      /\ verdict' \in [Sessions -> {"under", "session", "principal-day"}]
      /\ phase' \in [Sessions -> Phases]
      /\ step' \in [Sessions -> Nat]
      /\ stopped' \in SUBSET Sessions
      /\ asked' \in [Sessions -> Nat]
  <2>1. CASE s \in stopped
    BY <2>1, ReturnType DEF RecordStop, TypeOK
  <2>2. CASE s \notin stopped
    BY <2>2 DEF RecordStop, Go, TypeOK
  <2> QED
    BY <2>1, <2>2
<1> QED
  BY <1>3, <1>4 DEF RecordStop, TypeOK

LEMMA HandlerType ==
    ASSUME TypeOK, NEW s \in Sessions, Handler(s), pc[s] = "stop" => verdict[s] # "under"
    PROVE  TypeOK'
<1>1. CASE Record(s)
  BY <1>1, RecordType
<1>2. CASE RecordFails(s)
  <2>1. errors' \in Nat
    BY <1>2, FailsType DEF RecordFails
  <2>2. Return(s) \/ Throw(s)
    BY <1>2 DEF RecordFails
  <2>3. overrun' \in [Sessions -> Nat]
    BY <1>2, OverranType DEF RecordFails
  <2> QED
    BY <1>2, <2>1, <2>2, <2>3, ReturnType, ThrowType DEF RecordFails, TypeOK, tables, memory
<1>3. CASE ClearStop(s)
  <2>1. /\ stops' \in SUBSET Sessions
        /\ dayStops' \in SUBSET (Principals \X Days)
        /\ errors' \in Nat
    BY <1>3, FailsType DEF ClearStop, ClearsOwnSession, TypeOK
  <2> QED
    BY <1>3, <2>1, ReturnType DEF ClearStop, TypeOK, memory, history
<1>4. CASE RecordStop(s)
  BY <1>4, RecordStopType DEF RecordStop
<1>5. CASE FailTurn(s)
  BY <1>5, ThrowType DEF FailTurn, TypeOK, tables, memory, history
<1>6. CASE CancelTurn(s)
  <2>1. cancelling' \in SUBSET Sessions /\ errors' \in Nat
    BY <1>6, FailsType DEF CancelTurn, TypeOK
  <2> QED
    BY <1>6, <2>1, ReturnType DEF CancelTurn, TypeOK, tables, memory, history
<1> QED
  BY <1>1, <1>2, <1>3, <1>4, <1>5, <1>6 DEF Handler

LEMMA TurnType ==
    ASSUME TypeOK, NEW s \in Sessions, Turn(s)
    PROVE  TypeOK'
<1> USE DEF tables, memory, local, history, Phases
<1>1. CASE SessionStarted(s)
  <2>1. errors' \in Nat /\ phase' \in [Sessions -> Phases]
    BY <1>1, FailsType DEF SessionStarted, TypeOK
  <2>2. stopped' \in SUBSET Sessions /\ known' \in SUBSET Sessions
    BY <1>1 DEF SessionStarted, TypeOK
  <2> QED
    BY <1>1, <2>1, <2>2 DEF SessionStarted, TypeOK
<1>2. ASSUME NEW p \in Principals, Message(s, p) PROVE TypeOK'
  BY <1>2 DEF Message, TypeOK
<1>3. CASE StepStarted(s)
  <2>1. errors' \in Nat /\ refused' \in SUBSET Sessions
    BY <1>3, FailsType DEF StepStarted, TypeOK
  <2> QED
    BY <1>3, <2>1 DEF StepStarted, TypeOK
<1>4. CASE StepCompleted(s)
  <2>0. /\ phase \in [Sessions -> Phases] /\ step \in [Sessions -> Nat]
        /\ pc \in [Sessions -> {"idle", "record", "clear", "stop", "act"}]
        /\ day \in [Sessions -> Days] /\ today \in Days
    BY DEF TypeOK
  <2>1. phase' \in [Sessions -> Phases] /\ step' \in [Sessions -> Nat]
    BY <1>4, <2>0 DEF StepCompleted
  <2>2. pc' \in [Sessions -> {"idle", "record", "clear", "stop", "act"}]
    BY <1>4, <2>0 DEF StepCompleted
  <2>3. day' \in [Sessions -> Days]
    BY <1>4, <2>0 DEF StepCompleted
  <2> QED
    BY <1>4, <2>1, <2>2, <2>3 DEF StepCompleted, TypeOK
<1>5. CASE NextStep(s)
  BY <1>5 DEF NextStep, TypeOK
<1>6. CASE TurnCompleted(s)
  BY <1>6 DEF TurnCompleted, TurnOver, TypeOK
<1>7. CASE TurnCancelled(s)
  BY <1>7 DEF TurnCancelled, TurnOver, Freed, TypeOK
<1>8. CASE TurnFailed(s)
  BY <1>8 DEF TurnFailed, TurnOver, Freed, TypeOK
<1>9. CASE UserCancels(s)
  BY <1>9 DEF UserCancels, TypeOK
<1> QED
  BY <1>1, <1>2, <1>3, <1>4, <1>5, <1>6, <1>7, <1>8, <1>9 DEF Turn

LEMMA StepType == IInv /\ [Next]_vars => TypeOK'
<1> SUFFICES ASSUME IInv, [Next]_vars PROVE TypeOK'
  OBVIOUS
<1>1. TypeOK
  BY DEF IInv
<1>2. ASSUME NEW s \in Sessions, Handler(s) PROVE TypeOK'
  <2>1. pc[s] = "stop" => verdict[s] # "under"
    BY DEF IInv, Story, VerdictStands
  <2> QED
    BY <1>1, <1>2, <2>1, HandlerType
<1>3. ASSUME NEW s \in Sessions, Turn(s) PROVE TypeOK'
  BY <1>1, <1>3, TurnType
<1>4. CASE NewDay
  <2>1. today' \in Days
    BY <1>1, <1>4 DEF NewDay, TypeOK, Days
  <2> QED
    BY <1>1, <1>4, <2>1 DEF NewDay, TypeOK, eve, tables, memory, local
<1>5. ASSUME NEW c \in Configs, Restart(c) PROVE TypeOK'
  <2>1. 1 \in Days
    BY DEF Days
  <2>2. /\ config' \in Configs
        /\ restarts' \in Nat
        /\ phase' \in [Sessions -> Phases]
        /\ blocked' \in [Sessions -> {"none", "session", "principal-day"}]
    BY <1>1, <1>5 DEF Restart, TypeOK, Phases
  <2> QED
    BY <1>1, <1>5, <2>1, <2>2 DEF Restart, TypeOK, tables
<1>6. CASE UNCHANGED vars
  BY <1>1, <1>6 DEF TypeOK, vars, eve, tables, memory, local, history
<1> QED
  BY <1>2, <1>3, <1>4, <1>5, <1>6 DEF Next

-----------------------------------------------------------------------------
(* The story of a stop.                                                    *)

LEMMA InitStory == Init => Story
<1> SUFFICES ASSUME Init PROVE Story
  OBVIOUS
<1> USE DEF Init
<1>1. Awaited /\ VerdictStands /\ BlockHolds
  BY DEF Awaited, VerdictStands, BlockHolds
<1>2. FlagEnds /\ StopIsEarned
  BY DEF FlagEnds, StopIsEarned
<1> QED
  BY <1>1, <1>2 DEF Story

\* What exceeds a cap goes on exceeding it.
LEMMA OverGrows ==
    ASSUME NEW low \in Nat, NEW high \in Nat, high >= low, NEW cap \in Int, Over(low, cap)
    PROVE  Over(high, cap)
  BY DEF Over

\* The caps of every configuration are integers.
LEMMA CapsTyped ==
    ASSUME NEW c \in Configs
    PROVE  c.sessionUsd \in Int /\ c.dailyUsd \in Int
  BY DEF Config

\* The totals do not shrink.
Grows ==
    /\ \A s \in Sessions : spent'[s] >= spent[s]
    /\ \A k \in Principals \X Days : daySpent'[k] >= daySpent[k]

\* A stop row stays as it was written, or is written now by a process that runs
\* with the configuration the row then states.
RowsStand ==
    /\ \A s \in stops' : \/ s \in stops /\ stopSays'[s] = stopSays[s]
                         \/ SessionOver(s)' /\ stopSays'[s] = config'
    /\ \A k \in dayStops' : \/ k \in dayStops /\ daySays'[k] = daySays[k]
                            \/ DayOver(k)' /\ daySays'[k] = config'

\* Stop rows and totals that only move as they do in the code keep every row earned.
LEMMA EarnedKeeps ==
    ASSUME TypeOK, TypeOK', StopIsEarned, Grows, RowsStand
    PROVE  StopIsEarned'
<1>1. ASSUME NEW s \in stops'
      PROVE  stopSays'[s].unpricedStop \/ Over(spent'[s], stopSays'[s].sessionUsd)
  <2>0. s \in Sessions /\ stopSays'[s] \in Configs
    BY DEF TypeOK
  <2>1. CASE s \in stops /\ stopSays'[s] = stopSays[s]
    <3>1. stopSays[s].unpricedStop \/ Over(spent[s], stopSays[s].sessionUsd)
      BY <2>1 DEF StopIsEarned
    <3>2. spent[s] \in Nat /\ spent'[s] \in Nat /\ spent'[s] >= spent[s]
      BY <2>0 DEF TypeOK, Grows
    <3>3. stopSays[s].sessionUsd \in Int
      BY <2>0, <2>1, CapsTyped
    <3> QED
      BY <2>1, <3>1, <3>2, <3>3, OverGrows
  <2>2. CASE SessionOver(s)' /\ stopSays'[s] = config'
    BY <2>2 DEF SessionOver
  <2> QED
    BY <1>1, <2>1, <2>2 DEF RowsStand
<1>2. ASSUME NEW k \in dayStops'
      PROVE  Over(daySpent'[k], daySays'[k].dailyUsd)
  <2>0. k \in Principals \X Days /\ daySays'[k] \in Configs
    BY DEF TypeOK
  <2>1. CASE k \in dayStops /\ daySays'[k] = daySays[k]
    <3>1. Over(daySpent[k], daySays[k].dailyUsd)
      BY <2>1 DEF StopIsEarned
    <3>2. daySpent[k] \in Nat /\ daySpent'[k] \in Nat /\ daySpent'[k] >= daySpent[k]
      BY <2>0 DEF TypeOK, Grows
    <3>3. daySays[k].dailyUsd \in Int
      BY <2>0, <2>1, CapsTyped
    <3> QED
      BY <2>1, <3>1, <3>2, <3>3, OverGrows
  <2>2. CASE DayOver(k)' /\ daySays'[k] = config'
    BY <2>2 DEF DayOver
  <2> QED
    BY <1>2, <2>1, <2>2 DEF RowsStand
<1> QED
  BY <1>1, <1>2 DEF StopIsEarned

\* A session that is over its cap under the deployed configuration stays over it.
LEMMA OverStays ==
    ASSUME TypeOK, TypeOK', Grows, config' = config
    PROVE  /\ \A s \in Sessions : SessionOver(s) => SessionOver(s)'
           /\ \A k \in Principals \X Days : DayOver(k) => DayOver(k)'
<1>1. config \in Configs
  BY DEF TypeOK
<1>2. ASSUME NEW s \in Sessions, SessionOver(s) PROVE SessionOver(s)'
  <2>1. spent[s] \in Nat /\ spent'[s] \in Nat /\ spent'[s] >= spent[s]
    BY DEF TypeOK, Grows
  <2> QED
    BY <1>1, <1>2, <2>1, OverGrows, CapsTyped DEF SessionOver
<1>3. ASSUME NEW k \in Principals \X Days, DayOver(k) PROVE DayOver(k)'
  <2>1. daySpent[k] \in Nat /\ daySpent'[k] \in Nat /\ daySpent'[k] >= daySpent[k]
    BY DEF TypeOK, Grows
  <2> QED
    BY <1>1, <1>3, <2>1, OverGrows, CapsTyped DEF DayOver
<1> QED
  BY <1>2, <1>3

\* Session s leaves its handler where it is, unchanged and still awaited.
Holds(s) ==
    /\ pc'[s] = pc[s] /\ verdict'[s] = verdict[s] /\ day'[s] = day[s]
    /\ pc[s] # "idle" => phase'[s] = phase[s] /\ caller'[s] = caller[s]

\* The actions that touch neither money nor stop rows: every handler holds or is
\* past its stop, and a flag is set only where its turn is bound to fail.
LEMMA QuietKeeps ==
    ASSUME TypeOK, TypeOK', Story,
           UNCHANGED <<config, spent, daySpent, stops, dayStops, stopSays, daySays>>,
           \A s \in Sessions :
             Holds(s) \/ pc'[s] = "idle" \/ (pc'[s] = "record" /\ phase'[s] = "emit"),
           \A s \in Sessions : blocked'[s] = "session" => blocked[s] = "session",
           config.mode = "fail" =>
             \A s \in stopped' : pc'[s] = "act" \/ phase'[s] = "failed"
    PROVE  Story'
<1> USE DEF Story
<1>1. Grows
  BY DEF Grows, TypeOK
<1>2. Awaited'
  BY DEF Awaited, Holds, TypeOK
<1>3. \A s \in Sessions : SessionOver(s)' = SessionOver(s)
  BY DEF SessionOver
<1>4. \A k : DayOver(k)' = DayOver(k)
  BY DEF DayOver
<1>5. VerdictStands'
  <2> SUFFICES ASSUME NEW s \in Sessions, pc'[s] = "stop"
               PROVE  \/ verdict'[s] = "session" /\ SessionOver(s)'
                      \/ verdict'[s] = "principal-day" /\ DayOver(DayKey(s))'
    BY DEF VerdictStands
  <2>1. Holds(s) /\ pc[s] = "stop"
    BY DEF Holds
  <2>2. DayKey(s)' = DayKey(s)
    BY <2>1 DEF Holds, DayKey
  <2>3. DayOver(DayKey(s))' = DayOver(DayKey(s))
    BY <2>2 DEF DayOver
  <2> QED
    BY <1>3, <2>1, <2>3 DEF Holds, VerdictStands
<1>6. BlockHolds'
  BY <1>3 DEF BlockHolds, Holds
<1>7. FlagEnds'
  BY DEF FlagEnds
<1>8. StopIsEarned'
  BY <1>1, EarnedKeeps DEF RowsStand
<1> QED
  BY <1>2, <1>5, <1>6, <1>7, <1>8

\* In mode fail nobody is flagged outside the throw and the failure it ends in.
LEMMA Unflagged ==
    ASSUME Story, NEW s \in Sessions, config.mode = "fail", phase[s] # "failed",
           phase[s] # "emit" \/ pc[s] # "act"
    PROVE  s \notin stopped
  BY DEF Story, FlagEnds, Awaited

\* Outside its handler a session is idle.
LEMMA Idle ==
    ASSUME Story, NEW s \in Sessions, phase[s] # "emit"
    PROVE  pc[s] = "idle"
  BY DEF Story, Awaited

LEMMA TurnStory ==
    ASSUME TypeOK, TypeOK', Story, NEW s \in Sessions, Turn(s)
    PROVE  Story'
<1> USE DEF tables, memory, local, history
<1>1. UNCHANGED <<config, spent, daySpent, stops, dayStops, stopSays, daySays>>
  BY DEF Turn, SessionStarted, Message, StepStarted, StepCompleted, NextStep, TurnCompleted,
         TurnCancelled, TurnFailed, TurnOver, UserCancels
<1>2. \A t \in Sessions :
        Holds(t) \/ pc'[t] = "idle" \/ (pc'[t] = "record" /\ phase'[t] = "emit")
  <2>1. CASE UserCancels(s)
    BY <2>1 DEF UserCancels, Holds
  <2>2. CASE StepCompleted(s)
    BY <2>2, Idle DEF StepCompleted, Holds, TypeOK
  <2>3. CASE ~UserCancels(s) /\ ~StepCompleted(s)
    <3>1. phase[s] # "emit" /\ UNCHANGED local
      BY <2>3 DEF Turn, SessionStarted, Message, StepStarted, NextStep, TurnCompleted,
                  TurnCancelled, TurnFailed, TurnOver
    <3>2. \A t \in Sessions \ {s} : phase'[t] = phase[t] /\ caller'[t] = caller[t]
      BY <2>3 DEF Turn, SessionStarted, Message, StepStarted, NextStep, TurnCompleted,
                  TurnCancelled, TurnFailed, TurnOver, TypeOK
    <3> QED
      BY <3>1, <3>2, Idle DEF Holds
  <2> QED
    BY <2>1, <2>2, <2>3
<1>3. \A t \in Sessions : blocked'[t] = "session" => blocked[t] = "session"
  <2>1. ASSUME NEW p \in Principals, Message(s, p)
        PROVE  \A t \in Sessions : blocked'[t] = "session" => blocked[t] = "session"
    BY <2>1 DEF Message, TypeOK
  <2>2. CASE \A p \in Principals : ~Message(s, p)
    BY <2>2 DEF Turn, SessionStarted, StepStarted, StepCompleted, NextStep, TurnCompleted,
                TurnCancelled, TurnFailed, TurnOver, UserCancels
  <2> QED
    BY <2>1, <2>2
<1>4. ASSUME config.mode = "fail", NEW t \in stopped'
      PROVE  pc'[t] = "act" \/ phase'[t] = "failed"
  <2>0. t \in Sessions
    BY DEF TypeOK
  <2>1. t \in stopped
    BY DEF Turn, SessionStarted, Message, StepStarted, StepCompleted, NextStep, TurnCompleted,
           TurnCancelled, TurnFailed, TurnOver, UserCancels, Freed
  <2>2. pc[t] = "act" \/ phase[t] = "failed"
    BY <1>4, <2>1 DEF Story, FlagEnds
  <2>3. CASE UserCancels(s)
    BY <2>2, <2>3 DEF UserCancels
  <2>4. CASE TurnFailed(s)
    BY <2>0, <2>2, <2>4 DEF TurnFailed, TurnOver, Freed, TypeOK
  <2>5. CASE ~UserCancels(s) /\ ~TurnFailed(s)
    <3>1. phase[s] # "emit" /\ phase[s] # "failed"
      BY <2>5 DEF Turn, SessionStarted, Message, StepStarted, StepCompleted, NextStep,
                  TurnCompleted, TurnCancelled, TurnOver
    <3>2. t # s
      BY <1>4, <2>1, <3>1, Unflagged
    <3>3. phase'[t] = phase[t] /\ pc'[t] = pc[t]
      BY <2>0, <2>5, <3>2 DEF Turn, SessionStarted, Message, StepStarted, StepCompleted,
                  NextStep, TurnCompleted, TurnCancelled, TurnOver, TypeOK
    <3> QED
      BY <2>2, <3>3
  <2> QED
    BY <2>3, <2>4, <2>5
<1> QED
  BY <1>1, <1>2, <1>3, <1>4, QuietKeeps

\* A handler that ends, one way or the other, leaves the others where they are.
LEMMA DoneHolds ==
    ASSUME TypeOK, NEW s \in Sessions, Return(s) \/ Throw(s), UNCHANGED caller
    PROVE  /\ pc'[s] = "idle"
           /\ \A t \in Sessions \ {s} : Holds(t) /\ phase'[t] = phase[t]
  BY DEF TypeOK, Return, Throw, Done, Holds

LEMMA RecordStory ==
    ASSUME TypeOK, TypeOK', Story, NEW s \in Sessions, Record(s)
    PROVE  Story'
<1> DEFINE outcome == Evaluate(spent'[s], daySpent'[DayKey(s)])
           silent == IF outcome = "under" THEN s \in known ELSE config.mode = "observe"
<1> USE DEF Story
<1>0. /\ pc[s] = "record" /\ phase[s] = "emit"
      /\ UNCHANGED <<config, caller, stops, dayStops, stopSays, daySays, stopped, blocked>>
  BY DEF Record, Awaited
<1>1. Grows
  BY RecordCharges, RecordStepType DEF Grows
<1>2. \A t \in Sessions : SessionOver(t) => SessionOver(t)'
  BY <1>0, <1>1, OverStays
<1>3. \A k \in Principals \X Days : DayOver(k) => DayOver(k)'
  BY <1>0, <1>1, OverStays
<1>4. \A t \in Sessions \ {s} : Holds(t) /\ phase'[t] = phase[t]
  <2>1. CASE silent
    BY <1>0, <2>1, DoneHolds DEF Record
  <2>2. CASE ~silent
    BY <1>0, <2>2 DEF Record, Go, Holds, TypeOK
  <2> QED
    BY <2>1, <2>2
<1>5. \/ pc'[s] = "idle"
      \/ pc'[s] = "clear" /\ outcome = "under" /\ phase'[s] = "emit"
      \/ /\ pc'[s] = "stop" /\ outcome # "under" /\ verdict'[s] = outcome
         /\ day'[s] = day[s] /\ phase'[s] = "emit"
  <2>1. CASE silent
    BY <1>0, <2>1, DoneHolds DEF Record
  <2>2. CASE ~silent
    <3>1. /\ verdict' = [verdict EXCEPT ![s] = outcome]
          /\ Go(s, IF outcome = "under" THEN "clear" ELSE "stop")
          /\ UNCHANGED day
      BY <2>2 DEF Record
    <3> HIDE DEF outcome
    <3> QED
      BY <1>0, <3>1 DEF Go, TypeOK
  <2> QED
    BY <2>1, <2>2
<1>6. /\ outcome = "session" => SessionOver(s)'
      /\ outcome = "principal-day" => Over(daySpent'[DayKey(s)], config.dailyUsd)
      /\ SessionOver(s)' => outcome = "session"
      /\ outcome \in {"under", "session", "principal-day"}
  BY <1>0 DEF Evaluate, SessionOver
<1> HIDE DEF outcome, silent
<1>7. Awaited'
  BY <1>4, <1>5 DEF Awaited, Holds
<1>8. VerdictStands'
  <2>1. ASSUME NEW t \in Sessions \ {s}, pc'[t] = "stop"
        PROVE  \/ verdict'[t] = "session" /\ SessionOver(t)'
               \/ verdict'[t] = "principal-day" /\ DayOver(DayKey(t))'
    <3>1. DayKey(t)' = DayKey(t) /\ DayKey(t) \in Principals \X Days
      BY <1>0, <1>4 DEF DayKey, Holds, TypeOK
    <3>2. DayOver(DayKey(t)) => DayOver(DayKey(t))'
      BY <1>3, <3>1 DEF DayOver
    <3> QED
      BY <1>2, <1>4, <2>1, <3>2 DEF VerdictStands, Holds
  <2>2. ASSUME pc'[s] = "stop"
        PROVE  \/ verdict'[s] = "session" /\ SessionOver(s)'
               \/ verdict'[s] = "principal-day" /\ DayOver(DayKey(s))'
    <3>1. DayKey(s)' = DayKey(s)
      BY <1>0, <1>5, <2>2 DEF DayKey
    <3> QED
      BY <1>0, <1>5, <1>6, <2>2, <3>1 DEF DayOver
  <2> QED
    BY <2>1, <2>2 DEF VerdictStands
<1>9. BlockHolds'
  BY <1>0, <1>2, <1>4, <1>5, <1>6 DEF BlockHolds, Holds
<1>10. FlagEnds'
  BY <1>0, <1>4, Unflagged DEF FlagEnds, Holds, TypeOK
<1>11. StopIsEarned'
  BY <1>0, <1>1, EarnedKeeps DEF RowsStand
<1> QED
  BY <1>7, <1>8, <1>9, <1>10, <1>11

LEMMA ClearStory ==
    ASSUME TypeOK, TypeOK', Story, NEW s \in Sessions, ClearStop(s)
    PROVE  Story'
<1> USE DEF Story
<1>0. /\ pc[s] = "clear" /\ phase[s] = "emit"
      /\ UNCHANGED <<config, caller, spent, daySpent, stopSays, daySays, stopped, blocked>>
  BY DEF ClearStop, Awaited, memory, history
<1>1. stops \ {s} \subseteq stops' /\ stops' \subseteq stops /\ dayStops' \subseteq dayStops
  BY DEF ClearStop, ClearsOwnSession
<1>2. pc'[s] = "idle" /\ \A t \in Sessions \ {s} : Holds(t) /\ phase'[t] = phase[t]
  BY <1>0, DoneHolds DEF ClearStop
<1>3. Grows
  BY <1>0 DEF Grows, TypeOK
<1>4. Awaited'
  BY <1>2 DEF Awaited, Holds
<1>5. VerdictStands'
  BY <1>0, <1>2 DEF VerdictStands, Holds, SessionOver, DayOver, DayKey
<1>6. BlockHolds'
  BY <1>0, <1>1, <1>2 DEF BlockHolds, Holds, SessionOver
<1>7. FlagEnds'
  BY <1>0, <1>2, Unflagged DEF FlagEnds, Holds, TypeOK
<1>8. StopIsEarned'
  BY <1>0, <1>1, <1>3, EarnedKeeps DEF RowsStand
<1> QED
  BY <1>4, <1>5, <1>6, <1>7, <1>8

LEMMA RecordStopStory ==
    ASSUME TypeOK, TypeOK', Story, NEW s \in Sessions, RecordStop(s)
    PROVE  Story'
<1> USE DEF Story
<1>0. /\ pc[s] = "stop" /\ phase[s] = "emit"
      /\ UNCHANGED <<config, caller, spent, daySpent>>
  BY DEF RecordStop, Awaited
<1>1. \/ verdict[s] = "session" /\ SessionOver(s)
      \/ verdict[s] = "principal-day" /\ DayOver(DayKey(s))
  BY <1>0 DEF VerdictStands
<1>2. /\ stops \subseteq stops'
      /\ \A t \in stops' : \/ t \in stops /\ stopSays'[t] = stopSays[t]
                           \/ SessionOver(t) /\ stopSays'[t] = config
      /\ \A k \in dayStops' : \/ k \in dayStops /\ daySays'[k] = daySays[k]
                              \/ DayOver(k) /\ daySays'[k] = config
      /\ blocked'[s] = "session" => s \in stops' /\ SessionOver(s)
      /\ \A t \in Sessions \ {s} : blocked'[t] = blocked[t]
  <2>1. CASE Fails /\ UNCHANGED <<stops, dayStops, stopSays, daySays, blocked>>
    BY <2>1 DEF BlockHolds
  <2>2. CASE ~(Fails /\ UNCHANGED <<stops, dayStops, stopSays, daySays, blocked>>)
    <3> DEFINE b == IF verdict[s] = "principal-day" /\ day[s] # today
                      THEN "none" ELSE verdict[s]
    <3>1. StopRow(s) /\ blocked' = [blocked EXCEPT ![s] = b]
      BY <2>2 DEF RecordStop
    <3>0. StopKey(s) \in Principals \X Days
      BY DEF StopKey, DayKey, TypeOK
    <3>2. b = "session" => verdict[s] = "session"
      OBVIOUS
    <3> HIDE DEF b
    <3>3. blocked'[s] = b /\ \A t \in Sessions \ {s} : blocked'[t] = blocked[t]
      BY <3>1 DEF TypeOK
    <3>4. /\ stops \subseteq stops'
          /\ verdict[s] = "session" => s \in stops'
          /\ \A t \in stops' : \/ t \in stops /\ stopSays'[t] = stopSays[t]
                               \/ SessionOver(t) /\ stopSays'[t] = config
      BY <1>1, <3>1 DEF StopRow, TypeOK
    <3>5. \A k \in dayStops' : \/ k \in dayStops /\ daySays'[k] = daySays[k]
                               \/ DayOver(k) /\ daySays'[k] = config
      <4> DEFINE key == StopKey(s)
                 c == IF key \in dayStops THEN daySays[key] ELSE config
      <4>1. CASE verdict[s] = "session"
        <5>1. UNCHANGED <<dayStops, daySays>>
          BY <3>1, <4>1 DEF StopRow
        <5> HIDE DEF key, c
        <5> QED
          BY <5>1
      <4>2. CASE verdict[s] # "session"
        <5>1. daySays' = [daySays EXCEPT ![key] = c] /\ dayStops' = dayStops \cup {key}
          BY <3>1, <4>2 DEF StopRow
        <5>2. DayOver(key)
          BY <1>1, <4>2 DEF StopKey
        <5>3. key \in dayStops => c = daySays[key]
          OBVIOUS
        <5>4. key \notin dayStops => c = config
          OBVIOUS
        <5>5. daySays \in [Principals \X Days -> Configs] /\ dayStops \subseteq Principals \X Days
          BY DEF TypeOK
        <5>6. key \in Principals \X Days
          BY <3>0
        <5> HIDE DEF key, c, DayOver
        <5>7. ASSUME NEW k \in dayStops', k # key
              PROVE  k \in dayStops /\ daySays'[k] = daySays[k]
          BY <5>1, <5>5, <5>7
        <5>8. daySays'[key] = c
          BY <5>1, <5>5, <5>6
        <5> QED
          BY <5>2, <5>3, <5>4, <5>7, <5>8
      <4> QED
        BY <4>1, <4>2
    <3> QED
      BY <1>1, <3>2, <3>3, <3>4, <3>5
  <2> QED
    BY <2>1, <2>2
<1>3. /\ \A t \in Sessions \ {s} : Holds(t) /\ phase'[t] = phase[t]
      /\ \/ pc'[s] = "idle" /\ s \in stopped /\ stopped' = stopped
         \/ pc'[s] = "act" /\ phase'[s] = "emit" /\ stopped' = stopped \cup {s}
  <2>1. CASE s \in stopped
    BY <1>0, <2>1, DoneHolds DEF RecordStop
  <2>2. CASE s \notin stopped
    BY <1>0, <2>2 DEF RecordStop, Go, Holds, TypeOK
  <2> QED
    BY <2>1, <2>2
<1>4. \A t \in Sessions : SessionOver(t)' = SessionOver(t)
  BY <1>0 DEF SessionOver
<1>5. \A k : DayOver(k)' = DayOver(k)
  BY <1>0 DEF DayOver
<1>6. Awaited'
  BY <1>3 DEF Awaited, Holds
<1>7. VerdictStands'
  BY <1>0, <1>3 DEF VerdictStands, Holds, SessionOver, DayOver, DayKey
<1>8. BlockHolds'
  BY <1>2, <1>3, <1>4 DEF BlockHolds, Holds
<1>9. FlagEnds'
  BY <1>0, <1>3, Unflagged DEF FlagEnds, Holds, TypeOK
<1>10. StopIsEarned'
  <2>1. Grows
    BY <1>0 DEF Grows, TypeOK
  <2>2. RowsStand
    BY <1>0, <1>2, <1>4, <1>5 DEF RowsStand, TypeOK
  <2> QED
    BY <2>1, <2>2, EarnedKeeps
<1> QED
  BY <1>6, <1>7, <1>8, <1>9, <1>10

LEMMA HandlerStory ==
    ASSUME TypeOK, TypeOK', Story, NEW s \in Sessions, Handler(s)
    PROVE  Story'
<1> USE DEF tables, memory, history
<1>1. CASE Record(s)
  BY <1>1, RecordStory
<1>2. CASE RecordFails(s)
  <2>1. /\ UNCHANGED <<config, caller, spent, daySpent, stops, dayStops, stopSays, daySays,
                      stopped, blocked>>
        /\ Return(s) \/ Throw(s)
        /\ pc[s] = "record" /\ phase[s] = "emit"
    BY <1>2 DEF RecordFails, Story, Awaited
  <2>2. pc'[s] = "idle" /\ \A t \in Sessions \ {s} : Holds(t) /\ phase'[t] = phase[t]
    BY <2>1, DoneHolds
  <2>3. config.mode = "fail" => \A t \in stopped' : pc'[t] = "act" \/ phase'[t] = "failed"
    BY <2>1, <2>2, Unflagged DEF Story, FlagEnds, Holds, TypeOK
  <2> QED
    BY <2>1, <2>2, <2>3, QuietKeeps
<1>3. CASE ClearStop(s)
  BY <1>3, ClearStory
<1>4. CASE RecordStop(s)
  BY <1>4, RecordStopStory
<1>5. CASE FailTurn(s) \/ CancelTurn(s)
  <2>1. /\ UNCHANGED <<config, caller, spent, daySpent, stops, dayStops, stopSays, daySays,
                      stopped, blocked>>
        /\ Return(s) \/ Throw(s)
        /\ config.mode = "fail" => Throw(s)
    BY <1>5 DEF FailTurn, CancelTurn
  <2>2. pc'[s] = "idle" /\ \A t \in Sessions \ {s} : Holds(t) /\ phase'[t] = phase[t]
    BY <2>1, DoneHolds
  <2>3. config.mode = "fail" => phase'[s] = "failed"
    BY <2>1 DEF Throw, TypeOK
  <2>4. config.mode = "fail" => \A t \in stopped' : pc'[t] = "act" \/ phase'[t] = "failed"
    BY <2>1, <2>2, <2>3 DEF Story, FlagEnds, Holds, TypeOK
  <2> QED
    BY <2>1, <2>2, <2>4, QuietKeeps
<1> QED
  BY <1>1, <1>2, <1>3, <1>4, <1>5 DEF Handler

LEMMA RestartStory ==
    ASSUME TypeOK, TypeOK', Story, NEW c \in Configs, Restart(c)
    PROVE  Story'
<1> USE DEF Story, tables
<1>1. \A s \in Sessions : pc'[s] = "idle"
  BY DEF Restart
<1>2. Awaited' /\ VerdictStands' /\ FlagEnds'
  BY <1>1 DEF Awaited, VerdictStands, FlagEnds, Restart
<1>3. BlockHolds'
  BY <1>1 DEF BlockHolds, Restart, SessionOver
<1>4. Grows /\ UNCHANGED <<stops, dayStops, stopSays, daySays>>
  BY DEF Restart, Grows, TypeOK
<1>5. StopIsEarned'
  BY <1>4, EarnedKeeps DEF RowsStand
<1> QED
  BY <1>2, <1>3, <1>5

LEMMA StepInv == IInv /\ [Next]_vars => IInv'
<1> SUFFICES ASSUME IInv, [Next]_vars PROVE Story'
  BY StepType DEF IInv
<1>0. TypeOK /\ TypeOK' /\ Story
  BY StepType DEF IInv
<1>1. ASSUME NEW s \in Sessions, Handler(s) PROVE Story'
  BY <1>0, <1>1, HandlerStory
<1>2. ASSUME NEW s \in Sessions, Turn(s) PROVE Story'
  BY <1>0, <1>2, TurnStory
<1>3. ASSUME NewDay \/ UNCHANGED vars PROVE Story'
  <2>1. /\ UNCHANGED <<config, spent, daySpent, stops, dayStops, stopSays, daySays, stopped,
                      phase, caller, local>>
        /\ \A s \in Sessions : blocked'[s] = "session" => blocked[s] = "session"
    BY <1>3 DEF NewDay, vars, eve, tables, memory, history
  <2>2. \A s \in Sessions : Holds(s)
    BY <2>1 DEF Holds, local
  <2> QED
    BY <1>0, <2>1, <2>2, QuietKeeps DEF Story, FlagEnds, local
<1>4. ASSUME NEW c \in Configs, Restart(c) PROVE Story'
  BY <1>0, <1>4, RestartStory
<1> QED
  BY <1>1, <1>2, <1>3, <1>4 DEF Next

-----------------------------------------------------------------------------
\* IInv is inductive.
THEOREM Invariance == Spec => []IInv
<1>1. Init => IInv
  BY InitType, InitStory DEF IInv
<1> QED
  BY <1>1, StepInv, PTL DEF Spec

\* Every variable keeps its type.
THEOREM TypeCorrect == Spec => []TypeOK
<1>1. IInv => TypeOK
  BY DEF IInv
<1> QED
  BY Invariance, <1>1, PTL

\* A stop row was earned by spending, whatever was decided awaits before it was
\* written and whatever happened in between.
THEOREM EveryStopWasEarned == Spec => []StopIsEarned
<1>1. IInv => StopIsEarned
  BY DEF IInv, Story
<1> QED
  BY Invariance, <1>1, PTL

\* A session over its own cap starts every step with its tools refused.
THEOREM OverItsCapStaysRefused == Spec => SessionStaysRefused
<1>1. IInv /\ [Next]_vars => [Refusal({"session"})]_vars
  <2> SUFFICES ASSUME IInv, Next, NEW s \in Sessions, Starts(s), blocked[s] = "session",
                      errors' = errors
               PROVE  s \in refused'
    BY DEF Refusal
  <2>1. s \in stops
    BY DEF IInv, Story, BlockHolds
  <2>2. StepStarted(s)
    <3>1. ASSUME NEW t \in Sessions, Handler(t) PROVE FALSE
      <4>1. phase'[s] = phase[s] \/ phase'[s] \in {"next", "failed"}
        BY <3>1 DEF Handler, Record, RecordFails, ClearStop, RecordStop, FailTurn, CancelTurn,
                    Return, Throw, Go, IInv, TypeOK
      <4> QED
        BY <4>1 DEF Starts
    <3>2. ASSUME NEW t \in Sessions, Turn(t) PROVE StepStarted(s)
      BY <3>2 DEF Turn, SessionStarted, Message, StepStarted, StepCompleted, NextStep,
                  TurnCompleted, TurnCancelled, TurnFailed, TurnOver, UserCancels, Starts,
                  IInv, TypeOK
    <3>3. ~NewDay
      BY DEF NewDay, eve, Starts
    <3>4. \A c \in Configs : ~Restart(c)
      BY DEF Restart, Starts
    <3> QED
      BY <3>1, <3>2, <3>3, <3>4 DEF Next
  <2>3. ~Fails
    BY DEF Fails, IInv, TypeOK
  <2> QED
    BY <2>1, <2>2, <2>3 DEF StepStarted, Stop
<1> QED
  BY Invariance, <1>1, PTL DEF Spec, SessionStaysRefused

\* In mode fail a handler that found the budget gone never lets its turn go on.
THEOREM OverBudgetTurnEnds == Spec => FailedAgain
<1> DEFINE A == \A s \in Sessions :
                   (pc[s] \in {"stop", "act"} /\ config.mode = "fail") => phase'[s] # "next"
<1>1. IInv /\ [Next]_vars => [A]_vars
  <2> SUFFICES ASSUME IInv, Next, NEW s \in Sessions, pc[s] \in {"stop", "act"},
                      config.mode = "fail", phase'[s] = "next"
               PROVE  FALSE
    OBVIOUS
  <2>0. TypeOK /\ Story /\ phase[s] = "emit"
    BY DEF IInv, Story, Awaited
  <2>1. pc[s] = "stop" => s \notin stopped
    BY <2>0, Unflagged
  <2>2. ASSUME NEW t \in Sessions, Handler(t) PROVE FALSE
    <3>1. CASE t = s
      BY <2>0, <2>1, <2>2, <3>1 DEF Handler, Record, RecordFails, ClearStop, RecordStop,
                                    FailTurn, CancelTurn, Go, Throw, TypeOK
    <3>2. CASE t # s
      BY <2>0, <2>2, <3>2 DEF Handler, Record, RecordFails, ClearStop, RecordStop, FailTurn,
                              CancelTurn, Return, Throw, Go, TypeOK
    <3> QED
      BY <3>1, <3>2
  <2>3. ASSUME NEW t \in Sessions, Turn(t) PROVE FALSE
    BY <2>0, <2>3 DEF Turn, SessionStarted, Message, StepStarted, StepCompleted, NextStep,
                      TurnCompleted, TurnCancelled, TurnFailed, TurnOver, UserCancels, TypeOK
  <2>4. ~NewDay
    BY <2>0 DEF NewDay, eve
  <2>5. \A c \in Configs : ~Restart(c)
    BY <2>0 DEF Restart
  <2> QED
    BY <2>2, <2>3, <2>4, <2>5 DEF Next
<1> QED
  BY Invariance, <1>1, PTL DEF Spec, FailedAgain

-----------------------------------------------------------------------------
(* At most one step over.                                                  *)

\* The turn of s is bound to end, or has ended: the step over the cap was its last.
Ending(s) == pc[s] \in {"stop", "act"} \/ phase[s] \in {"failed", "parked"}

\* The step over the cap is the one that ends the turn; only a restart and a
\* failing statement leave room for another.
StepsOver ==
    config.mode = "fail" =>
      \A s \in Sessions : \/ overrun[s] <= restarts + errors
                          \/ Ending(s) /\ overrun[s] <= 1 + restarts + errors

\* No step of the turn is counted: what was ending goes on ending.
LEMMA EndingKeeps ==
    ASSUME TypeOK, TypeOK', StepsOver, config'.mode = config.mode, restarts' >= restarts,
           errors' >= errors, NEW s \in Sessions, config.mode = "fail",
           \/ overrun'[s] = 0
           \/ overrun'[s] = overrun[s] /\ (Ending(s) => Ending(s)' \/ restarts' > restarts)
    PROVE  \/ overrun'[s] <= restarts' + errors'
           \/ Ending(s)' /\ overrun'[s] <= 1 + restarts' + errors'
<1>1. /\ {restarts, restarts', errors, errors', overrun[s], overrun'[s]} \subseteq Nat
      /\ \/ overrun[s] <= restarts + errors
         \/ Ending(s) /\ overrun[s] <= 1 + restarts + errors
  BY DEF TypeOK, StepsOver
<1>2. CASE overrun'[s] = 0
  BY <1>1, <1>2
<1>3. CASE overrun'[s] = overrun[s] /\ (Ending(s) => Ending(s)' \/ restarts' > restarts)
  BY <1>1, <1>3
<1> QED
  BY <1>2, <1>3

\* A session that was over a cap before its step was counted is over one after it.
LEMMA OverBeforeAndAfter ==
    ASSUME TypeOK, TypeOK', Grows, NEW s \in Sessions, UNCHANGED <<config, caller>>,
           Evaluate(spent[s], daySpent[DayKey(s)]) # "under"
    PROVE  Evaluate(spent'[s], daySpent'[DayKey(s)]) # "under"
<1>1. config \in Configs /\ DayKey(s) \in Principals \X Days
  BY DEF TypeOK, DayKey
<1>2. CASE config.unpricedStop \/ Over(spent[s], config.sessionUsd)
  <2>1. SessionOver(s)'
    BY <1>2, OverStays DEF SessionOver
  <2> QED
    BY <2>1 DEF SessionOver, Evaluate
<1>3. CASE Over(daySpent[DayKey(s)], config.dailyUsd)
  <2>1. DayOver(DayKey(s)) /\ \A k \in Principals \X Days : DayOver(k) => DayOver(k)'
    BY <1>3, OverStays DEF DayOver
  <2>2. Over(daySpent'[DayKey(s)], config.dailyUsd)
    BY <1>1, <2>1 DEF DayOver
  <2> QED
    BY <2>2 DEF Evaluate
<1> QED
  BY <1>2, <1>3 DEF Evaluate

\* What one step adds to the count.
LEMMA OverranBy ==
    ASSUME TypeOK, NEW s \in Sessions, Overran(s)
    PROVE  /\ overrun'[s] = overrun[s] \/ overrun'[s] = overrun[s] + 1
           /\ Evaluate(spent[s], daySpent[DayKey(s)]) = "under" => overrun'[s] = overrun[s]
           /\ \A t \in Sessions \ {s} : overrun'[t] = overrun[t]
<1> DEFINE n == IF Evaluate(spent[s], daySpent[DayKey(s)]) = "under" THEN 0 ELSE 1
<1>1. overrun' = [overrun EXCEPT ![s] = overrun[s] + n]
  BY DEF Overran
<1>2. n = 0 \/ n = 1
  OBVIOUS
<1>3. overrun'[s] = overrun[s] + n /\ overrun[s] \in Nat
  <2> HIDE DEF n
  <2> QED
    BY <1>1 DEF TypeOK
<1> QED
  BY <1>1, <1>2, <1>3 DEF TypeOK

LEMMA RecordStepsOver ==
    ASSUME IInv, TypeOK', StepsOver, NEW s \in Sessions, Record(s), config.mode = "fail"
    PROVE  \/ overrun'[s] <= restarts' + errors'
           \/ Ending(s)' /\ overrun'[s] <= 1 + restarts' + errors'
<1> DEFINE outcome == Evaluate(spent'[s], daySpent'[DayKey(s)])
<1>0. /\ TypeOK /\ pc[s] = "record" /\ phase[s] = "emit"
      /\ UNCHANGED <<config, caller, restarts, errors>>
  BY DEF IInv, Story, Awaited, Record
<1>1. overrun[s] <= restarts + errors /\ {overrun[s], restarts, errors} \subseteq Nat
  BY <1>0 DEF StepsOver, Ending, TypeOK
<1>2. PICK cost \in Nat : RecordStep(s, cost)
  BY RecordCharges
<1>3. Grows
  BY <1>0, <1>2, RecordStepType DEF Grows
<1>4. CASE overrun'[s] = overrun[s]
  BY <1>0, <1>1, <1>4
<1>5. CASE overrun'[s] # overrun[s]
  <2>1. Uncounted(s) /\ Overran(s)
    BY <1>2, <1>5 DEF RecordStep
  <2>2. overrun'[s] = overrun[s] + 1 /\ Evaluate(spent[s], daySpent[DayKey(s)]) # "under"
    BY <1>0, <1>5, <2>1, OverranBy
  <2>3. outcome # "under"
    BY <1>0, <1>3, <2>2, OverBeforeAndAfter
  <2>4. Go(s, "stop")
    BY <1>0, <2>3 DEF Record
  <2>5. Ending(s)'
    BY <1>0, <2>4 DEF Go, Ending, TypeOK
  <2> QED
    BY <1>0, <1>1, <2>2, <2>5
<1> QED
  BY <1>4, <1>5

\* A statement of recordStep that failed: the step may be one over, and is paid for.
LEMMA RecordFailsStepsOver ==
    ASSUME IInv, StepsOver, NEW s \in Sessions, RecordFails(s), config.mode = "fail"
    PROVE  overrun'[s] <= restarts' + errors'
<1>0. /\ TypeOK /\ pc[s] = "record" /\ phase[s] = "emit" /\ Overran(s)
      /\ restarts' = restarts /\ errors' = errors + 1
  BY DEF IInv, Story, Awaited, RecordFails, Fails
<1>1. overrun[s] <= restarts + errors /\ {overrun[s], restarts, errors} \subseteq Nat
  BY <1>0 DEF StepsOver, Ending, TypeOK
<1>2. overrun'[s] = overrun[s] \/ overrun'[s] = overrun[s] + 1
  BY <1>0, OverranBy
<1> QED
  BY <1>0, <1>1, <1>2

\* Other sessions' handlers and turns leave a session where it is.
LEMMA Elsewhere ==
    ASSUME IInv, TypeOK', NEW s \in Sessions, NEW t \in Sessions, t # s,
           Handler(t) \/ Turn(t)
    PROVE  overrun'[s] = overrun[s] /\ pc'[s] = pc[s] /\ phase'[s] = phase[s]
<1> USE DEF IInv, TypeOK, memory, local, history
<1>1. CASE Turn(t)
  BY <1>1 DEF Turn, SessionStarted, Message, StepStarted, StepCompleted, NextStep,
              TurnCompleted, TurnCancelled, TurnFailed, TurnOver, UserCancels
<1>2. CASE Handler(t)
  <2>1. pc'[s] = pc[s] /\ phase'[s] = phase[s]
    BY <1>2 DEF Handler, Record, RecordFails, ClearStop, RecordStop, FailTurn, CancelTurn,
                Return, Throw, Done, Go
  <2>2. overrun'[s] = overrun[s]
    <3>1. CASE Record(t)
      <4>1. PICK cost \in Nat : RecordStep(t, cost)
        BY <3>1, RecordCharges
      <4>2. Overran(t) \/ UNCHANGED overrun
        BY <4>1 DEF RecordStep
      <4> QED
        BY <4>2, OverranBy
    <3>2. CASE RecordFails(t)
      BY <3>2, OverranBy DEF RecordFails
    <3>3. CASE ~Record(t) /\ ~RecordFails(t)
      BY <1>2, <3>3 DEF Handler, ClearStop, RecordStop, FailTurn, CancelTurn
    <3> QED
      BY <3>1, <3>2, <3>3
  <2> QED
    BY <2>1, <2>2
<1> QED
  BY <1>1, <1>2
\* In mode fail, what a session's own handler and turn do to its count.
LEMMA HereStepsOver ==
    ASSUME IInv, TypeOK', StepsOver, NEW s \in Sessions, Handler(s) \/ Turn(s),
           config.mode = "fail"
    PROVE  \/ overrun'[s] <= restarts' + errors'
           \/ Ending(s)' /\ overrun'[s] <= 1 + restarts' + errors'
<1> USE DEF memory, local, history
<1>0. TypeOK /\ Story
  BY DEF IInv
<1>1. ASSUME ~Record(s), ~RecordFails(s),
             \/ overrun'[s] = 0
             \/ overrun'[s] = overrun[s] /\ (Ending(s) => Ending(s)')
      PROVE  \/ overrun'[s] <= restarts' + errors'
             \/ Ending(s)' /\ overrun'[s] <= 1 + restarts' + errors'
  <2>1. UNCHANGED <<config, restarts>> /\ errors' >= errors
    BY <1>0, <1>1 DEF Handler, ClearStop, RecordStop, FailTurn, CancelTurn, Turn,
                      SessionStarted, Message, StepStarted, StepCompleted, NextStep,
                      TurnCompleted, TurnCancelled, TurnFailed, TurnOver, UserCancels, Fails,
                      TypeOK
  <2>2. restarts' >= restarts
    BY <1>0, <2>1 DEF TypeOK
  <2> QED
    BY <1>0, <1>1, <2>1, <2>2, EndingKeeps
<1>2. CASE Record(s)
  BY <1>2, RecordStepsOver
<1>3. CASE RecordFails(s)
  BY <1>3, RecordFailsStepsOver
<1>4. CASE Handler(s) /\ ~Record(s) /\ ~RecordFails(s)
  <2>1. overrun' = overrun
    BY <1>4 DEF Handler, ClearStop, RecordStop, FailTurn, CancelTurn
  <2>2. ASSUME Ending(s) PROVE Ending(s)'
    <3>1. pc[s] \in {"stop", "act"} /\ ~ClearStop(s)
      BY <1>0, <1>4, <2>2 DEF Ending, Story, Awaited, Handler, ClearStop, RecordStop,
                              FailTurn, CancelTurn
    <3>2. CASE RecordStop(s)
      <4>1. s \notin stopped
        BY <1>0, <3>2, Unflagged DEF RecordStop, Story, Awaited
      <4> QED
        BY <1>0, <3>2, <4>1 DEF RecordStop, Go, Ending, TypeOK
    <3>3. CASE FailTurn(s)
      BY <1>0, <3>3 DEF FailTurn, Throw, Ending, TypeOK
    <3> QED
      BY <1>4, <3>1, <3>2, <3>3 DEF Handler, CancelTurn
  <2> QED
    BY <1>1, <1>4, <2>1, <2>2
<1>5. CASE Turn(s) /\ ~Record(s) /\ ~RecordFails(s)
  <2>1. ASSUME NEW p \in Principals, Message(s, p) PROVE overrun'[s] = 0
    BY <1>0, <2>1 DEF Message, TypeOK
  <2>2. ASSUME \A p \in Principals : ~Message(s, p)
        PROVE  overrun' = overrun /\ (Ending(s) => Ending(s)')
    BY <1>0, <1>5, <2>2, Idle DEF Turn, SessionStarted, StepStarted, StepCompleted, NextStep,
                            TurnCompleted, TurnCancelled, TurnFailed, TurnOver, UserCancels,
                            Ending, TypeOK
  <2> QED
    BY <1>1, <1>5, <2>1, <2>2
<1> QED
  BY <1>2, <1>3, <1>4, <1>5

LEMMA StepsOverStep == IInv /\ StepsOver /\ [Next]_vars => StepsOver'
<1> SUFFICES ASSUME IInv, StepsOver, [Next]_vars, config'.mode = "fail", NEW s \in Sessions
             PROVE  \/ overrun'[s] <= restarts' + errors'
                    \/ Ending(s)' /\ overrun'[s] <= 1 + restarts' + errors'
  BY DEF StepsOver
<1> DEFINE Goal == \/ overrun'[s] <= restarts' + errors'
                   \/ Ending(s)' /\ overrun'[s] <= 1 + restarts' + errors'
<1> USE DEF tables, memory, local, history, eve
<1>0. TypeOK /\ TypeOK' /\ Story
  BY StepInv DEF IInv
<1>1. config.mode = "fail"
  BY DEF Next, NewDay, Restart, Handler, Record, RecordFails, ClearStop, RecordStop, FailTurn,
         CancelTurn, Turn, SessionStarted, Message, StepStarted, StepCompleted, NextStep,
         TurnCompleted, TurnCancelled, TurnFailed, TurnOver, UserCancels, vars
<1>2. ASSUME Handler(s) \/ Turn(s) PROVE Goal
  BY <1>0, <1>1, <1>2, HereStepsOver
<1>3. ASSUME NEW t \in Sessions, t # s, Handler(t) \/ Turn(t) PROVE Goal
  <2>1. overrun'[s] = overrun[s] /\ (Ending(s) => Ending(s)')
    BY <1>0, <1>3, Elsewhere DEF Ending
  <2>2. config' = config /\ restarts' = restarts /\ errors' >= errors
    BY <1>0, <1>3 DEF Handler, Record, RecordFails, ClearStop, RecordStop, FailTurn,
         CancelTurn, Turn, SessionStarted, Message, StepStarted, StepCompleted, NextStep,
         TurnCompleted, TurnCancelled, TurnFailed, TurnOver, UserCancels, Fails, TypeOK
  <2> QED
    BY <1>0, <1>1, <2>1, <2>2, EndingKeeps DEF TypeOK
<1>4. ASSUME NewDay \/ UNCHANGED vars PROVE Goal
  <2>1. UNCHANGED <<config, overrun, restarts, errors, pc, phase>>
    BY <1>4 DEF NewDay, vars
  <2> QED
    BY <1>0, <1>1, <2>1, EndingKeeps DEF Ending, TypeOK
<1>5. ASSUME NEW c \in Configs, Restart(c) PROVE Goal
  <2>1. restarts' > restarts /\ UNCHANGED <<overrun, errors>> /\ config'.mode = config.mode
    BY <1>0, <1>5 DEF Restart, TypeOK
  <2> QED
    BY <1>0, <1>1, <2>1, EndingKeeps DEF TypeOK
<1> QED
  BY <1>2, <1>3, <1>4, <1>5 DEF Next

\* In mode fail a turn runs one step at most with a cap already blown, and one more
\* for each restart and each failing statement.
THEOREM AtMostOneStepOver == Spec => []OneStepOver
<1>1. Init => StepsOver
  BY DEF Init, StepsOver
<1>2. IInv /\ StepsOver => OneStepOver
  BY DEF IInv, TypeOK, StepsOver, OneStepOver
<1> QED
  BY Invariance, StepsOverStep, <1>1, <1>2, PTL DEF Spec
-----------------------------------------------------------------------------
(* A raised cap gives the tools back.                                      *)

\* `knownUnderBudget` means what it says: while every statement succeeds, a session
\* in it has no stop row of its own, unless its clear is under way.
KnownIsClear ==
    /\ \A s \in Sessions : pc[s] = "stop" => s \notin known
    /\ errors = 0 => \A s \in known : pc[s] # "clear" => s \notin stops

LEMMA HandlerKnownIsClear ==
    ASSUME IInv, KnownIsClear, NEW s \in Sessions, Handler(s)
    PROVE  KnownIsClear'
<1> USE DEF IInv, TypeOK, memory, tables
<1>0. \A t \in Sessions \ {s} : pc'[t] = pc[t]
  BY DEF Handler, Record, RecordFails, ClearStop, RecordStop, FailTurn, CancelTurn, Return,
         Throw, Done, Go
<1>1. CASE Record(s)
  <2> DEFINE outcome == Evaluate(spent'[s], daySpent'[DayKey(s)])
             silent == IF outcome = "under" THEN s \in known ELSE config.mode = "observe"
  <2>1. /\ pc[s] = "record" /\ UNCHANGED <<stops, errors>>
        /\ known' = IF outcome = "under" THEN known \cup {s} ELSE known \ {s}
    BY <1>1 DEF Record
  <2>2. \/ silent /\ pc'[s] = "idle"
        \/ ~silent /\ pc'[s] = IF outcome = "under" THEN "clear" ELSE "stop"
    <3>1. CASE silent
      BY <1>1, <3>1 DEF Record, Return, Done
    <3>2. CASE ~silent
      BY <1>1, <3>2 DEF Record, Go
    <3> QED
      BY <3>1, <3>2
  <2> HIDE DEF outcome
  <2> QED
    BY <1>0, <2>1, <2>2 DEF KnownIsClear
<1>2. CASE ClearStop(s)
  <2>1. pc[s] = "clear" /\ pc'[s] = "idle" /\ known' = known
    BY <1>2 DEF ClearStop, Return, Done
  <2>2. errors' = 0 => errors = 0 /\ stops' = stops \ {s}
    BY <1>2 DEF ClearStop, ClearsOwnSession, Fails
  <2> QED
    BY <1>0, <2>1, <2>2 DEF KnownIsClear
<1>3. CASE RecordStop(s)
  <2>1. pc[s] = "stop" /\ pc'[s] \in {"idle", "act"} /\ known' = known
    BY <1>3 DEF RecordStop, Return, Done, Go
  <2>2. stops' \subseteq stops \cup {s} /\ errors' >= errors
    BY <1>3 DEF RecordStop, StopRow, Fails
  <2> QED
    BY <1>0, <2>1, <2>2 DEF KnownIsClear
<1>4. CASE RecordFails(s) \/ FailTurn(s) \/ CancelTurn(s)
  <2>1. pc[s] \in {"record", "act"} /\ pc'[s] = "idle" /\ UNCHANGED <<known, stops>>
    BY <1>4 DEF RecordFails, FailTurn, CancelTurn, Return, Throw, Done
  <2>2. errors' >= errors
    BY <1>4 DEF RecordFails, FailTurn, CancelTurn, Fails
  <2> QED
    BY <1>0, <2>1, <2>2 DEF KnownIsClear
<1> QED
  BY <1>1, <1>2, <1>3, <1>4 DEF Handler

LEMMA TurnKnownIsClear ==
    ASSUME IInv, KnownIsClear, NEW s \in Sessions, Turn(s)
    PROVE  KnownIsClear'
<1>1. known' \subseteq known /\ stops' = stops /\ errors' >= errors
  BY DEF Turn, SessionStarted, Message, StepStarted, StepCompleted, NextStep, TurnCompleted,
         TurnCancelled, TurnFailed, TurnOver, UserCancels, Fails, IInv, TypeOK, memory, tables
<1>2. \A t \in Sessions : pc'[t] = pc[t] \/ (pc[t] = "idle" /\ pc'[t] = "record")
  <2>1. CASE StepCompleted(s)
    BY <2>1, Idle DEF StepCompleted, IInv, TypeOK
  <2>2. CASE ~StepCompleted(s)
    BY <2>2 DEF Turn, SessionStarted, Message, StepStarted, NextStep, TurnCompleted,
                TurnCancelled, TurnFailed, TurnOver, UserCancels, local
  <2> QED
    BY <2>1, <2>2
<1> QED
  BY <1>1, <1>2 DEF KnownIsClear, IInv, TypeOK

LEMMA KnownIsClearStep == IInv /\ KnownIsClear /\ [Next]_vars => KnownIsClear'
<1> SUFFICES ASSUME IInv, KnownIsClear, [Next]_vars PROVE KnownIsClear'
  OBVIOUS
<1>1. ASSUME NEW c \in Configs, Restart(c) PROVE KnownIsClear'
  BY <1>1 DEF Restart, KnownIsClear
<1>2. ASSUME NewDay \/ UNCHANGED vars PROVE KnownIsClear'
  BY <1>2 DEF NewDay, vars, memory, tables, local, KnownIsClear
<1> QED
  BY <1>1, <1>2, HandlerKnownIsClear, TurnKnownIsClear DEF Next

\* While no statement fails, a step found under budget leaves its session with no
\* stop of its own, whichever redeployments raised the cap in between.
THEOREM RaisedCapGivesTheToolsBack == Spec => RaisedCapHeals
<1> DEFINE A == \A s \in Sessions :
         ( /\ phase'[s] = "next" /\ errors' = 0
           /\ \/ pc[s] = "clear"
              \/ pc[s] = "record" /\ Evaluate(spent'[s], daySpent'[DayKey(s)]) = "under")
           => s \notin stops'
<1>1. IInv /\ KnownIsClear /\ [Next]_vars => [A]_vars
  <2> SUFFICES ASSUME IInv, KnownIsClear, Next, NEW s \in Sessions,
                      phase'[s] = "next", errors' = 0,
                      \/ pc[s] = "clear"
                      \/ pc[s] = "record" /\ Evaluate(spent'[s], daySpent'[DayKey(s)]) = "under"
               PROVE  s \notin stops'
    OBVIOUS
  <2>0. TypeOK /\ TypeOK' /\ Story /\ phase[s] = "emit"
    BY StepInv DEF IInv, Story, Awaited
  <2>1. ASSUME NEW t \in Sessions, t # s, Handler(t) \/ Turn(t) PROVE FALSE
    BY <2>0, <2>1, Elsewhere
  <2>2. ~Turn(s)
    BY <2>0 DEF Turn, SessionStarted, Message, StepStarted, StepCompleted, NextStep,
                TurnCompleted, TurnCancelled, TurnFailed, TurnOver, UserCancels, TypeOK
  <2>3. ASSUME NewDay \/ \E c \in Configs : Restart(c) PROVE FALSE
    BY <2>0, <2>3 DEF NewDay, Restart, eve
  <2>4. CASE ClearStop(s)
    BY <2>0, <2>4 DEF ClearStop, ClearsOwnSession, Fails, TypeOK
  <2>5. CASE Record(s)
    <3>1. pc[s] = "record" /\ UNCHANGED <<stops, errors>>
      BY <2>5 DEF Record
    <3>2. s \in known
      BY <2>0, <2>5, <3>1 DEF Record, Go
    <3> QED
      BY <3>1, <3>2 DEF KnownIsClear
  <2>6. CASE RecordFails(s)
    BY <2>0, <2>6 DEF RecordFails, Fails, TypeOK
  <2> QED
    BY <2>1, <2>2, <2>3, <2>4, <2>5, <2>6 DEF Next, Handler, RecordStop, FailTurn, CancelTurn
<1>2. Init => KnownIsClear
  BY DEF Init, KnownIsClear
<1> QED
  BY Invariance, KnownIsClearStep, <1>1, <1>2, PTL DEF Spec, RaisedCapHeals

-----------------------------------------------------------------------------
(* Sums over sets of rows.  The sum is a fold over a set; what is needed   *)
(* of it is proved first, by induction over the subsets of a finite set.   *)

\* The element a fold over T takes first.
Pick(T) == CHOOSE r \in T : TRUE
\* g is the table of partial sums that MapThenSumSet chooses for S.
Adds(g, S) ==
    g = [T \in SUBSET S |-> IF T = {} THEN 0 ELSE Pick(T).cost + g[T \ {Pick(T)}]]

\* Cost is the library's fold, written out.
LEMMA CostUnfolds ==
    ASSUME NEW S
    PROVE  Cost(S) = (CHOOSE g : Adds(g, S))[S]
  BY Zenon DEF Cost, MapThenSumSet, MapThenFoldSet, Adds, Pick

\* Induction over the subsets of a finite set: a set G that holds every subset whose
\* proper subsets it holds, holds them all.
LEMMA SubsetInduction ==
    ASSUME NEW S, IsFiniteSet(S), NEW G,
           \A T \in SUBSET S : (\A U \in SUBSET T : U # T => U \in G) => T \in G
    PROVE  \A T \in SUBSET S : T \in G
<1> DEFINE Bad == {T \in SUBSET S : T \notin G}
           R == StrictSubsetOrdering(S)
<1>1. IsWellFoundedOn(R, FiniteSubsetsOf(S)) /\ FiniteSubsetsOf(S) = SUBSET S
  BY FS_StrictSubsetOrderingWellFounded, FS_FiniteSubsetsOfFinite
<1>2. ASSUME Bad # {} PROVE FALSE
  <2>1. PICK T \in Bad : \A U \in Bad : <<U, T>> \notin R
    <3> HIDE DEF Bad, R
    <3>1. Bad \subseteq SUBSET S
      BY DEF Bad
    <3>2. IsWellFoundedOn(R, SUBSET S)
      BY <1>1
    <3> QED
      BY <1>2, <3>1, <3>2, WFMin
  <2>2. \A U \in SUBSET T : U # T => U \in G
    BY <2>1 DEF StrictSubsetOrdering
  <2> QED
    BY <2>1, <2>2
<1> QED
  BY <1>2

LEMMA AddsAt ==
    ASSUME NEW S, NEW g, Adds(g, S), NEW T \in SUBSET S
    PROVE  g[T] = IF T = {} THEN 0 ELSE Pick(T).cost + g[T \ {Pick(T)}]
<1> DEFINE body(U) == IF U = {} THEN 0 ELSE Pick(U).cost + g[U \ {Pick(U)}]
<1>1. g = [U \in SUBSET S |-> body(U)]
  BY Zenon DEF Adds
<1> HIDE DEF body
<1>2. g[T] = body(T)
  BY <1>1
<1> QED
  BY <1>2 DEF body

LEMMA PickIn ==
    ASSUME NEW T, T # {}
    PROVE  Pick(T) \in T
  BY DEF Pick

\* Two tables agree where both are defined, ...
LEMMA AddsUnique ==
    ASSUME NEW A, NEW B, NEW g, NEW h, Adds(g, A), Adds(h, B),
           NEW T, IsFiniteSet(T), T \subseteq A, T \subseteq B
    PROVE  g[T] = h[T]
<1> DEFINE G == {U \in SUBSET T : g[U] = h[U]}
<1>1. ASSUME NEW U \in SUBSET T, \A V \in SUBSET U : V # U => V \in G
      PROVE  U \in G
  <2>1. /\ g[U] = IF U = {} THEN 0 ELSE Pick(U).cost + g[U \ {Pick(U)}]
        /\ h[U] = IF U = {} THEN 0 ELSE Pick(U).cost + h[U \ {Pick(U)}]
    <3>1. U \in SUBSET A /\ U \in SUBSET B
      OBVIOUS
    <3> HIDE DEF G
    <3> QED
      BY <3>1, AddsAt
  <2>2. U # {} => g[U \ {Pick(U)}] = h[U \ {Pick(U)}]
    BY <1>1, PickIn
  <2> QED
    BY <2>1, <2>2
<1> HIDE DEF G
<1>2. \A U \in SUBSET T : U \in G
  BY <1>1, SubsetInduction
<1> QED
  BY <1>2 DEF G

\* ... and every finite set has one.
LEMMA AddsExists ==
    ASSUME NEW S, IsFiniteSet(S)
    PROVE  \E g : Adds(g, S)
<1> DEFINE G == {T \in SUBSET S : \E g : Adds(g, T)}
           h(V) == CHOOSE g : Adds(g, V)
<1>1. ASSUME NEW T \in SUBSET S, \A U \in SUBSET T : U # T => U \in G
      PROVE  T \in G
  <2> DEFINE rest(U) == U \ {Pick(U)}
             g == [U \in SUBSET T |-> IF U = {} THEN 0 ELSE Pick(U).cost + h(rest(U))[rest(U)]]
  <2>1. ASSUME NEW V \in SUBSET T, V # T PROVE Adds(h(V), V)
    <3>1. \E f : Adds(f, V)
      BY <1>1, <2>1
    <3> QED
      BY <3>1, Zenon
  <2>2. ASSUME NEW V \in SUBSET T, V # T PROVE g[V] = h(V)[V]
    <3>1. h(V)[V] = IF V = {} THEN 0 ELSE Pick(V).cost + h(V)[rest(V)]
      <4>1. ASSUME NEW f, Adds(f, V)
            PROVE  f[V] = IF V = {} THEN 0 ELSE Pick(V).cost + f[rest(V)]
        <5>1. V \in SUBSET V
          OBVIOUS
        <5> QED
          BY <4>1, <5>1, AddsAt
      <4>2. Adds(h(V), V)
        BY <2>1, <2>2
      <4> HIDE DEF h, rest
      <4> QED
        BY <4>1, <4>2
    <3>2. V # {} => h(V)[rest(V)] = h(rest(V))[rest(V)]
      <4> HAVE V # {}
      <4>1. Pick(V) \in V
        BY PickIn
      <4>2. rest(V) \subseteq V /\ rest(V) \in SUBSET T /\ rest(V) # T
        BY <4>1, <2>2
      <4>3. IsFiniteSet(rest(V))
        BY <4>2, FS_Subset
      <4>4. Adds(h(V), V) /\ Adds(h(rest(V)), rest(V))
        BY <2>1, <2>2, <4>2
      <4> HIDE DEF h, rest
      <4> QED
        BY <4>2, <4>3, <4>4, AddsUnique
    <3> HIDE DEF h
    <3> QED
      BY <3>1, <3>2
  <2>3. ASSUME NEW U \in SUBSET T, U # {} PROVE g[rest(U)] = h(rest(U))[rest(U)]
    <3>1. rest(U) \in SUBSET T /\ rest(U) # T
      BY <2>3, PickIn
    <3> HIDE DEF g, h, rest
    <3> QED
      BY <2>2, <3>1
  <2>4. g = [U \in SUBSET T |-> IF U = {} THEN 0 ELSE Pick(U).cost + g[rest(U)]]
    <3> DEFINE a(U) == IF U = {} THEN 0 ELSE Pick(U).cost + h(rest(U))[rest(U)]
               b(U) == IF U = {} THEN 0 ELSE Pick(U).cost + g[rest(U)]
    <3>1. \A U \in SUBSET T : a(U) = b(U)
      <4> HIDE DEF g, h, rest
      <4> QED
        BY <2>3
    <3>2. g = [U \in SUBSET T |-> a(U)]
      OBVIOUS
    <3> HIDE DEF a, g, b
    <3>3. g = [U \in SUBSET T |-> b(U)]
      BY <3>1, <3>2
    <3> QED
      BY <3>3 DEF b
  <2>5. Adds(g, T)
    BY <2>4, Zenon DEF Adds
  <2> HIDE DEF g
  <2> QED
    BY <2>5
<1> HIDE DEF G
<1>2. \A T \in SUBSET S : T \in G
  BY <1>1, SubsetInduction
<1>3. S \in G
  BY <1>2
<1> QED
  BY <1>3 DEF G

\* The recurrence of Cost.
LEMMA CostAt ==
    ASSUME NEW S, IsFiniteSet(S)
    PROVE  Cost(S) = IF S = {} THEN 0 ELSE Pick(S).cost + Cost(S \ {Pick(S)})
<1> DEFINE it(V) == CHOOSE g : Adds(g, V)
           rest == S \ {Pick(S)}
<1>1. IsFiniteSet(rest)
  BY FS_Subset
<1>2. Adds(it(S), S) /\ Adds(it(rest), rest)
  BY <1>1, AddsExists, Zenon
<1>3. Cost(S) = it(S)[S] /\ Cost(rest) = it(rest)[rest]
  BY CostUnfolds
<1> HIDE DEF it
<1>4. it(S)[S] = IF S = {} THEN 0 ELSE Pick(S).cost + it(S)[rest]
  <2>1. S \in SUBSET S /\ Adds(it(S), S)
    BY <1>2
  <2>2. ASSUME NEW g, Adds(g, S)
        PROVE  g[S] = IF S = {} THEN 0 ELSE Pick(S).cost + g[rest]
    BY <2>1, <2>2, AddsAt
  <2> HIDE DEF rest
  <2> QED
    BY <2>1, <2>2
<1>5. it(S)[rest] = it(rest)[rest]
  <2>1. rest \subseteq S
    OBVIOUS
  <2> HIDE DEF rest
  <2> QED
    BY <1>1, <1>2, <2>1, AddsUnique
<1> HIDE DEF rest
<1>6. Cost(S) = IF S = {} THEN 0 ELSE Pick(S).cost + Cost(rest)
  BY <1>3, <1>4, <1>5
<1> QED
  BY <1>6 DEF rest

\* The order in which the rows are added up does not matter.
LEMMA CostSplits ==
    ASSUME NEW S, IsFiniteSet(S), \A r \in S : r.cost \in Nat
    PROVE  \A T \in SUBSET S : /\ Cost(T) \in Nat
                               /\ \A r \in T : Cost(T) = r.cost + Cost(T \ {r})
<1> DEFINE G == {T \in SUBSET S : /\ Cost(T) \in Nat
                                  /\ \A r \in T : Cost(T) = r.cost + Cost(T \ {r})}
<1>1. ASSUME NEW T \in SUBSET S, \A U \in SUBSET T : U # T => U \in G
      PROVE  T \in G
  <2>0. \A r \in T : r.cost \in Nat
    OBVIOUS
  <2>1. IsFiniteSet(T)
    BY FS_Subset
  <2>2. CASE T = {}
    <3>1. Cost(T) = 0
      BY <2>1, <2>2, CostAt
    <3> QED
      BY <2>2, <3>1
  <2>3. CASE T # {}
    <3> DEFINE x == Pick(T)
    <3>1. x \in T /\ x \in S /\ x.cost \in Nat
      BY <2>3, PickIn
    <3>2. Cost(T) = x.cost + Cost(T \ {x})
      BY <2>1, <2>3, CostAt
    <3> HIDE DEF x
    <3>3. Cost(T \ {x}) \in Nat
      BY <1>1, <3>1
    <3>4. ASSUME NEW r \in T, r # x PROVE Cost(T) = r.cost + Cost(T \ {r})
      <4>1. (T \ {x}) \ {r} = (T \ {r}) \ {x}
        OBVIOUS
      <4>2. Cost(T \ {x}) = r.cost + Cost((T \ {x}) \ {r})
        BY <1>1, <3>1, <3>4
      <4>3. Cost(T \ {r}) = x.cost + Cost((T \ {r}) \ {x})
        BY <1>1, <3>1, <3>4
      <4>4. Cost((T \ {x}) \ {r}) \in Nat
        BY <1>1, <3>1, <3>4
      <4>5. r.cost \in Nat
        BY <2>0
      <4>6. \A n \in Nat : x.cost + (r.cost + n) = r.cost + (x.cost + n)
        BY <3>1, <4>5
      <4> QED
        BY <3>2, <4>1, <4>2, <4>3, <4>4, <4>6
    <3>5. x.cost + Cost(T \ {x}) \in Nat
      BY <2>0, <3>1, <3>3
    <3>6. \A r \in T : Cost(T) = r.cost + Cost(T \ {r})
      BY <3>2, <3>4, Zenon
    <3> QED
      BY <3>2, <3>5, <3>6
  <2> QED
    BY <2>2, <2>3
<1> HIDE DEF G
<1>2. \A T \in SUBSET S : T \in G
  BY <1>1, SubsetInduction
<1> QED
  BY <1>2 DEF G

LEMMA CostOfNone == Cost({}) = 0
  BY CostAt, FS_EmptySet

\* One more row adds its cost.
LEMMA CostGrows ==
    ASSUME NEW S, IsFiniteSet(S), NEW r, r \notin S, \A q \in S \cup {r} : q.cost \in Nat
    PROVE  Cost(S \cup {r}) = Cost(S) + r.cost
<1> DEFINE T == S \cup {r}
<1>1. IsFiniteSet(T) /\ r \in T /\ T \ {r} = S
  BY FS_AddElement
<1>2. r.cost \in Nat /\ \A q \in T : q.cost \in Nat
  OBVIOUS
<1> HIDE DEF T
<1>3. T \in SUBSET T /\ S \in SUBSET T
  BY <1>1
<1>4. Cost(T) = r.cost + Cost(T \ {r}) /\ Cost(S) \in Nat
  BY <1>1, <1>2, <1>3, CostSplits
<1>5. Cost(T) = Cost(S) + r.cost
  BY <1>1, <1>2, <1>4
<1> QED
  BY <1>5 DEF T

-----------------------------------------------------------------------------
(* The ledger and the totals.                                              *)

\* The rows of one session, and of one principal's day.
OfSession(rows, s) == {r \in rows : r.at[1] = s}

OfDay(rows, p, d) == {r \in rows : r.principal = p /\ r.day = d}

Accounted == IsFiniteSet(ledger) /\ NeverBilledTwice

\* A selection of rows grows by the new row, when it is selected.
LEMMA SelectionGrows ==
    ASSUME TypeOK, NEW part \in SUBSET ledger, IsFiniteSet(ledger), NEW r \in Row,
           r \notin ledger
    PROVE  Cost(part \cup {r}) = Cost(part) + r.cost
<1>1. IsFiniteSet(part) /\ r \notin part
  BY FS_Subset
<1>2. \A q \in part \cup {r} : q.cost \in Nat
  BY DEF TypeOK, Row
<1> QED
  BY <1>1, <1>2, CostGrows

\* One statement of recordStep, for a step that is not in the ledger.
LEMMA ChargeAccounts ==
    ASSUME TypeOK, Accounted, NEW s \in Sessions, NEW cost \in Nat, RecordStep(s, cost),
           Uncounted(s)
    PROVE  Accounted'
<1> DEFINE r == [at |-> Coordinates(s), principal |-> caller[s], day |-> day[s],
                 cost |-> cost]
           k == DayKey(s)
<1>1. /\ ledger' = ledger \cup {r}
      /\ spent' = [spent EXCEPT ![s] = spent[s] + cost]
      /\ daySpent' = [daySpent EXCEPT ![k] = daySpent[k] + cost]
  BY DEF RecordStep
<1>2. /\ r \in Row /\ r.at = Coordinates(s) /\ r.at[1] = s
      /\ r.principal = caller[s] /\ r.day = day[s] /\ r.cost = cost
      /\ k = <<caller[s], day[s]>>
  BY DEF TypeOK, Coordinates, Row, DayKey
<1> HIDE DEF r, k
<1>3. r \notin ledger
  BY <1>2 DEF Uncounted
<1>4. IsFiniteSet(ledger')
  BY <1>1, FS_AddElement DEF Accounted
<1>5. \A q, t \in ledger' : q.at = t.at => q = t
  BY <1>1, <1>2 DEF Uncounted, Accounted, NeverBilledTwice
<1>6. ASSUME NEW t \in Sessions PROVE spent'[t] = Cost(OfSession(ledger', t))
  <2>1. spent[t] = Cost(OfSession(ledger, t)) /\ OfSession(ledger, t) \in SUBSET ledger
    BY DEF Accounted, NeverBilledTwice, OfSession
  <2>2. CASE t = s
    <3>1. OfSession(ledger', t) = OfSession(ledger, t) \cup {r}
      BY <1>1, <1>2, <2>2 DEF OfSession
    <3>2. Cost(OfSession(ledger', t)) = Cost(OfSession(ledger, t)) + cost
      BY <1>2, <1>3, <2>1, <3>1, SelectionGrows DEF Accounted
    <3> QED
      BY <1>1, <2>1, <2>2, <3>2 DEF TypeOK
  <2>3. CASE t # s
    <3>1. OfSession(ledger', t) = OfSession(ledger, t)
      BY <1>1, <1>2, <2>3 DEF OfSession
    <3> QED
      BY <1>1, <2>1, <2>3, <3>1 DEF TypeOK
  <2> QED
    BY <2>2, <2>3
<1>7. ASSUME NEW p \in Principals, NEW d \in Days
      PROVE  daySpent'[<<p, d>>] = Cost(OfDay(ledger', p, d))
  <2>0. <<p, d>> \in Principals \X Days
    OBVIOUS
  <2>1. daySpent[<<p, d>>] = Cost(OfDay(ledger, p, d)) /\ OfDay(ledger, p, d) \in SUBSET ledger
    BY DEF Accounted, NeverBilledTwice, OfDay
  <2>2. CASE <<p, d>> = k
    <3>1. OfDay(ledger', p, d) = OfDay(ledger, p, d) \cup {r}
      BY <1>1, <1>2, <2>2 DEF OfDay
    <3>2. Cost(OfDay(ledger', p, d)) = Cost(OfDay(ledger, p, d)) + cost
      BY <1>2, <1>3, <2>1, <3>1, SelectionGrows DEF Accounted
    <3>3. daySpent'[k] = daySpent[k] + cost
      BY <1>1, <2>0, <2>2 DEF TypeOK
    <3> QED
      BY <2>1, <2>2, <3>2, <3>3
  <2>3. CASE <<p, d>> # k
    <3>1. OfDay(ledger', p, d) = OfDay(ledger, p, d)
      BY <1>1, <1>2, <2>3 DEF OfDay
    <3>2. daySpent'[<<p, d>>] = daySpent[<<p, d>>]
      BY <1>1, <2>0, <2>3 DEF TypeOK
    <3> QED
      BY <2>1, <3>1, <3>2
  <2> QED
    BY <2>2, <2>3
<1> QED
  BY <1>4, <1>5, <1>6, <1>7 DEF Accounted, NeverBilledTwice, OfSession, OfDay

LEMMA AccountedStep == IInv /\ Accounted /\ [Next]_vars => Accounted'
<1> SUFFICES ASSUME IInv, Accounted, [Next]_vars PROVE Accounted'
  OBVIOUS
<1>1. ASSUME NEW s \in Sessions, Record(s) PROVE Accounted'
  <2>1. PICK cost \in Nat : RecordStep(s, cost)
    BY <1>1, RecordCharges
  <2>2. CASE Uncounted(s)
    BY <2>1, <2>2, ChargeAccounts DEF IInv
  <2>3. CASE ~Uncounted(s)
    BY <2>1, <2>3 DEF RecordStep, Accounted, NeverBilledTwice
  <2> QED
    BY <2>2, <2>3
<1>2. CASE \A s \in Sessions : ~Record(s)
  <2>1. UNCHANGED <<ledger, spent, daySpent>>
    BY <1>2 DEF Next, NewDay, Restart, Handler, RecordFails, ClearStop, RecordStop, FailTurn,
                CancelTurn, Turn, SessionStarted, Message, StepStarted, StepCompleted, NextStep,
                TurnCompleted, TurnCancelled, TurnFailed, TurnOver, UserCancels, vars, tables
  <2> QED
    BY <2>1 DEF Accounted, NeverBilledTwice
<1> QED
  BY <1>1, <1>2

\* The ledger holds each step once, however often a crash made it run, and both
\* totals are exactly what the ledger adds up to.
THEOREM MoneyIsCountedOnce == Spec => []NeverBilledTwice
<1>1. Init => Accounted
  <2> SUFFICES ASSUME Init PROVE Accounted
    OBVIOUS
  <2>1. IsFiniteSet(ledger) /\ ledger = {}
    BY FS_EmptySet DEF Init
  <2>2. \A s : OfSession(ledger, s) = {}
    BY <2>1 DEF OfSession
  <2>3. \A p, d : OfDay(ledger, p, d) = {}
    BY <2>1 DEF OfDay
  <2>4. \A s \in Sessions : spent[s] = Cost(OfSession(ledger, s))
    BY <2>2, CostOfNone DEF Init
  <2>5. \A p \in Principals, d \in Days : daySpent[<<p, d>>] = Cost(OfDay(ledger, p, d))
    BY <2>3, CostOfNone DEF Init
  <2> QED
    BY <2>1, <2>4, <2>5 DEF Accounted, NeverBilledTwice, OfSession, OfDay
<1>2. Accounted => NeverBilledTwice
  BY DEF Accounted
<1> QED
  BY Invariance, AccountedStep, <1>1, <1>2, PTL DEF Spec
===============================================================================
