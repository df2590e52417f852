--------------------------- MODULE SchedulesProofs ---------------------------
(***************************************************************************)
(* tracked schedules, for every number of workers and firings, every cron  *)
(* expression, limit and window, and any number of crashes and failures:   *)
(* a tick starts the handler at most once plus once per failed claim, a    *)
(* skipped tick was not run, and a row has one owner.                      *)
(***************************************************************************)
EXTENDS Schedules, TLAPS

\* A call that holds a row is at work on it and the row is still open.
HoldsOpenRow ==
    \A c \in claimed : pc[c] \in {"handle", "finish"} /\ rows[tick[c]] = "running"

\* A call about to record "skipped" holds a tick nobody ran.
SkipsUnrun ==
    \A c \in claimed :
        (pc[c] = "finish" /\ outcome[c] = "skipped") => runs[tick[c]] <= failures

\* Only a failed claim starts the handler of a tick without a row.
RunsCounted ==
    \A t \in Minutes :
        /\ runs[t] <= failures + 1
        /\ rows[t] = "none" => runs[t] <= failures

\* What a call records was decided while it held the row, and it is something.
OutcomeWhenDone ==
    \A c \in Calls : pc[c] = "finish" => c \in claimed /\ outcome[c] # "none"

IInv ==
    /\ TypeOK
    /\ HoldsOpenRow
    /\ SkipsUnrun
    /\ RunsCounted
    /\ OutcomeWhenDone
    /\ OneOwner
    /\ SkippedNeverRan

USE ScheduleAssumption

-----------------------------------------------------------------------------
LEMMA InitInv == Init => IInv
<1> SUFFICES ASSUME Init PROVE IInv
  OBVIOUS
<1> USE DEF Init
<1>1. 1 \in Minutes
  BY DEF Minutes
<1>2. TypeOK
  BY <1>1 DEF TypeOK, Status
<1>3. HoldsOpenRow /\ SkipsUnrun /\ OutcomeWhenDone /\ OneOwner
  BY DEF HoldsOpenRow, SkipsUnrun, OutcomeWhenDone, OneOwner
<1>4. RunsCounted /\ SkippedNeverRan
  BY DEF RunsCounted, SkippedNeverRan
<1> QED
  BY <1>2, <1>3, <1>4 DEF IInv

\* A call that returns, or goes on to its next runOnce, holds no row any more and
\* leaves well-typed locals.
Lets(c) ==
    /\ pc' \in [Calls -> {"idle", "pause", "skip", "anchor", "claim", "handle", "finish"}]
    /\ tick' \in [Calls -> Minutes]
    /\ queue' \in [Calls -> SUBSET Minutes]
    /\ live' \in SUBSET Calls
    /\ outcome' \in [Calls -> Status]
    /\ claimed' = claimed \ {c}
    /\ pc'[c] # "finish"
    /\ \A d \in Calls \ {c} : /\ pc'[d] = pc[d]
                              /\ tick'[d] = tick[d]
                              /\ outcome'[d] = outcome[d]

LEMMA ReturnLets ==
    ASSUME TypeOK, NEW c \in Calls, Return(c)
    PROVE  Lets(c)
<1>1. 1 \in Minutes
  BY DEF Minutes
<1> QED
  BY <1>1 DEF TypeOK, Return, Go, Lets, Status

LEMMA RunOnceLets ==
    ASSUME TypeOK, NEW c \in Calls, NEW fires \in SUBSET Minutes, RunOnce(c, fires)
    PROVE  Lets(c)
<1>1. CASE fires = {}
  BY <1>1 DEF TypeOK, RunOnce, Go, Lets, Status, CurrentTick
<1>2. CASE fires # {}
  BY <1>2 DEF TypeOK, RunOnce, Go, Lets, Status
<1> QED
  BY <1>1, <1>2

LEMMA ContinueLets ==
    ASSUME TypeOK, NEW c \in Calls, Continue(c)
    PROVE  Lets(c)
<1>1. queue[c] \in SUBSET Minutes
  BY DEF TypeOK
<1> QED
  BY <1>1, ReturnLets, RunOnceLets DEF Continue

\* Letting go of a row keeps what the invariant says of the calls, as long as no
\* other owner's row, no count and no failure is touched.
LEMMA LetsKeeps ==
    ASSUME IInv, NEW c \in Calls, Lets(c),
           UNCHANGED <<now, up, paused, runs>>, UNCHANGED rows, failures' \in Nat,
           failures' >= failures, caughtUp' \in SUBSET Workers, deferred' \in SUBSET Minutes,
           UNCHANGED <<crashes, toggles>>
    PROVE  IInv'
<1> USE DEF IInv, Lets
<1>1. TypeOK'
  BY DEF TypeOK
<1>2. HoldsOpenRow' /\ OutcomeWhenDone' /\ OneOwner'
  BY DEF HoldsOpenRow, OutcomeWhenDone, OneOwner, TypeOK
<1>3. SkipsUnrun'
  BY DEF SkipsUnrun, TypeOK
<1>4. RunsCounted'
  BY DEF RunsCounted, TypeOK
<1>5. SkippedNeverRan'
  BY DEF SkippedNeverRan, TypeOK
<1> QED
  BY <1>1, <1>2, <1>3, <1>4, <1>5

\* A call that merely advances without holding a row.
LEMMA AdvanceKeeps ==
    ASSUME IInv, NEW c \in Calls, c \notin claimed,
           NEW next \in {"pause", "skip", "anchor", "claim"}, Go(c, next),
           tick' \in [Calls -> Minutes], \A d \in Calls \ {c} : tick'[d] = tick[d],
           UNCHANGED <<now, up, rows, paused, queue, live, claimed, outcome, runs, deferred>>,
           caughtUp' \in SUBSET Workers, UNCHANGED <<crashes, toggles>>,
           failures' \in Nat, failures' >= failures
    PROVE  IInv'
<1> USE DEF IInv, Go
<1>1. TypeOK'
  BY DEF TypeOK
<1>2. HoldsOpenRow' /\ OutcomeWhenDone' /\ OneOwner'
  BY DEF HoldsOpenRow, OutcomeWhenDone, OneOwner, TypeOK
<1>3. SkipsUnrun' /\ RunsCounted' /\ SkippedNeverRan'
  BY DEF SkipsUnrun, RunsCounted, SkippedNeverRan, TypeOK
<1> QED
  BY <1>1, <1>2, <1>3

\* The handler starts under a fresh row, or under none after a failed claim.
LEMMA StartKeeps ==
    ASSUME IInv, NEW c \in Calls, c \notin claimed, StartHandler(c),
           UNCHANGED <<now, up, paused, caughtUp, deferred, crashes, toggles>>,
           \/ /\ Free(tick[c]) /\ Unfailing /\ Insert(tick[c])
              /\ claimed' = claimed \cup {c}
           \/ ClaimFails(tick[c]) /\ UNCHANGED claimed
    PROVE  IInv'
<1> DEFINE t == tick[c]
<1> USE DEF IInv, StartHandler, Go, Free, Unfailing, Insert, ClaimFails, Fails
<1>1. t \in Minutes /\ runs' = [runs EXCEPT ![t] = runs[t] + 1] /\ runs \in [Minutes -> Nat]
  BY DEF TypeOK
<1>2. failures \in Nat /\ failures' \in Nat /\ failures' >= failures
  BY DEF TypeOK
<1>3. rows' \in [Minutes -> Status] /\ \A u \in Minutes \ {t} : rows'[u] = rows[u]
  BY <1>1 DEF TypeOK, Status
<1>4. TypeOK'
  <2>1. runs' \in [Minutes -> Nat] /\ claimed' \in SUBSET Calls
    BY <1>1 DEF TypeOK
  <2>2. pc' \in [Calls -> {"idle", "pause", "skip", "anchor", "claim", "handle", "finish"}]
    BY DEF TypeOK
  <2> QED
    BY <1>2, <1>3, <2>1, <2>2 DEF TypeOK
<1>5. \A d \in claimed : tick[d] \in Minutes /\ d # c /\ rows'[tick[d]] = "running"
                        /\ (Free(t) => tick[d] # t)
  <2>1. \A d \in claimed : tick[d] \in Minutes /\ rows[tick[d]] = "running" /\ d # c
    BY DEF HoldsOpenRow, TypeOK
  <2> QED
    BY <1>1, <1>3, <2>1
<1>6. HoldsOpenRow' /\ OneOwner'
  BY <1>1, <1>5 DEF HoldsOpenRow, OneOwner, TypeOK
<1>7. OutcomeWhenDone'
  BY DEF OutcomeWhenDone, TypeOK
<1>8. RunsCounted'
  <2> SUFFICES ASSUME NEW u \in Minutes
               PROVE  /\ runs'[u] <= failures' + 1
                      /\ rows'[u] = "none" => runs'[u] <= failures'
    BY DEF RunsCounted
  <2>1. runs[u] <= failures + 1 /\ (rows[u] = "none" => runs[u] <= failures)
    BY DEF RunsCounted
  <2>2. CASE u # t
    BY <1>1, <1>2, <1>3, <2>1, <2>2
  <2>3. CASE u = t /\ Free(t)
    <3>1. runs'[u] = runs[u] + 1 /\ runs[u] <= failures
      BY <1>1, <2>1, <2>3
    <3>2. rows'[u] = "none" => failures' = failures + 1
      BY <1>1, <2>3 DEF TypeOK
    <3> QED
      BY <1>1, <1>2, <3>1, <3>2
  <2>4. CASE u = t /\ ~Free(t)
    <3>1. failures' = failures + 1 /\ rows' = rows
      BY <2>4
    <3> QED
      BY <1>1, <1>2, <2>1, <2>4, <3>1
  <2> QED
    BY <2>2, <2>3, <2>4
<1>9. SkippedNeverRan'
  <2> SUFFICES ASSUME NEW u \in Minutes, rows'[u] = "skipped" PROVE runs'[u] <= failures'
    BY DEF SkippedNeverRan
  <2>1. rows[u] = "skipped"
    <3>1. rows' = rows \/ rows' = [rows EXCEPT ![t] = "running"]
      OBVIOUS
    <3>2. rows \in [Minutes -> Status]
      BY DEF TypeOK
    <3> HIDE DEF IInv, StartHandler, Go, Free, Unfailing, Insert, ClaimFails, Fails, t
    <3> QED
      BY <1>1, <3>1, <3>2
  <2>2. runs[u] <= failures
    BY <2>1 DEF SkippedNeverRan
  <2>3. CASE u = t
    BY <1>1, <1>2, <2>1, <2>2, <2>3
  <2>4. CASE u # t
    BY <1>1, <1>2, <2>2, <2>4
  <2> QED
    BY <2>3, <2>4
<1>10. SkipsUnrun'
  <2> SUFFICES ASSUME NEW d \in claimed', pc'[d] = "finish", outcome'[d] = "skipped"
               PROVE  runs'[tick'[d]] <= failures'
    BY DEF SkipsUnrun
  <2>1. d \in claimed /\ d # c
    BY DEF TypeOK
  <2>2. tick[d] \in Minutes /\ runs[tick[d]] <= failures
    BY <2>1 DEF SkipsUnrun, TypeOK
  <2>3. CASE Free(t)
    BY <1>1, <1>2, <1>5, <2>1, <2>2, <2>3
  <2>4. CASE ~Free(t)
    BY <1>1, <1>2, <2>1, <2>2, <2>4
  <2> QED
    BY <2>3, <2>4
<1> QED
  BY <1>4, <1>6, <1>7, <1>8, <1>9, <1>10

-----------------------------------------------------------------------------
\* A firing takes a free tick to record it as skipped.
LEMMA SkipKeeps ==
    ASSUME IInv, NEW c \in Calls, Skip(c)
    PROVE  IInv'
<1> DEFINE t == tick[c]
<1> USE DEF IInv
<1>0. c \notin claimed /\ t \in Minutes
  BY DEF Skip, HoldsOpenRow, TypeOK
<1>1. CASE ~Free(t) /\ Unfailing /\ UNCHANGED rows /\ Return(c)
  <2>1. Lets(c)
    BY <1>1, ReturnLets
  <2> QED
    BY <1>1, <2>1, LetsKeeps DEF Skip, Unfailing, TypeOK
<1>2. CASE ClaimFails(t) /\ Return(c) /\ UNCHANGED rows
  <2>1. Lets(c)
    BY <1>2, ReturnLets
  <2> QED
    BY <1>2, <2>1, LetsKeeps DEF Skip, ClaimFails, Fails, TypeOK
<1>3. CASE ClaimFails(t) /\ Return(c) /\ Free(t) /\ Insert(t)
  <2> USE DEF Skip, ClaimFails, Fails, Free, Insert
  <2>1. Lets(c)
    BY <1>3, ReturnLets
  <2>2. failures \in Nat /\ failures' = failures + 1 /\ claimed' = claimed
    BY <1>0, <1>3, <2>1 DEF TypeOK, Lets
  <2>3. rows' \in [Minutes -> Status] /\ \A u \in Minutes \ {t} : rows'[u] = rows[u]
    BY <1>0, <1>3 DEF TypeOK, Status
  <2>4. \A d \in claimed : tick[d] \in Minutes /\ rows[tick[d]] = "running" /\ d # c
    BY <1>0 DEF HoldsOpenRow, TypeOK
  <2>5. TypeOK'
    BY <1>3, <2>1, <2>2, <2>3 DEF TypeOK, Lets
  <2>6. HoldsOpenRow' /\ OneOwner' /\ OutcomeWhenDone'
    BY <1>0, <1>3, <2>1, <2>2, <2>3, <2>4
       DEF HoldsOpenRow, OneOwner, OutcomeWhenDone, Lets, TypeOK
  <2>7. SkipsUnrun'
    BY <1>3, <2>1, <2>2, <2>4 DEF SkipsUnrun, Lets, TypeOK
  <2>8. RunsCounted' /\ SkippedNeverRan'
    BY <1>0, <1>3, <2>2, <2>3 DEF RunsCounted, SkippedNeverRan, TypeOK
  <2> QED
    BY <2>5, <2>6, <2>7, <2>8
<1>4. CASE /\ Free(t) /\ Unfailing /\ Insert(t) /\ Go(c, "finish")
           /\ claimed' = claimed \cup {c}
           /\ outcome' = [outcome EXCEPT ![c] = "skipped"]
           /\ live' = live \cup {c}
           /\ UNCHANGED <<tick, queue>>
  <2> USE DEF Skip, Unfailing, Free, Insert, Go
  <2>1. rows' \in [Minutes -> Status] /\ \A u \in Minutes \ {t} : rows'[u] = rows[u]
    BY <1>0, <1>4 DEF TypeOK, Status
  <2>2. \A d \in claimed : tick[d] \in Minutes /\ rows[tick[d]] = "running" /\ d # c
    BY <1>0 DEF HoldsOpenRow, TypeOK
  <2>3. pc' \in [Calls -> {"idle", "pause", "skip", "anchor", "claim", "handle", "finish"}]
        /\ outcome' \in [Calls -> Status] /\ claimed' \in SUBSET Calls
    BY <1>4 DEF TypeOK, Status
  <2>4. TypeOK'
    BY <1>4, <2>1, <2>3 DEF TypeOK
  <2>5. HoldsOpenRow' /\ OneOwner'
    BY <1>0, <1>4, <2>1, <2>2 DEF HoldsOpenRow, OneOwner, TypeOK
  <2>6. OutcomeWhenDone'
    BY <1>4 DEF OutcomeWhenDone, TypeOK
  <2>7. SkipsUnrun'
    BY <1>0, <1>4, <2>2 DEF SkipsUnrun, RunsCounted, TypeOK
  <2>8. RunsCounted' /\ SkippedNeverRan'
    BY <1>0, <1>4, <2>1 DEF RunsCounted, SkippedNeverRan, TypeOK
  <2> QED
    BY <2>4, <2>5, <2>6, <2>7, <2>8
<1> QED
  BY <1>1, <1>2, <1>3, <1>4 DEF Skip, ClaimFails

LEMMA CheckPauseKeeps ==
    ASSUME IInv, NEW c \in Calls, CheckPause(c)
    PROVE  IInv'
<1> USE DEF IInv, CheckPause
<1>0. c \notin claimed
  BY DEF HoldsOpenRow
<1>1. CASE /\ Go(c, "skip") /\ Unfailing
           /\ tick' = [tick EXCEPT ![c] = CurrentTick]
           /\ UNCHANGED <<caughtUp, queue, live, claimed, outcome>>
  <2>1. tick' \in [Calls -> Minutes] /\ \A d \in Calls \ {c} : tick'[d] = tick[d]
    BY <1>1 DEF TypeOK, CurrentTick
  <2>2. failures' = failures /\ failures \in Nat /\ caughtUp' \in SUBSET Workers
    BY <1>1 DEF Unfailing, TypeOK
  <2> QED
    BY <1>0, <1>1, <2>1, <2>2, AdvanceKeeps
<1>2. ASSUME Proceed(c), failures' \in Nat, failures' >= failures
      PROVE  IInv'
  <2>1. CASE CatchUp /\ WorkerOf[c] \notin caughtUp
    <3>1. Go(c, "anchor") /\ UNCHANGED <<tick, queue, live, claimed, outcome>>
          /\ caughtUp' \in SUBSET Workers /\ tick' \in [Calls -> Minutes]
      BY <1>2, <2>1 DEF Proceed, TypeOK
    <3> QED
      BY <1>0, <1>2, <3>1, AdvanceKeeps
  <2>2. CASE RunOnce(c, {}) /\ UNCHANGED caughtUp
    <3>1. Lets(c)
      BY <2>2, RunOnceLets
    <3> QED
      BY <1>2, <2>2, <3>1, LetsKeeps DEF TypeOK
  <2> QED
    BY <1>2, <2>1, <2>2 DEF Proceed
<1>3. CASE Unfailing /\ Proceed(c)
  BY <1>2, <1>3 DEF Unfailing, TypeOK
<1>4. CASE Fails /\ Proceed(c)
  BY <1>2, <1>4 DEF Fails, TypeOK
<1> QED
  BY <1>1, <1>3, <1>4

LEMMA AnchorKeeps ==
    ASSUME IInv, NEW c \in Calls, Anchor(c)
    PROVE  IInv'
<1> USE DEF IInv, Anchor
<1> DEFINE fires == IF Recorded = {} THEN {} ELSE Missed
<1>1. CASE Unfailing /\ RunOnce(c, Oldest(fires))
           /\ deferred' = deferred \cup (fires \ Oldest(fires))
  <2>1. fires \in SUBSET Minutes /\ Oldest(fires) \in SUBSET Minutes
    BY DEF Missed, Oldest
  <2>2. Lets(c)
    BY <1>1, <2>1, RunOnceLets
  <2>3. deferred' \in SUBSET Minutes
    BY <1>1, <2>1 DEF TypeOK
  <2> QED
    BY <1>1, <2>2, <2>3, LetsKeeps DEF Unfailing, TypeOK
<1>2. CASE Fails /\ RunOnce(c, {}) /\ UNCHANGED deferred
  <2>1. Lets(c)
    BY <1>2, RunOnceLets
  <2> QED
    BY <1>2, <2>1, LetsKeeps DEF Fails, TypeOK
<1> QED
  BY <1>1, <1>2

LEMMA ClaimKeeps ==
    ASSUME IInv, NEW c \in Calls, Claim(c)
    PROVE  IInv'
<1> USE DEF IInv, Claim
<1>0. c \notin claimed
  BY DEF HoldsOpenRow
<1>1. CASE /\ Free(tick[c]) /\ Unfailing /\ Insert(tick[c])
           /\ claimed' = claimed \cup {c} /\ StartHandler(c)
  BY <1>0, <1>1, StartKeeps
<1>2. CASE ~Free(tick[c]) /\ Unfailing /\ UNCHANGED rows /\ Taken(c)
  <2>1. Lets(c)
    BY <1>2, ContinueLets DEF Taken
  <2> QED
    BY <1>2, <2>1, LetsKeeps DEF Taken, Unfailing, TypeOK
<1>3. CASE ClaimFails(tick[c]) /\ Unrecorded(c)
  BY <1>0, <1>3, StartKeeps DEF Unrecorded
<1> QED
  BY <1>1, <1>2, <1>3

LEMMA HandlerEndsKeeps ==
    ASSUME IInv, NEW c \in Calls, NEW status \in {"completed", "failed"},
           HandlerEnds(c, status)
    PROVE  IInv'
<1> USE DEF IInv, HandlerEnds, counts
<1>1. CASE Finishes(c, status)
  <2> USE DEF Finishes, Go
  <2>1. TypeOK'
    BY <1>1 DEF TypeOK, Status
  <2>2. HoldsOpenRow' /\ OutcomeWhenDone' /\ OneOwner'
    BY <1>1 DEF HoldsOpenRow, OutcomeWhenDone, OneOwner, TypeOK
  <2>3. SkipsUnrun' /\ RunsCounted' /\ SkippedNeverRan'
    BY <1>1 DEF SkipsUnrun, RunsCounted, SkippedNeverRan, TypeOK
  <2> QED
    BY <2>1, <2>2, <2>3
<1>2. CASE ~Finishes(c, status)
  <2>1. Lets(c)
    BY <1>2, ContinueLets
  <2> QED
    BY <1>2, <2>1, LetsKeeps DEF TypeOK
<1> QED
  BY <1>1, <1>2

\* The owner of a row writes its outcome and lets go.
LEMMA FinishRunKeeps ==
    ASSUME IInv, NEW c \in Calls, FinishRun(c)
    PROVE  IInv'
<1> DEFINE t == tick[c]
<1> USE DEF IInv, FinishRun
<1>1. Lets(c)
  BY ContinueLets
<1>2. c \in claimed /\ t \in Minutes /\ rows[t] = "running" /\ outcome[c] \in Status
  BY DEF OutcomeWhenDone, HoldsOpenRow, TypeOK
<1>3. CASE Fails /\ UNCHANGED rows
  BY <1>1, <1>3, LetsKeeps DEF Fails, TypeOK
<1>4. CASE Unfailing /\ rows' = [rows EXCEPT ![t] = outcome[c]]
  <2> USE DEF Unfailing
  <2>1. rows' \in [Minutes -> Status] /\ \A u \in Minutes \ {t} : rows'[u] = rows[u]
    BY <1>2, <1>4 DEF TypeOK
  <2>2. \A d \in claimed' : d \in claimed /\ d # c /\ d \in Calls /\ tick[d] \in Minutes \ {t}
    BY <1>1, <1>2 DEF Lets, OneOwner, TypeOK
  <2>3. TypeOK'
    BY <1>1, <1>4, <2>1 DEF TypeOK, Lets
  <2>4. HoldsOpenRow' /\ OneOwner' /\ OutcomeWhenDone'
    BY <1>1, <1>4, <2>1, <2>2
       DEF HoldsOpenRow, OneOwner, OutcomeWhenDone, Lets, TypeOK
  <2>5. SkipsUnrun'
    BY <1>1, <1>4, <2>2 DEF SkipsUnrun, Lets, TypeOK
  <2>6. RunsCounted'
    <3>1. runs' = runs /\ failures' = failures /\ runs \in [Minutes -> Nat] /\ failures \in Nat
      BY <1>4 DEF TypeOK
    <3>2. \A u \in Minutes : runs[u] <= failures + 1
      BY DEF RunsCounted
    <3>3. outcome[c] # "none"
      BY DEF OutcomeWhenDone
    <3> QED
      BY <1>4, <2>1, <3>1, <3>2, <3>3 DEF RunsCounted, TypeOK
  <2>7. SkippedNeverRan'
    BY <1>2, <1>4, <2>1 DEF SkippedNeverRan, SkipsUnrun, TypeOK
  <2> QED
    BY <2>3, <2>4, <2>5, <2>6, <2>7
<1> QED
  BY <1>3, <1>4

\* A crash takes its calls' hold of the rows with it and leaves the rows alone.
LEMMA CrashKeeps ==
    ASSUME IInv, NEW w \in Workers, Crash(w)
    PROVE  IInv'
<1> DEFINE dead == {c \in Calls : WorkerOf[c] = w}
<1> USE DEF IInv, Crash
<1>1. 1 \in Minutes
  BY DEF Minutes
<1>2. TypeOK'
  BY <1>1 DEF TypeOK, Status
<1>3. \A c \in Calls \ dead : /\ pc'[c] = pc[c] /\ tick'[c] = tick[c]
                              /\ outcome'[c] = outcome[c]
  BY DEF TypeOK
<1>4. claimed' \subseteq claimed /\ claimed' \subseteq Calls \ dead
  BY DEF TypeOK
<1>5. rows' = rows /\ runs' = runs /\ failures' = failures
  OBVIOUS
<1>6. \A c \in Calls : pc'[c] = "finish" => c \notin dead /\ pc[c] = "finish"
  BY DEF TypeOK
<1>7. HoldsOpenRow' /\ OneOwner'
  BY <1>3, <1>4, <1>5 DEF HoldsOpenRow, OneOwner, TypeOK
<1>8. OutcomeWhenDone'
  BY <1>3, <1>6 DEF OutcomeWhenDone, TypeOK
<1>9. SkipsUnrun'
  BY <1>3, <1>4, <1>5 DEF SkipsUnrun, TypeOK
<1>10. RunsCounted' /\ SkippedNeverRan'
  BY <1>5 DEF RunsCounted, SkippedNeverRan
<1> QED
  BY <1>2, <1>7, <1>8, <1>9, <1>10

\* The clock, a process that comes back and the pause switch touch no call.
LEMMA OutsideKeeps ==
    ASSUME IInv, UNCHANGED <<rows, call, runs, failures, caughtUp, deferred>>,
           now' \in Minutes, up' \in SUBSET Workers, paused' \in BOOLEAN,
           crashes' \in Nat, toggles' \in Nat
    PROVE  IInv'
<1> USE DEF IInv, call
<1>1. TypeOK'
  BY DEF TypeOK
<1>2. HoldsOpenRow' /\ SkipsUnrun' /\ OutcomeWhenDone' /\ OneOwner'
  BY DEF HoldsOpenRow, SkipsUnrun, OutcomeWhenDone, OneOwner
<1>3. RunsCounted' /\ SkippedNeverRan'
  BY DEF RunsCounted, SkippedNeverRan
<1> QED
  BY <1>1, <1>2, <1>3

LEMMA StepInv == IInv /\ [Next]_vars => IInv'
<1> SUFFICES ASSUME IInv, [Next]_vars PROVE IInv'
  OBVIOUS
<1>1. CASE Minute
  <2>1. now' \in Minutes
    BY <1>1 DEF Minute, IInv, TypeOK, Minutes
  <2> QED
    BY <1>1, <2>1, OutsideKeeps DEF Minute, IInv, TypeOK, counts
<1>2. CASE SetPaused
  BY <1>2, OutsideKeeps DEF SetPaused, IInv, TypeOK
<1>3. ASSUME NEW w \in Workers, Crash(w) PROVE IInv'
  BY <1>3, CrashKeeps
<1>4. ASSUME NEW w \in Workers, Boot(w) PROVE IInv'
  BY <1>4, OutsideKeeps DEF Boot, IInv, TypeOK, counts
<1>5. ASSUME NEW c \in Calls, Fire(c) PROVE IInv'
  <2>1. c \notin claimed
    BY <1>5 DEF Fire, IInv, HoldsOpenRow
  <2>2. Go(c, "pause") /\ UNCHANGED <<tick, failures, caughtUp, crashes, toggles>>
    BY <1>5 DEF Fire, counts
  <2>3. tick' \in [Calls -> Minutes] /\ failures' \in Nat /\ failures' >= failures
    BY <2>2 DEF IInv, TypeOK
  <2>4. caughtUp' \in SUBSET Workers /\ \A d \in Calls \ {c} : tick'[d] = tick[d]
    BY <2>2 DEF IInv, TypeOK
  <2> QED
    BY <1>5, <2>1, <2>2, <2>3, <2>4, AdvanceKeeps DEF Fire
<1>6. ASSUME NEW c \in Calls, Step(c) PROVE IInv'
  BY <1>6, CheckPauseKeeps, SkipKeeps, AnchorKeeps, ClaimKeeps, HandlerEndsKeeps,
     FinishRunKeeps DEF Step
<1>7. CASE UNCHANGED vars
  BY <1>7, OutsideKeeps DEF vars, counts, IInv, TypeOK
<1> QED
  BY <1>1, <1>2, <1>3, <1>4, <1>5, <1>6, <1>7 DEF Next

-----------------------------------------------------------------------------
\* IInv is inductive.
THEOREM Invariance == Spec => []IInv
  BY InitInv, StepInv, PTL DEF Spec

\* Every variable keeps its type.
THEOREM TypeCorrect == Spec => []TypeOK
<1>1. IInv => TypeOK
  BY DEF IInv
<1> QED
  BY Invariance, <1>1, PTL

\* "One scheduled tick runs at most once", once more for each failed claim.
THEOREM TickRunsOnce == Spec => []AtMostOncePerTick
<1>1. IInv => AtMostOncePerTick
  BY DEF IInv, RunsCounted, AtMostOncePerTick, TypeOK
<1> QED
  BY Invariance, <1>1, PTL

\* A tick recorded as skipped was run by nobody whose claim was answered.
THEOREM SkippedWasNotRun == Spec => []SkippedNeverRan
<1>1. IInv => SkippedNeverRan
  BY DEF IInv
<1> QED
  BY Invariance, <1>1, PTL

\* Two calls never hold the row of one tick.
THEOREM RowHasOneOwner == Spec => []OneOwner
<1>1. IInv => OneOwner
  BY DEF IInv
<1> QED
  BY Invariance, <1>1, PTL
-----------------------------------------------------------------------------
(* A row that stays "running" has somebody behind it.                      *)

\* No call is about to record "running", and without crashes and failures an open
\* row is held.
Attended == RunningHasARunner /\ \A c \in Calls : outcome[c] # "running"

\* Letting go of nothing.
LEMMA FreeHandKeeps ==
    ASSUME IInv, Attended, NEW c \in Calls, Lets(c), c \notin claimed,
           outcome'[c] # "running", UNCHANGED rows, crashes' >= crashes, failures' >= failures
    PROVE  Attended'
  BY DEF Attended, RunningHasARunner, Lets, IInv, TypeOK

\* A fresh row has its owner.
LEMMA FreshRowKeeps ==
    ASSUME IInv, Attended, NEW c \in Calls, Insert(tick[c]), claimed' = claimed \cup {c},
           UNCHANGED <<tick, crashes, failures>>, \A d \in Calls : outcome'[d] # "running"
    PROVE  Attended'
<1>1. tick[c] \in Minutes /\ \A t \in Minutes \ {tick[c]} : rows'[t] = rows[t]
  BY DEF Insert, IInv, TypeOK
<1> QED
  BY <1>1 DEF Attended, RunningHasARunner

\* A failure excuses whatever is left open.
LEMMA FailureExcuses ==
    ASSUME IInv, failures' > failures, \A d \in Calls : outcome'[d] # "running"
    PROVE  Attended'
  BY DEF Attended, RunningHasARunner, IInv, TypeOK

\* What a call leaves as its outcome when it goes on is never "running".
LEMMA LetsGoBlank ==
    ASSUME TypeOK, NEW c \in Calls,
           Return(c) \/ \E fires \in SUBSET Minutes : RunOnce(c, fires)
    PROVE  Lets(c) /\ outcome'[c] = "none"
<1>1. Lets(c)
  BY ReturnLets, RunOnceLets
<1>2. outcome' = [outcome EXCEPT ![c] = "none"]
  BY DEF Return, RunOnce
<1> QED
  BY <1>1, <1>2 DEF TypeOK

LEMMA ContinueGoesBlank ==
    ASSUME TypeOK, NEW c \in Calls, Continue(c)
    PROVE  Lets(c) /\ outcome'[c] = "none"
<1>1. queue[c] \in SUBSET Minutes
  BY DEF TypeOK
<1> QED
  BY <1>1, LetsGoBlank DEF Continue

LEMMA StepAttended ==
    ASSUME IInv, Attended, NEW c \in Calls, Step(c)
    PROVE  Attended'
<1>0. TypeOK /\ failures \in Nat /\ crashes \in Nat
  BY DEF IInv, TypeOK
<1>1. ASSUME Return(c) \/ \E fires \in SUBSET Minutes : RunOnce(c, fires), UNCHANGED rows,
             c \notin claimed, Unfailing \/ Fails, UNCHANGED crashes
      PROVE  Attended'
  <2>1. Lets(c) /\ outcome'[c] # "running"
    BY <1>0, <1>1, LetsGoBlank
  <2>2. crashes' >= crashes /\ failures' >= failures
    BY <1>0, <1>1 DEF Unfailing, Fails
  <2> QED
    BY <1>1, <2>1, <2>2, FreeHandKeeps
<1>2. CASE CheckPause(c)
  <2>1. c \notin claimed /\ UNCHANGED <<rows, crashes>>
    BY <1>2 DEF CheckPause, IInv, HoldsOpenRow
  <2>2. CASE UNCHANGED <<claimed, outcome>>
    <3>1. \A d \in claimed : tick'[d] = tick[d] /\ failures' >= failures
      BY <1>0, <1>2, <2>1, <2>2 DEF CheckPause, Proceed, RunOnce, Unfailing, Fails, TypeOK
    <3>2. failures' = 0 => failures = 0
      BY <1>0, <1>2 DEF CheckPause, Unfailing, Fails
    <3> QED
      BY <2>1, <2>2, <3>1, <3>2 DEF Attended, RunningHasARunner
  <2>3. CASE RunOnce(c, {})
    BY <1>1, <1>2, <2>1, <2>3 DEF CheckPause
  <2> QED
    BY <1>2, <2>2, <2>3 DEF CheckPause, Proceed
<1>3. CASE Skip(c)
  <2>1. c \notin claimed /\ UNCHANGED crashes
    BY <1>3 DEF Skip, IInv, HoldsOpenRow
  <2>2. CASE /\ Insert(tick[c]) /\ Unfailing /\ claimed' = claimed \cup {c}
             /\ outcome' = [outcome EXCEPT ![c] = "skipped"] /\ UNCHANGED tick
    <3>1. \A d \in Calls : outcome'[d] # "running"
      BY <1>0, <2>2 DEF Attended, TypeOK
    <3> QED
      BY <2>1, <2>2, <3>1, FreshRowKeeps DEF Unfailing
  <2>3. CASE Unfailing /\ UNCHANGED rows /\ Return(c)
    BY <1>1, <2>1, <2>3
  <2>4. CASE ClaimFails(tick[c]) /\ Return(c)
    <3>1. \A d \in Calls : outcome'[d] # "running"
      BY <1>0, <2>4 DEF Return, Attended, TypeOK
    <3> QED
      BY <1>0, <2>4, <3>1, FailureExcuses DEF ClaimFails, Fails
  <2> QED
    BY <1>3, <2>2, <2>3, <2>4 DEF Skip
<1>4. CASE Anchor(c)
  <2>1. \A fires \in SUBSET Minutes : Oldest(fires) \in SUBSET Minutes
    BY DEF Oldest
  <2>2. Missed \in SUBSET Minutes
    BY DEF Missed
  <2>3. \E fires \in SUBSET Minutes : RunOnce(c, fires)
    BY <1>4, <2>1, <2>2 DEF Anchor
  <2>4. c \notin claimed
    BY <1>4 DEF Anchor, IInv, HoldsOpenRow
  <2> QED
    BY <1>1, <1>4, <2>3, <2>4 DEF Anchor
<1>5. CASE Claim(c)
  <2>1. c \notin claimed /\ UNCHANGED crashes
    BY <1>5 DEF Claim, IInv, HoldsOpenRow
  <2>2. CASE /\ Insert(tick[c]) /\ Unfailing /\ claimed' = claimed \cup {c}
             /\ StartHandler(c)
    BY <2>1, <2>2, FreshRowKeeps DEF Unfailing, StartHandler, Attended
  <2>3. CASE Unfailing /\ UNCHANGED rows /\ Taken(c)
    <3>1. Lets(c) /\ outcome'[c] # "running"
      BY <1>0, <2>3, ContinueGoesBlank DEF Taken
    <3> QED
      BY <1>0, <2>1, <2>3, <3>1, FreeHandKeeps DEF Unfailing
  <2>4. CASE ClaimFails(tick[c]) /\ Unrecorded(c)
    BY <1>0, <2>4, FailureExcuses DEF ClaimFails, Fails, Unrecorded, StartHandler, Attended
  <2> QED
    BY <1>5, <2>2, <2>3, <2>4 DEF Claim
<1>6. ASSUME NEW status \in {"completed", "failed"}, HandlerEnds(c, status)
      PROVE  Attended'
  <2>1. UNCHANGED <<rows, crashes, failures>>
    BY <1>6 DEF HandlerEnds, counts
  <2>2. CASE c \in claimed
    BY <1>0, <1>6, <2>1, <2>2 DEF HandlerEnds, Finishes, Attended, RunningHasARunner, TypeOK
  <2>3. CASE c \notin claimed
    <3>1. Lets(c) /\ outcome'[c] # "running"
      BY <1>0, <1>6, <2>3, ContinueGoesBlank DEF HandlerEnds, Finishes
    <3> QED
      BY <1>0, <2>1, <2>3, <3>1, FreeHandKeeps
  <2> QED
    BY <2>2, <2>3
<1>7. CASE FinishRun(c)
  <2>1. Lets(c) /\ outcome'[c] = "none" /\ UNCHANGED crashes
    BY <1>0, <1>7, ContinueGoesBlank DEF FinishRun
  <2>2. \A d \in Calls : outcome'[d] # "running"
    BY <2>1 DEF Lets, Attended
  <2>3. CASE Fails
    BY <1>0, <2>2, <2>3, FailureExcuses DEF Fails
  <2>4. CASE Unfailing /\ rows' = [rows EXCEPT ![tick[c]] = outcome[c]]
    <3>1. \A t \in Minutes : rows'[t] = "running" => rows[t] = "running" /\ t # tick[c]
      BY <1>0, <2>4 DEF Attended, TypeOK
    <3>2. \A d \in claimed \ {c} : d \in claimed' /\ tick'[d] = tick[d]
      BY <1>0, <2>1 DEF Lets, TypeOK
    <3> QED
      BY <2>1, <2>2, <2>4, <3>1, <3>2 DEF Attended, RunningHasARunner, Unfailing
  <2> QED
    BY <1>7, <2>3, <2>4 DEF FinishRun
<1> QED
  BY <1>2, <1>3, <1>4, <1>5, <1>6, <1>7 DEF Step

LEMMA AttendedStep == IInv /\ Attended /\ [Next]_vars => Attended'
<1> SUFFICES ASSUME IInv, Attended, [Next]_vars PROVE Attended'
  OBVIOUS
<1>1. ASSUME NEW w \in Workers, Crash(w) PROVE Attended'
  <2>1. crashes' # 0 /\ \A c \in Calls : outcome'[c] # "running"
    BY <1>1 DEF Crash, Attended, IInv, TypeOK
  <2> QED
    BY <2>1 DEF Attended, RunningHasARunner
<1>2. ASSUME Minute \/ SetPaused \/ (\E w \in Workers : Boot(w)) \/ \E c \in Calls : Fire(c)
      PROVE  Attended'
  BY <1>2 DEF Minute, SetPaused, Boot, Fire, call, counts, Attended, RunningHasARunner
<1>3. ASSUME NEW c \in Calls, Step(c) PROVE Attended'
  BY <1>3, StepAttended
<1>4. CASE UNCHANGED vars
  BY <1>4 DEF vars, call, counts, Attended, RunningHasARunner
<1> QED
  BY <1>1, <1>2, <1>3, <1>4 DEF Next

\* Where nothing crashed and nothing failed, a row "running" is being run.
THEOREM OpenRowIsAttended == Spec => []RunningHasARunner
<1>1. Init => Attended
  BY DEF Init, Attended, RunningHasARunner
<1>2. Attended => RunningHasARunner
  BY DEF Attended
<1> QED
  BY Invariance, AttendedStep, <1>1, <1>2, PTL DEF Spec

\* Whatever the store does, a fire that was not paused runs its handler unless the
\* tick has a row, whether it is live or one of a replay.
THEOREM StoreFailureStopsNothing == Spec => StoreNeverStops
<1> DEFINE A == \A c \in Calls :
         ( /\ pc[c] = "claim" /\ (pc'[c] # "claim" \/ tick'[c] # tick[c])
           /\ runs' = runs /\ crashes' = crashes )
           => rows[tick[c]] # "none"
<1>1. IInv /\ [Next]_vars => [A]_vars
  <2> SUFFICES ASSUME IInv, Next, NEW c \in Calls, pc[c] = "claim",
                      pc'[c] # "claim" \/ tick'[c] # tick[c], runs' = runs,
                      crashes' = crashes
               PROVE  rows[tick[c]] # "none"
    OBVIOUS
  <2>0. TypeOK
    BY DEF IInv
  <2>1. ASSUME NEW d \in Calls, d # c, Step(d) \/ Fire(d) PROVE FALSE
    <3>1. pc'[c] = pc[c]
      BY <2>0, <2>1 DEF Step, Fire, CheckPause, Proceed, Skip, Anchor, Claim, Taken, Unrecorded,
                        StartHandler, HandlerEnds, FinishRun, Continue, Return, RunOnce, Go, TypeOK
    <3>2. tick'[c] = tick[c]
      BY <2>0, <2>1 DEF Step, Fire, CheckPause, Proceed, Skip, Anchor, Claim, Taken, Unrecorded,
                        StartHandler, HandlerEnds, FinishRun, Continue, Return, RunOnce, TypeOK
    <3> QED
      BY <3>1, <3>2
  <2>2. ASSUME Minute \/ SetPaused \/ (\E w \in Workers : Boot(w)) \/ Fire(c) PROVE FALSE
    BY <2>2 DEF Minute, SetPaused, Boot, Fire, call
  <2>3. \A w \in Workers : ~Crash(w)
    BY <2>0 DEF Crash, TypeOK
  <2>4. ASSUME Claim(c) PROVE rows[tick[c]] # "none"
    <3>1. ~StartHandler(c)
      BY <2>0 DEF StartHandler, TypeOK
    <3> QED
      BY <2>4, <3>1 DEF Claim, Unrecorded, Free
  <2>5. ASSUME Step(c) PROVE Claim(c)
    BY <2>5 DEF Step, CheckPause, Skip, Anchor, HandlerEnds, FinishRun
  <2> QED
    BY <2>1, <2>2, <2>3, <2>4, <2>5 DEF Next
<1> QED
  BY Invariance, <1>1, PTL DEF Spec, StoreNeverStops
=============================================================================
