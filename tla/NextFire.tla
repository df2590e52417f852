------------------------------ MODULE NextFire ------------------------------
(***************************************************************************)
(* projectNextFire of packages/dashboard/app/schedules/next-fire.ts: the   *)
(* page does not know the zone the agent reads its cron in, so it asks the *)
(* recorded fires which zones explain them, and says `pinned' when all of  *)
(* these agree about the next one.                                         *)
(*                                                                         *)
(* The budgets of the narrowing and of the walks are left out: a narrowing *)
(* that stops early has read fewer fires, a starved walk pins nothing.     *)
(***************************************************************************)
EXTENDS CronWalk

CONSTANTS
    Candidates,   \* the zones of the runtime, UTC among them
    MaxHops       \* MAX_TRANSITION_HOPS

ASSUME ZonesAssumption == (\A z \in Candidates : IsZone(z)) /\ MaxHops \in Nat

\* nextAtOffset: the first label that matches, within the limit of a walk.
NextAtOffset(f, from, offset) ==
    LET start == from + offset + 1
        walk == start .. start + WalkLimit - 1
        none(to) == \A l \in start .. to : ~Matches(f, l)
    IN IF none(start + WalkLimit - 1) THEN None
       ELSE (CHOOSE l \in walk : Matches(f, l) /\ none(l - 1)) - offset

\* firstOffsetChange, given that no two changes are closer than its probes.
FirstOffsetChange(z, from, to) ==
    LET changes == {i \in from + 1 .. to : OffsetOf(z, i) # OffsetOf(z, from)}
    IN IF changes = {} THEN None ELSE Least(changes)

\* The reading a forward jump lands on, and those it erased.
FiresAtJump(f, change, before, after) ==
    \E l \in change + before .. change + after : Matches(f, l)

\* Behind a backward jump the walk resumes after the repeated readings when it
\* would find one of them.  ResumeAtEdge always resumes after them.
ResumeAtEdge(f, change, before, after) == change + before - after
ResumeAfter(f, change, before, after) ==
    LET candidate == NextAtOffset(f, change, after)
        repeatEnd == change + before - after
    IN IF candidate # None /\ candidate < repeatEnd THEN repeatEnd ELSE change

\* nextInZone: a hop from one segment of the zone to the next, and the loop.
Hop(z, f, limit, w) ==
    LET before == OffsetOf(z, w.cursor)
        at == NextAtOffset(f, w.cursor, before)
        change == FirstOffsetChange(z, w.cursor, at)
        after == OffsetOf(z, change)
        answer(i) == [cursor |-> w.cursor, done |-> TRUE, at |-> i]
        resume(i) == [cursor |-> i, done |-> FALSE, at |-> None]
    IN IF w.done THEN w
       ELSE IF at = None \/ at > limit THEN answer(None)
       ELSE IF change = None THEN answer(at)
       ELSE IF after < before THEN resume(ResumeAfter(f, change, before, after))
       ELSE IF FiresAtJump(f, change, before, after) THEN answer(change) ELSE resume(change)

Hops(z, f, from, limit) ==
    LET hops[n \in Nat] ==
            IF n = 0 THEN [cursor |-> from, done |-> FALSE, at |-> None]
            ELSE Hop(z, f, limit, hops[n-1])
    IN hops

NextInZone(z, f, from, limit) == Hops(z, f, from, limit)[MaxHops].at

\* zonesExplaining: newest first, up to the first fire at which no zone is left.
ExplainedBack(f, fires, i) ==
    \E z \in Candidates : \A j \in fires : j >= i => Matches(f, Label(z, j))
Explaining(f, fires) ==
    {z \in Candidates : \A i \in fires : ExplainedBack(f, fires, i) => Matches(f, Label(z, i))}

Explained(f, fires) == \E z \in Candidates : Matches(f, Label(z, Greatest(fires)))

Magnitude(n) == IF n < 0 THEN -n ELSE n

\* The zone nearest to UTC answers; the others may unpin its answer.
ProjectNextFire(f, fires, now) ==
    LET zones == Explaining(f, fires)
        limit == now + WalkLimit
        chosen == CHOOSE z \in zones : \A y \in zones :
                      Magnitude(OffsetOf(z, now)) <= Magnitude(OffsetOf(y, now))
        at == NextInZone(chosen, f, now, limit)
    IN IF fires = {} THEN [at |-> NextAtOffset(f, now, 0), pinned |-> FALSE]
       ELSE IF ~Explained(f, fires) THEN [at |-> NextAtOffset(f, now, 0), pinned |-> FALSE]
       ELSE [at |-> at,
             pinned |-> at # None /\ \A z \in zones : NextInZone(z, f, now, limit) = at]
=============================================================================
