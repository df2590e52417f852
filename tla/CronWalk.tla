------------------------------ MODULE CronWalk ------------------------------
(***************************************************************************)
(* nextFire and missedFires of packages/evestack-schedules/src/cron.ts:    *)
(* walks over the minutes of the host's zone.                              *)
(*                                                                         *)
(* A zone is the sequence of its offsets with the instants they begin at.  *)
(* Date is external: setting the minutes of one goes through its local     *)
(* reading, where a reading that occurs twice means its first occurrence,  *)
(* and one that was erased is taken at the offset before the jump.         *)
(***************************************************************************)
EXTENDS CronFields, Sequences, FiniteSets

CONSTANT WalkLimit    \* the minutes a walk goes before it gives up

ASSUME WalkAssumption == WalkLimit \in Nat

\* Changes of the clock lie farther apart than any two offsets of the zone.
IsZone(z) ==
    /\ z \in Seq([from : Int, offset : Int]) /\ z # << >>
    /\ \A j, k \in 2 .. Len(z), a, b \in 1 .. Len(z) :
          j < k => z[k].from - z[j].from > z[a].offset - z[b].offset

Least(S) == CHOOSE x \in S : \A y \in S : x <= y
Greatest(S) == CHOOSE x \in S : \A y \in S : x >= y

Segment(z, i) == Greatest({k \in DOMAIN z : k = 1 \/ z[k].from <= i})
OffsetOf(z, i) == z[Segment(z, i)].offset
Label(z, i) == i + OffsetOf(z, i)

\* The instant a local reading stands for.
Occurrences(z, l) ==
    {i \in {l - z[k].offset : k \in DOMAIN z} : Label(z, i) = l}
Instant(z, l) ==
    IF Occurrences(z, l) # {} THEN Least(Occurrences(z, l))
    ELSE LET jump == CHOOSE k \in DOMAIN z \ {1} :
                        z[k].from + z[k-1].offset <= l /\ l < z[k].from + z[k].offset
         IN l - z[jump-1].offset

\* cursor.setMinutes(cursor.getMinutes() + 1), and setSeconds(0, 0) before it.
SetMinutes(z, i) == Instant(z, Label(z, i) + 1)
First(z, after) == SetMinutes(z, Instant(z, Label(z, after)))

\* stepMinute: did the step from i to j swallow a reading asked for?  One fire
\* however many, and none where the landing matches by itself.  SwallowedAnyway counts
\* that one twice.
SwallowedAnyway(z, f, i, j) ==
    OffsetOf(z, j) > OffsetOf(z, i) /\ \E l \in Label(z, i) + 1 .. Label(z, j) : Matches(f, l)
Swallowed(z, f, i, j) ==
    /\ OffsetOf(z, j) > OffsetOf(z, i)
    /\ ~Matches(f, Label(z, j))
    /\ \E l \in Label(z, i) + 1 .. Label(z, j) - 1 : Matches(f, l)

\* nextFire: a turn of its loop, and the loop.
NextTurn(z, f, w) ==
    LET j == SetMinutes(z, w.at)
    IN IF w.fire # None THEN w
       ELSE IF Matches(f, Label(z, w.at)) THEN [at |-> w.at, fire |-> w.at]
       ELSE [at |-> j, fire |-> IF Swallowed(z, f, w.at, j) THEN j ELSE None]

NextWalk(z, f, after) ==
    LET walk[n \in Nat] ==
            IF n = 0 THEN [at |-> First(z, after), fire |-> None]
            ELSE NextTurn(z, f, walk[n-1])
    IN walk

NextFire(z, f, after) == NextWalk(z, f, after)[WalkLimit].fire

\* missedFires: a fire is pushed while there is room for it; a turn of the loop,
\* which is over past the end and when a fire found no room.
Pushed(w, i, cap) ==
    IF Len(w.fires) >= cap THEN [w EXCEPT !.truncated = TRUE]
    ELSE [w EXCEPT !.fires = Append(w.fires, i)]

MissedTurn(z, f, until, cap, w) ==
    LET j == SetMinutes(z, w.at)
        own == IF Matches(f, Label(z, w.at)) THEN Pushed(w, w.at, cap) ELSE w
        both == IF ~own.truncated /\ Swallowed(z, f, w.at, j) /\ j <= until
                THEN Pushed(own, j, cap) ELSE own
    IN IF w.at > until \/ w.truncated THEN w ELSE [both EXCEPT !.at = j]

MissedWalk(z, f, after, until, cap) ==
    LET walk[n \in Nat] ==
            IF n = 0 THEN [at |-> First(z, after), fires |-> << >>, truncated |-> FALSE]
            ELSE MissedTurn(z, f, until, cap, walk[n-1])
    IN walk

\* Every turn moves the cursor on by a minute or more.
MissedFires(z, f, after, until, cap) ==
    LET left == until - First(z, after) + 1
    IN MissedWalk(z, f, after, until, cap)[IF left > 0 THEN left ELSE 0]
=============================================================================
