------------------------ MODULE ScheduleHistoryProofs ------------------------
(***************************************************************************)
(* Proofs about the cron walks and their history: that parseCron means     *)
(* what the grammar says, that nextFire and missedFires find what is owed  *)
(* across every change of the clock, and that the page's nextInZone does,  *)
(* but for an edge of a repeated hour it passes over.                      *)
(*                                                                         *)
(* A walk is a recursive function over the turns of its loop; `Iteration'  *)
(* is what shows that there is one.  The rest is induction on the turns,   *)
(* from two facts about a zone: which readings occur twice (SecondIs), and *)
(* where a step of the cursor lands (StepIs).                              *)
(***************************************************************************)
EXTENDS ScheduleHistory, NaturalsInduction, WellFoundedInduction, FiniteSetTheorems, SequenceTheorems, TLAPS

-----------------------------------------------------------------------------
(* Naturals: induction, least elements, iteration.                         *)

\* A nonempty set of naturals has a least element.
LEMMA NatMin ==
    ASSUME NEW T, T \subseteq Nat, T # {}
    PROVE  \E d \in T : \A e \in T : d <= e
<1>1. PICK d \in T : \A e \in T : <<e, d>> \notin OpToRel(<, Nat)
  BY NatLessThanWellFounded, WFMin
<1>2. ASSUME NEW e \in T, e < d PROVE FALSE
  <2>1. <<e, d>> \in Nat \X Nat
    OBVIOUS
  <2> QED
    BY <1>1, <1>2, <2>1 DEF OpToRel
<1> QED
  BY <1>2

\* Induction, over a set.
LEMMA Inductive ==
    ASSUME NEW G, 0 \in G, \A n \in Nat : n \in G => n + 1 \in G
    PROVE  Nat \subseteq G
<1> DEFINE Bad == {n \in Nat : n \notin G}
<1>1. ASSUME Bad # {} PROVE FALSE
  <2>1. PICK d \in Bad : \A e \in Bad : d <= e
    <3> HIDE DEF Bad
    <3>1. Bad \subseteq Nat
      BY DEF Bad
    <3> QED
      BY <1>1, <3>1, NatMin
  <2>2. d # 0 /\ d \in Nat
    OBVIOUS
  <2>3. d - 1 \in Nat /\ d - 1 \notin Bad
    BY <2>1, <2>2
  <2>4. (d - 1) + 1 = d
    BY <2>2
  <2> QED
    BY <2>3, <2>4
<1> QED
  BY <1>1

\* Least and Greatest of a set with a bound are members of it.
LEMMA LeastIs ==
    ASSUME NEW S, S \subseteq Int, S # {}, NEW b \in Int, \A x \in S : b <= x
    PROVE  Least(S) \in S /\ \A y \in S : Least(S) <= y
<1> DEFINE T == {x - b : x \in S}
<1>1. T \subseteq Nat /\ T # {}
  <2>1. \A x \in S : x - b \in Nat
    OBVIOUS
  <2> QED
    BY <2>1
<1>2. PICK d \in T : \A e \in T : d <= e
  <2> HIDE DEF T
  <2> QED
    BY <1>1, NatMin
<1>3. PICK x \in S : d = x - b
  OBVIOUS
<1>4. ASSUME NEW y \in S PROVE x <= y
  <2>1. y - b \in T
    OBVIOUS
  <2> QED
    BY <1>2, <1>3, <2>1
<1>5. \E l \in S : \A y \in S : l <= y
  BY <1>4
<1> QED
  BY <1>5 DEF Least

LEMMA GreatestIs ==
    ASSUME NEW S, S \subseteq Int, S # {}, NEW b \in Int, \A x \in S : x <= b
    PROVE  Greatest(S) \in S /\ \A y \in S : Greatest(S) >= y
<1> DEFINE T == {b - x : x \in S}
<1>1. T \subseteq Nat /\ T # {}
  <2>1. \A x \in S : b - x \in Nat
    OBVIOUS
  <2> QED
    BY <2>1
<1>2. PICK d \in T : \A e \in T : d <= e
  <2> HIDE DEF T
  <2> QED
    BY <1>1, NatMin
<1>3. PICK x \in S : d = b - x
  OBVIOUS
<1>4. ASSUME NEW y \in S PROVE x >= y
  <2>1. b - y \in T
    OBVIOUS
  <2>2. d <= b - y
    BY <1>2, <2>1
  <2> HIDE DEF T
  <2> QED
    BY <1>3, <2>2
<1>5. \E l \in S : \A y \in S : l >= y
  BY <1>4
<1> QED
  BY <1>5 DEF Greatest

\* The first m steps of iterating a function from a exist, ...
Iterates(h, S, a, step, m) ==
    /\ h \in [0 .. m -> S] /\ h[0] = a
    /\ \A k \in 1 .. m : h[k] = step[h[k-1]]

LEMMA Prefixes ==
    ASSUME NEW S, NEW a \in S, NEW step \in [S -> S]
    PROVE  \A m \in Nat : \E h : Iterates(h, S, a, step, m)
<1> DEFINE G == {n \in Nat : \E h : Iterates(h, S, a, step, n)}
<1>1. 0 \in G
  <2> DEFINE h == [k \in 0 .. 0 |-> a]
  <2>1. h \in [0 .. 0 -> S] /\ h[0] = a
    OBVIOUS
  <2>2. 1 .. 0 = {}
    OBVIOUS
  <2> HIDE DEF h
  <2> QED
    BY <2>1, <2>2 DEF Iterates
<1>2. ASSUME NEW n \in Nat, n \in G PROVE n + 1 \in G
  <2>1. PICK h : Iterates(h, S, a, step, n)
    BY <1>2
  <2> DEFINE g == [k \in 0 .. n + 1 |-> IF k = n + 1 THEN step[h[n]] ELSE h[k]]
  <2>2. g \in [0 .. n + 1 -> S] /\ g[0] = a
    BY <2>1 DEF Iterates
  <2>3. ASSUME NEW k \in 1 .. n + 1 PROVE g[k] = step[g[k-1]]
    BY <2>1 DEF Iterates
  <2> HIDE DEF g
  <2>4. Iterates(g, S, a, step, n + 1)
    BY <2>2, <2>3 DEF Iterates
  <2> QED
    BY <2>4
<1> HIDE DEF G
<1>3. Nat \subseteq G
  BY <1>1, <1>2, Inductive
<1> QED
  BY <1>3 DEF G

\* ... and are those of a sequence without an end.
LEMMA Iteration ==
    ASSUME NEW S, NEW a \in S, NEW step \in [S -> S]
    PROVE  \E g \in [Nat -> S] : g[0] = a /\ \A n \in Nat \ {0} : g[n] = step[g[n-1]]
<1> DEFINE H(m) == CHOOSE h : Iterates(h, S, a, step, m)
           g == [n \in Nat |-> H(n)[n]]
<1>1. ASSUME NEW m \in Nat PROVE Iterates(H(m), S, a, step, m)
  <2>1. \E h : Iterates(h, S, a, step, m)
    BY Prefixes
  <2> QED
    BY <2>1, Zenon
<1>2. ASSUME NEW n \in Nat \ {0} PROVE H(n)[n-1] = H(n-1)[n-1]
  <2> DEFINE G == {k \in Nat : k <= n - 1 => H(n)[k] = H(n-1)[k]}
  <2>1. Iterates(H(n), S, a, step, n) /\ Iterates(H(n-1), S, a, step, n-1)
    <3>1. n \in Nat /\ n - 1 \in Nat
      OBVIOUS
    <3> HIDE DEF H
    <3> QED
      BY <1>1, <3>1
  <2> HIDE DEF H
  <2>2. 0 \in G
    BY <2>1 DEF Iterates
  <2>3. ASSUME NEW k \in Nat, k \in G PROVE k + 1 \in G
    <3> SUFFICES ASSUME k + 1 <= n - 1 PROVE H(n)[k+1] = H(n-1)[k+1]
      OBVIOUS
    <3>1. H(n)[k] = H(n-1)[k]
      BY <2>3
    <3>2. k + 1 \in 1 .. n - 1 /\ k + 1 \in 1 .. n /\ (k + 1) - 1 = k
      OBVIOUS
    <3>3. H(n)[k+1] = step[H(n)[(k+1)-1]] /\ H(n-1)[k+1] = step[H(n-1)[(k+1)-1]]
      BY <2>1, <3>2 DEF Iterates
    <3> QED
      BY <3>1, <3>2, <3>3
  <2> HIDE DEF G
  <2>4. n - 1 \in G
    BY <2>2, <2>3, Inductive
  <2> QED
    BY <2>4 DEF G
<1>3. g \in [Nat -> S]
  <2>1. \A n \in Nat : H(n)[n] \in S
    <3> HIDE DEF H
    <3> QED
      BY <1>1 DEF Iterates
  <2> QED
    BY <2>1
<1>4. g[0] = a
  <2> HIDE DEF H
  <2> QED
    BY <1>1 DEF Iterates
<1>5. ASSUME NEW n \in Nat \ {0} PROVE g[n] = step[g[n-1]]
  <2> HIDE DEF H
  <2>1. H(n)[n] = step[H(n)[n-1]]
    BY <1>1 DEF Iterates
  <2> QED
    BY <1>2, <2>1
<1> QED
  BY <1>3, <1>4, <1>5

-----------------------------------------------------------------------------
(* Zones: segments, labels, and the readings that occur twice.             *)

\* What IsZone says, in the form the proofs use.
LEMMA ZoneIs ==
    ASSUME NEW z, IsZone(z)
    PROVE  /\ Len(z) \in Nat \ {0} /\ DOMAIN z = 1 .. Len(z)
           /\ \A k \in 1 .. Len(z) : z[k].from \in Int /\ z[k].offset \in Int
           /\ \A j, k \in 2 .. Len(z), a, b \in 1 .. Len(z) :
                 j < k => z[k].from - z[j].from > z[a].offset - z[b].offset
           /\ \A j, k \in 2 .. Len(z) : j < k => z[j].from < z[k].from
<1>1. z \in Seq([from : Int, offset : Int]) /\ z # << >>
  BY DEF IsZone
<1>2. Len(z) \in Nat \ {0} /\ DOMAIN z = 1 .. Len(z)
  BY <1>1
<1>3. \A k \in 1 .. Len(z) : z[k].from \in Int /\ z[k].offset \in Int
  <2> TAKE k \in 1 .. Len(z)
  <2>1. z[k] \in [from : Int, offset : Int]
    BY <1>1, ElementOfSeq
  <2> QED
    BY <2>1
<1>4. \A j, k \in 2 .. Len(z), a, b \in 1 .. Len(z) :
         j < k => z[k].from - z[j].from > z[a].offset - z[b].offset
  BY DEF IsZone
<1>5. ASSUME NEW j \in 2 .. Len(z), NEW k \in 2 .. Len(z), j < k PROVE z[j].from < z[k].from
  <2>1. z[k].from - z[j].from > z[1].offset - z[1].offset
    BY <1>2, <1>4, <1>5
  <2>2. j \in 1 .. Len(z) /\ k \in 1 .. Len(z) /\ 1 \in 1 .. Len(z)
    BY <1>2
  <2>3. z[k].from \in Int /\ z[j].from \in Int /\ z[1].offset \in Int
    BY <1>3, <2>2
  <2> QED
    BY <2>1, <2>3
<1> QED
  BY <1>2, <1>3, <1>4, <1>5

\* The segment an instant lies in is the last that has begun by then, ...
LEMMA SegmentIs ==
    ASSUME NEW z, IsZone(z), NEW i \in Int
    PROVE  /\ Segment(z, i) \in 1 .. Len(z)
           /\ Segment(z, i) = 1 \/ z[Segment(z, i)].from <= i
           /\ \A k \in 2 .. Len(z) : k > Segment(z, i) => i < z[k].from
<1> DEFINE S == {k \in DOMAIN z : k = 1 \/ z[k].from <= i}
<1>1. Len(z) \in Nat \ {0} /\ DOMAIN z = 1 .. Len(z)
  BY ZoneIs
<1>2. S \subseteq Int /\ S # {} /\ (\A x \in S : x <= Len(z)) /\ Len(z) \in Int
  BY <1>1
<1>3. Greatest(S) \in S /\ \A y \in S : Greatest(S) >= y
  <2> HIDE DEF S
  <2> QED
    BY <1>2, GreatestIs
<1>4. Segment(z, i) = Greatest(S)
  BY DEF Segment
<1>5. ASSUME NEW k \in 2 .. Len(z), k > Segment(z, i) PROVE i < z[k].from
  <2>1. k \notin S
    <3>1. Segment(z, i) \in Int /\ ~(Segment(z, i) >= k)
      BY <1>2, <1>3, <1>4, <1>5
    <3> HIDE DEF S
    <3> QED
      BY <1>3, <1>4, <3>1
  <2>2. k \in 1 .. Len(z) /\ z[k].from \in Int
    BY <1>1, ZoneIs
  <2> QED
    BY <1>1, <2>1, <2>2
<1> HIDE DEF S
<1> QED
  BY <1>1, <1>3, <1>4, <1>5 DEF S

\* ... and is determined by that.
LEMMA SegmentUnique ==
    ASSUME NEW z, IsZone(z), NEW i \in Int, NEW k \in 1 .. Len(z),
           k = 1 \/ z[k].from <= i, k = Len(z) \/ i < z[k+1].from
    PROVE  Segment(z, i) = k
<1> DEFINE s == Segment(z, i)
<1>1. /\ s \in 1 .. Len(z)
      /\ s = 1 \/ z[s].from <= i
      /\ \A m \in 2 .. Len(z) : m > s => i < z[m].from
  BY SegmentIs
<1>2. Len(z) \in Nat /\ \A m \in 1 .. Len(z) : z[m].from \in Int
  BY ZoneIs
<1> HIDE DEF s
<1>3. CASE s < k
  BY <1>1, <1>2, <1>3
<1>4. CASE s > k
  <2>1. k + 1 \in 2 .. Len(z) /\ s \in 2 .. Len(z) /\ k + 1 <= s
    BY <1>1, <1>2, <1>4
  <2>2. z[k+1].from <= z[s].from
    <3>1. CASE k + 1 = s
      BY <1>1, <1>2, <3>1
    <3>2. CASE k + 1 < s
      <4>1. z[k+1].from < z[s].from
        BY <2>1, <3>2, ZoneIs
      <4> QED
        BY <1>1, <1>2, <2>1, <4>1
    <3> QED
      BY <1>1, <2>1, <3>1, <3>2
  <2>3. z[k+1].from \in Int /\ z[s].from \in Int
    BY <1>1, <1>2, <2>1
  <2>4. k # Len(z) /\ s # 1
    BY <1>1, <1>2, <1>4
  <2> QED
    BY <1>1, <2>2, <2>3, <2>4
<1>5. CASE s = k
  BY <1>5 DEF s
<1> QED
  BY <1>1, <1>2, <1>3, <1>4, <1>5

\* Offsets and readings are integers.
LEMMA LabelIs ==
    ASSUME NEW z, IsZone(z), NEW i \in Int
    PROVE  OffsetOf(z, i) \in Int /\ Label(z, i) \in Int
<1>1. Segment(z, i) \in 1 .. Len(z)
  BY SegmentIs
<1>2. z[Segment(z, i)].offset \in Int
  BY <1>1, ZoneIs
<1> QED
  BY <1>2 DEF OffsetOf, Label

\* Later instants are not in earlier segments, and two segments on, clocks read more.
LEMMA Onward ==
    ASSUME NEW z, IsZone(z), NEW i \in Int, NEW j \in Int, i <= j
    PROVE  /\ Segment(z, i) <= Segment(z, j)
           /\ Segment(z, i) + 1 < Segment(z, j) =>
                 \A a, b \in 1 .. Len(z) : j - i > z[a].offset - z[b].offset
<1> DEFINE s == Segment(z, i)
           t == Segment(z, j)
<1>1. /\ s \in 1 .. Len(z)
      /\ s = 1 \/ z[s].from <= i
      /\ \A m \in 2 .. Len(z) : m > s => i < z[m].from
  BY SegmentIs
<1>2. /\ t \in 1 .. Len(z)
      /\ t = 1 \/ z[t].from <= j
      /\ \A m \in 2 .. Len(z) : m > t => j < z[m].from
  BY SegmentIs
<1>3. Len(z) \in Nat /\ \A m \in 1 .. Len(z) : z[m].from \in Int /\ z[m].offset \in Int
  BY ZoneIs
<1> HIDE DEF s, t
<1>4. s <= t
  <2> SUFFICES ASSUME t < s PROVE FALSE
    BY <1>1, <1>2, <1>3
  <2>1. s \in 2 .. Len(z) /\ s > t
    BY <1>1, <1>2, <1>3
  <2>2. z[s].from <= i /\ z[s].from \in Int
    BY <1>1, <1>3, <2>1
  <2>3. j < z[s].from
    BY <1>2, <2>1
  <2> QED
    BY <2>2, <2>3
<1>5. ASSUME s + 1 < t, NEW a \in 1 .. Len(z), NEW b \in 1 .. Len(z)
      PROVE  j - i > z[a].offset - z[b].offset
  <2>1. s + 1 \in 2 .. Len(z) /\ t \in 2 .. Len(z) /\ s + 1 > s
    BY <1>1, <1>2, <1>3, <1>5
  <2>2. i < z[s+1].from
    BY <1>1, <2>1
  <2>3. z[t].from <= j
    BY <1>2, <2>1
  <2>4. z[t].from - z[s+1].from > z[a].offset - z[b].offset
    BY <1>5, <2>1, ZoneIs
  <2>5. z[t].from \in Int /\ z[s+1].from \in Int /\ z[a].offset \in Int /\ z[b].offset \in Int
    BY <1>1, <1>2, <1>3, <2>1
  <2> QED
    BY <2>2, <2>3, <2>4, <2>5
<1> QED
  BY <1>4, <1>5 DEF s, t

\* A clock shows as little later on only where it was set back, in the next segment.
LEMMA Clash ==
    ASSUME NEW z, IsZone(z), NEW i \in Int, NEW j \in Int, i < j, Label(z, j) <= Label(z, i)
    PROVE  Segment(z, j) = Segment(z, i) + 1
<1> DEFINE s == Segment(z, i)
           t == Segment(z, j)
<1>1. s \in 1 .. Len(z) /\ t \in 1 .. Len(z) /\ Len(z) \in Nat
  BY SegmentIs, ZoneIs
<1>2. z[s].offset \in Int /\ z[t].offset \in Int
  BY <1>1, ZoneIs
<1>3. Label(z, i) = i + z[s].offset /\ Label(z, j) = j + z[t].offset
  BY DEF Label, OffsetOf
<1>4. /\ s <= t
      /\ s + 1 < t => \A a, b \in 1 .. Len(z) : j - i > z[a].offset - z[b].offset
  BY Onward
<1> HIDE DEF s, t
<1>5. s # t
  BY <1>2, <1>3
<1>6. ~(s + 1 < t)
  <2> SUFFICES ASSUME s + 1 < t PROVE FALSE
    OBVIOUS
  <2>1. j - i > z[s].offset - z[t].offset
    BY <1>1, <1>4
  <2> QED
    BY <1>2, <1>3, <2>1
<1>7. t = s + 1
  BY <1>1, <1>4, <1>5, <1>6
<1> QED
  BY <1>7 DEF s, t

\* Occurrences holds the instants with one reading, and no others.
LEMMA OccurrencesAre ==
    ASSUME NEW z, IsZone(z), NEW l \in Int
    PROVE  /\ Occurrences(z, l) \subseteq Int
           /\ \A i \in Int : i \in Occurrences(z, l) <=> Label(z, i) = l
<1>1. DOMAIN z = 1 .. Len(z) /\ \A k \in 1 .. Len(z) : z[k].offset \in Int
  BY ZoneIs
<1>2. Occurrences(z, l) \subseteq Int
  BY <1>1 DEF Occurrences
<1>3. ASSUME NEW i \in Int, Label(z, i) = l PROVE i \in Occurrences(z, l)
  <2>1. Segment(z, i) \in 1 .. Len(z)
    BY SegmentIs
  <2>2. i = l - z[Segment(z, i)].offset
    BY <1>1, <1>3, <2>1 DEF Label, OffsetOf
  <2> QED
    BY <1>1, <1>3, <2>1, <2>2 DEF Occurrences
<1> QED
  BY <1>2, <1>3 DEF Occurrences

\* A reading that occurs stands for its first occurrence.
LEMMA InstantIs ==
    ASSUME NEW z, IsZone(z), NEW i \in Int
    PROVE  /\ Instant(z, Label(z, i)) \in Int
           /\ Label(z, Instant(z, Label(z, i))) = Label(z, i)
           /\ \A j \in Int : Label(z, j) = Label(z, i) => Instant(z, Label(z, i)) <= j
<1> DEFINE l == Label(z, i)
           S == Occurrences(z, l)
<1>1. l \in Int
  BY LabelIs
<1>2. S \subseteq Int /\ \A x \in Int : x \in S <=> Label(z, x) = l
  BY <1>1, OccurrencesAre
<1>3. i \in S
  BY <1>2
<1>4. \E b \in Int : \A x \in S : b <= x
  <2>1. CASE \E j \in S : j < i
    <3>1. PICK j \in S : j < i
      BY <2>1
    <3>2. j \in Int /\ Label(z, j) = l
      BY <1>2
    <3>3. Segment(z, i) = Segment(z, j) + 1
      BY <1>1, <3>1, <3>2, Clash
    <3>4. ASSUME NEW x \in S, x < j PROVE FALSE
      <4>1. x \in Int /\ Label(z, x) = l /\ x < i
        BY <1>2, <3>1, <3>2, <3>4
      <4>2. Segment(z, j) = Segment(z, x) + 1 /\ Segment(z, i) = Segment(z, x) + 1
        BY <1>1, <3>2, <3>4, <4>1, Clash
      <4>3. Segment(z, x) \in Int
        BY <4>1, SegmentIs
      <4> QED
        BY <3>3, <4>2, <4>3
    <3> QED
      BY <1>2, <3>2, <3>4
  <2>2. CASE \A j \in S : ~(j < i)
    BY <1>2, <2>2
  <2> QED
    BY <2>1, <2>2
<1>5. Least(S) \in S /\ \A y \in S : Least(S) <= y
  <2> HIDE DEF S
  <2> QED
    BY <1>2, <1>3, <1>4, LeastIs
<1>6. Instant(z, l) = Least(S)
  BY <1>3 DEF Instant
<1> HIDE DEF S
<1> QED
  BY <1>2, <1>5, <1>6

\* The reading at i occurs for the second time ...
Second(z, i) == Instant(z, Label(z, i)) # i

\* ... just after a backward change, for as long as the clock was set back.
LEMMA SecondIs ==
    ASSUME NEW z, IsZone(z), NEW i \in Int
    PROVE  Second(z, i) <=> /\ Segment(z, i) # 1
                            /\ i < z[Segment(z, i)].from
                                   + (z[Segment(z, i)-1].offset - z[Segment(z, i)].offset)
<1> DEFINE s == Segment(z, i)
           r == Instant(z, Label(z, i))
<1>1. /\ s \in 1 .. Len(z)
      /\ s = 1 \/ z[s].from <= i
  BY SegmentIs
<1>2. Len(z) \in Nat /\ \A m \in 1 .. Len(z) : z[m].from \in Int /\ z[m].offset \in Int
  BY ZoneIs
<1>3. r \in Int /\ Label(z, r) = Label(z, i) /\ \A j \in Int : Label(z, j) = Label(z, i) => r <= j
  BY InstantIs
<1>4. Label(z, i) = i + z[s].offset /\ Label(z, i) \in Int
  BY LabelIs DEF Label, OffsetOf
<1>5. ASSUME Second(z, i) PROVE s # 1 /\ i < z[s].from + (z[s-1].offset - z[s].offset)
  <2>1. r < i
    BY <1>3, <1>5 DEF Second
  <2>2. s = Segment(z, r) + 1 /\ Segment(z, r) \in 1 .. Len(z)
    <3>1. r \in Int /\ Label(z, i) <= Label(z, r)
      BY <1>3, <1>4
    <3> HIDE DEF r
    <3> QED
      BY <2>1, <3>1, Clash, SegmentIs
  <2>3. Label(z, r) = r + z[Segment(z, r)].offset
    BY DEF Label, OffsetOf
  <2>4. s \in 2 .. Len(z) /\ s > Segment(z, r) /\ Segment(z, r) = s - 1 /\ s - 1 \in 1 .. Len(z)
    BY <1>1, <1>2, <2>2
  <2>5. r < z[s].from
    BY <1>3, <2>4, SegmentIs
  <2>6. z[s].from \in Int /\ z[s].offset \in Int /\ z[s-1].offset \in Int
    BY <1>1, <1>2, <2>4
  <2> HIDE DEF s, r
  <2>7. r + z[s-1].offset = i + z[s].offset
    BY <1>3, <1>4, <2>3, <2>4
  <2> QED
    BY <1>3, <2>4, <2>5, <2>6, <2>7
<1>6. ASSUME s # 1, i < z[s].from + (z[s-1].offset - z[s].offset) PROVE Second(z, i)
  <2> DEFINE d == z[s-1].offset - z[s].offset
             p == i - d
  <2> HIDE DEF s, r
  <2>1. s \in 2 .. Len(z) /\ s - 1 \in 1 .. Len(z) /\ s - 1 # Len(z) /\ (s - 1) + 1 = s
    BY <1>1, <1>2, <1>6
  <2>2. z[s].from \in Int /\ z[s-1].from \in Int /\ z[s].offset \in Int /\ z[s-1].offset \in Int
    BY <1>1, <1>2, <2>1
  <2>3. z[s].from <= i /\ d \in Int /\ d > 0 /\ p \in Int /\ p < i /\ p < z[s].from
    <3>1. z[s].from <= i
      BY <1>1, <1>6
    <3> QED
      BY <1>6, <2>2, <3>1
  <2>4. s - 1 = 1 \/ z[s-1].from <= p
    <3> SUFFICES ASSUME s - 1 # 1 PROVE z[s-1].from <= p
      OBVIOUS
    <3>1. s - 1 \in 2 .. Len(z) /\ s - 1 < s
      BY <2>1
    <3>2. z[s].from - z[s-1].from > z[s-1].offset - z[s].offset
      BY <1>1, <2>1, <3>1, ZoneIs
    <3> QED
      BY <2>2, <2>3, <3>2
  <2>5. Segment(z, p) = s - 1
    BY <2>1, <2>3, <2>4, SegmentUnique
  <2>6. Label(z, p) = i + z[s].offset
    BY <2>2, <2>3, <2>5 DEF Label, OffsetOf
  <2>7. r <= p
    BY <1>3, <1>4, <2>3, <2>6
  <2> QED
    BY <1>3, <2>3, <2>7 DEF Second, r
<1> QED
  BY <1>5, <1>6 DEF s

-----------------------------------------------------------------------------
(* A step of the walk.                                                     *)

\* From one minute to the next the zone changes at most once, and then right there.
LEMMA MinuteOn ==
    ASSUME NEW z, IsZone(z), NEW i \in Int
    PROVE  \/ Segment(z, i + 1) = Segment(z, i)
           \/ /\ Segment(z, i + 1) = Segment(z, i) + 1
              /\ z[Segment(z, i + 1)].from = i + 1
<1> DEFINE s == Segment(z, i)
           t == Segment(z, i + 1)
<1>1. /\ s \in 1 .. Len(z)
      /\ \A m \in 2 .. Len(z) : m > s => i < z[m].from
  BY SegmentIs
<1>2. i + 1 \in Int
  OBVIOUS
<1>3. /\ t \in 1 .. Len(z)
      /\ t = 1 \/ z[t].from <= i + 1
  BY <1>2, SegmentIs
<1>4. Len(z) \in Nat /\ \A m \in 1 .. Len(z) : z[m].from \in Int
  BY ZoneIs
<1>5. s <= t
  BY <1>2, Onward
<1> HIDE DEF s, t
<1>6. CASE t > s
  <2>1. t \in 2 .. Len(z) /\ s + 1 \in 2 .. Len(z)
    BY <1>1, <1>3, <1>4, <1>6
  <2>2. i < z[t].from /\ z[t].from <= i + 1 /\ i < z[s+1].from
    BY <1>1, <1>3, <1>6, <2>1
  <2>3. z[t].from \in Int /\ z[s+1].from \in Int
    BY <1>1, <1>3, <1>4, <2>1
  <2>4. ~(s + 1 < t)
    <3> SUFFICES ASSUME s + 1 < t PROVE FALSE
      OBVIOUS
    <3>1. z[s+1].from < z[t].from
      BY <2>1, ZoneIs
    <3> QED
      BY <2>2, <2>3, <3>1
  <2>5. t = s + 1 /\ z[t].from = i + 1
    BY <1>1, <1>3, <1>6, <2>2, <2>3, <2>4
  <2> QED
    BY <2>5 DEF s, t
<1>7. CASE t = s
  BY <1>7 DEF s, t
<1> QED
  BY <1>1, <1>3, <1>5, <1>6, <1>7

\* Where the clock is set back, the readings of the next d minutes are repeated, ...
LEMMA SetBack ==
    ASSUME NEW z, IsZone(z), NEW i \in Int, OffsetOf(z, i + 1) < OffsetOf(z, i),
           NEW k \in Int, i < k, k <= i + 1 + (OffsetOf(z, i) - OffsetOf(z, i + 1))
    PROVE  /\ OffsetOf(z, k) = OffsetOf(z, i + 1)
           /\ Second(z, k) <=> k < i + 1 + (OffsetOf(z, i) - OffsetOf(z, i + 1))
<1> DEFINE s == Segment(z, i)
           t == Segment(z, i + 1)
           d == OffsetOf(z, i) - OffsetOf(z, i + 1)
<1>1. s \in 1 .. Len(z) /\ t \in 1 .. Len(z) /\ Len(z) \in Nat
  BY SegmentIs, ZoneIs
<1>2. OffsetOf(z, i) = z[s].offset /\ OffsetOf(z, i + 1) = z[t].offset
  BY DEF OffsetOf
<1>3. OffsetOf(z, i) \in Int /\ OffsetOf(z, i + 1) \in Int /\ d \in Nat \ {0}
  BY LabelIs
<1>4. t = s + 1 /\ z[t].from = i + 1
  <2>1. s # t
    BY <1>2, <1>3
  <2> QED
    BY <2>1, MinuteOn
<1> HIDE DEF s, t
<1>5. t # Len(z) => k < z[t+1].from
  <2> SUFFICES ASSUME t # Len(z) PROVE k < z[t+1].from
    OBVIOUS
  <2>1. t + 1 \in 2 .. Len(z) /\ t \in 2 .. Len(z) /\ t < t + 1
    BY <1>1, <1>4
  <2>2. z[t+1].from - z[t].from > z[s].offset - z[t].offset
    BY <1>1, <2>1, ZoneIs
  <2>3. z[t+1].from \in Int
    BY <2>1, ZoneIs
  <2> QED
    BY <1>2, <1>3, <1>4, <2>2, <2>3
<1>6. Segment(z, k) = t
  <2>1. z[t].from <= k
    BY <1>4
  <2> QED
    BY <1>1, <1>5, <2>1, SegmentUnique
<1>7. OffsetOf(z, k) = z[t].offset
  BY <1>6 DEF OffsetOf
<1>8. Second(z, k) <=> t # 1 /\ k < z[t].from + (z[t-1].offset - z[t].offset)
  BY <1>6, SecondIs
<1>9. t - 1 = s /\ t # 1
  BY <1>1, <1>4
<1> QED
  BY <1>2, <1>4, <1>7, <1>8, <1>9

\* ... and where it is set forward, a reading it skips stands for the change.
LEMMA SetForward ==
    ASSUME NEW z, IsZone(z), NEW i \in Int, OffsetOf(z, i + 1) > OffsetOf(z, i)
    PROVE  Instant(z, Label(z, i) + 1) = i + 1 /\ ~Second(z, i + 1)
<1> DEFINE s == Segment(z, i)
           t == Segment(z, i + 1)
           c == i + 1
           l == Label(z, i) + 1
<1>1. s \in 1 .. Len(z) /\ t \in 1 .. Len(z) /\ Len(z) \in Nat /\ DOMAIN z = 1 .. Len(z)
  BY SegmentIs, ZoneIs
<1>2. OffsetOf(z, i) = z[s].offset /\ OffsetOf(z, c) = z[t].offset
  BY DEF OffsetOf
<1>3. z[t].from \in Int /\ z[s].offset \in Int /\ z[t].offset \in Int /\ z[t].offset > z[s].offset
  BY <1>1, <1>2, LabelIs, ZoneIs
<1>4. c \in Int /\ l \in Int /\ l = c + z[s].offset
  BY <1>2, <1>3 DEF Label
<1>5. t = s + 1 /\ z[t].from = c
  BY <1>2, <1>3, MinuteOn
<1>6. t \in 2 .. Len(z) /\ t - 1 = s
  BY <1>1, <1>5
<1>7. ~Second(z, c)
  <2> HIDE DEF s
  <2>1. Second(z, c) <=> t # 1 /\ c < z[t].from + (z[t-1].offset - z[t].offset)
    BY SecondIs
  <2> HIDE DEF c, t
  <2> QED
    BY <1>3, <1>4, <1>5, <1>6, <2>1
<1>8. ASSUME NEW x \in Int, Label(z, x) = l PROVE FALSE
  <2> DEFINE m == Segment(z, x)
  <2>0. PICK a \in Int : a = z[s].offset
    BY <1>3
  <2>1. m \in 1 .. Len(z)
    BY SegmentIs
  <2>2. PICK b \in Int : b = z[m].offset
    BY <2>1, ZoneIs
  <2>3. x + b = c + a
    BY <1>4, <1>8, <2>0, <2>2 DEF Label, OffsetOf
  <2>4. CASE x < i
    <3>1. Label(z, i) <= Label(z, x)
      BY <1>8, LabelIs
    <3>2. s = m + 1
      BY <2>4, <3>1, Clash
    <3>3. s \in 2 .. Len(z) /\ s > m
      BY <1>1, <2>1, <3>2
    <3>4. PICK f \in Int : f = z[s].from
      BY <1>1, ZoneIs
    <3>5. x < f
      BY <3>3, <3>4, SegmentIs
    <3>6. s < t
      BY <1>1, <1>5
    <3> HIDE DEF s, t, m, c, l
    <3>7. z[t].from - z[s].from > z[m].offset - z[s].offset
      BY <1>1, <1>6, <2>1, <3>3, <3>6, ZoneIs
    <3>8. c - f > b - a
      BY <1>5, <2>0, <2>2, <3>4, <3>7
    <3> QED
      BY <1>4, <2>3, <3>5, <3>8
  <2>5. CASE x = i
    BY <1>8, <2>5, LabelIs
  <2>6. CASE x >= c
    <3>1. t <= m
      BY <1>4, <2>6, Onward
    <3>2. CASE m = t
      <4>1. PICK e \in Int : e = z[t].offset
        BY <1>3
      <4>2. b = e /\ e > a
        BY <1>3, <2>0, <2>2, <3>2, <4>1
      <4> HIDE DEF c
      <4> QED
        BY <1>4, <2>3, <2>6, <4>2
    <3>3. CASE m > t
      <4>1. m \in 2 .. Len(z)
        BY <1>1, <1>6, <2>1, <3>3
      <4>2. PICK f \in Int : f = z[m].from
        BY <2>1, ZoneIs
      <4>3. f <= x
        BY <4>1, <4>2, SegmentIs
      <4>4. z[m].from - z[t].from > z[s].offset - z[m].offset
        BY <1>1, <1>6, <2>1, <3>3, <4>1, ZoneIs
      <4> HIDE DEF s, t, m, c, l
      <4>5. f - c > a - b
        BY <1>5, <2>0, <2>2, <4>2, <4>4
      <4> QED
        BY <1>4, <2>3, <4>3, <4>5
    <3> QED
      BY <1>1, <2>1, <3>1, <3>2, <3>3
  <2> QED
    BY <2>4, <2>5, <2>6
<1>9. Occurrences(z, l) = {}
  BY <1>4, <1>8, OccurrencesAre
<1> DEFINE J == {k \in DOMAIN z \ {1} : /\ z[k].from + z[k-1].offset <= l
                                        /\ l < z[k].from + z[k].offset}
<1>10. t \in J
  <2> HIDE DEF s, t, c, l
  <2> QED
    BY <1>1, <1>3, <1>4, <1>5, <1>6
<1>11. ASSUME NEW k \in J PROVE k = t
  <2>1. /\ k \in 2 .. Len(z) /\ k - 1 \in 1 .. Len(z) /\ k \in 1 .. Len(z)
        /\ z[k].from + z[k-1].offset <= l /\ l < z[k].from + z[k].offset
    <3> HIDE DEF s, t, c, l
    <3> QED
      BY <1>1
  <2>2. PICK a \in Int : a = z[s].offset
    BY <1>3
  <2>3. PICK f \in Int : f = z[k].from
    BY <2>1, ZoneIs
  <2>4. PICK o \in Int : o = z[k].offset
    BY <2>1, ZoneIs
  <2>5. PICK p \in Int : p = z[k-1].offset
    BY <2>1, ZoneIs
  <2> HIDE DEF s, t, c, l, J
  <2>6. f + p <= c + a /\ c + a < f + o
    BY <1>4, <2>1, <2>2, <2>3, <2>4, <2>5
  <2>7. CASE k > t
    <3>1. z[k].from - z[t].from > z[s].offset - z[k-1].offset
      BY <1>1, <1>6, <2>1, <2>7, ZoneIs
    <3>2. f - c > a - p
      BY <1>5, <2>2, <2>3, <2>5, <3>1
    <3> QED
      BY <1>4, <2>6, <3>2
  <2>8. CASE k < t
    <3>1. z[t].from - z[k].from > z[k].offset - z[s].offset
      BY <1>1, <1>6, <2>1, <2>8, ZoneIs
    <3>2. c - f > o - a
      BY <1>5, <2>2, <2>3, <2>4, <3>1
    <3> QED
      BY <1>4, <2>6, <3>2
  <2> QED
    BY <1>6, <2>1, <2>7, <2>8
<1>12. Instant(z, l) = l - z[t-1].offset
  <2> DEFINE jump == CHOOSE k \in DOMAIN z \ {1} :
                        z[k].from + z[k-1].offset <= l /\ l < z[k].from + z[k].offset
  <2>1. Instant(z, l) = l - z[jump-1].offset
    BY <1>9 DEF Instant
  <2>2. jump \in J
    <3> HIDE DEF s, t, c, l
    <3> QED
      BY <1>10
  <2>3. jump = t
    <3> HIDE DEF J, jump, t
    <3> QED
      BY <1>11, <2>2
  <2> HIDE DEF jump, t
  <2> QED
    BY <2>1, <2>3
<1> QED
  <2> HIDE DEF s, t
  <2>1. Instant(z, l) = c
    <3> HIDE DEF c, l
    <3> QED
      BY <1>3, <1>4, <1>6, <1>12
  <2> QED
    BY <1>7, <2>1

\* From a reading that is not repeated the walk goes to the next such reading: to
\* the next minute, or past the readings that a clock set back repeats.
LEMMA StepIs ==
    ASSUME NEW z, IsZone(z), NEW i \in Int, ~Second(z, i)
    PROVE  /\ SetMinutes(z, i) \in Int /\ SetMinutes(z, i) > i
           /\ ~Second(z, SetMinutes(z, i))
           /\ \A k \in i + 1 .. SetMinutes(z, i) - 1 : Second(z, k)
           /\ \A k \in i + 1 .. SetMinutes(z, i) : OffsetOf(z, k) = OffsetOf(z, i + 1)
           /\ OffsetOf(z, i + 1) >= OffsetOf(z, i) => SetMinutes(z, i) = i + 1
<1> DEFINE j == SetMinutes(z, i)
           s == Segment(z, i)
           t == Segment(z, i + 1)
<1>1. PICK o \in Int : o = OffsetOf(z, i)
  BY LabelIs
<1>2. PICK p \in Int : p = OffsetOf(z, i + 1)
  BY LabelIs
<1>3. Label(z, i) = i + o /\ Label(z, i + 1) = i + 1 + p
  BY <1>1, <1>2 DEF Label
<1>4. j = Instant(z, Label(z, i) + 1)
  BY DEF SetMinutes
<1>5. CASE p = o
  <2>1. Label(z, i + 1) = Label(z, i) + 1
    BY <1>3, <1>5
  <2>2. ~Second(z, i + 1)
    <3>1. /\ Second(z, i) <=> s # 1 /\ i < z[s].from + (z[s-1].offset - z[s].offset)
          /\ Second(z, i + 1) <=> t # 1 /\ i + 1 < z[t].from + (z[t-1].offset - z[t].offset)
      BY SecondIs
    <3>2. s \in 1 .. Len(z) /\ t \in 1 .. Len(z) /\ Len(z) \in Nat
      BY SegmentIs, ZoneIs
    <3>3. o = z[s].offset /\ p = z[t].offset
      BY <1>1, <1>2 DEF OffsetOf
    <3>4. t = s \/ (t = s + 1 /\ z[t].from = i + 1)
      BY MinuteOn
    <3> HIDE DEF s, t
    <3>5. CASE t = s
      <4> SUFFICES ASSUME s # 1, i + 1 < z[s].from + (z[s-1].offset - z[s].offset) PROVE FALSE
        BY <3>1, <3>5
      <4>1. PICK f \in Int : f = z[s].from
        BY <3>2, ZoneIs
      <4>2. PICK q \in Int : q = z[s-1].offset
        <5>1. s - 1 \in 1 .. Len(z)
          BY <3>2
        <5> QED
          BY <5>1, ZoneIs
      <4>3. i + 1 < f + (q - o)
        BY <3>3, <4>1, <4>2
      <4>4. i < f + (q - o)
        BY <4>3
      <4> QED
        BY <3>1, <3>3, <4>1, <4>2, <4>4
    <3>6. CASE t = s + 1 /\ z[t].from = i + 1
      <4>1. t - 1 = s
        BY <3>2, <3>6
      <4> QED
        BY <1>5, <3>1, <3>3, <3>6, <4>1
    <3> QED
      BY <3>4, <3>5, <3>6
  <2>3. j = i + 1
    BY <1>4, <2>1, <2>2 DEF Second
  <2> HIDE DEF j
  <2> QED
    BY <1>1, <1>2, <1>5, <2>2, <2>3 DEF j
<1>6. CASE p < o
  <2> DEFINE q == i + 1 + (o - p)
  <2>1. \A k \in Int : i < k /\ k <= q => OffsetOf(z, k) = p /\ (Second(z, k) <=> k < q)
    BY <1>1, <1>2, <1>6, SetBack
  <2>2. q \in Int /\ q > i + 1
    BY <1>6
  <2>3. OffsetOf(z, q) = p /\ ~Second(z, q)
    BY <2>1, <2>2
  <2>4. Label(z, q) = Label(z, i) + 1
    BY <1>3, <2>3 DEF Label
  <2>5. j = q
    BY <1>4, <2>3, <2>4 DEF Second
  <2> HIDE DEF j, q
  <2>6. \A k \in i + 1 .. q - 1 : Second(z, k)
    BY <2>1, <2>2
  <2>7. \A k \in i + 1 .. q : OffsetOf(z, k) = OffsetOf(z, i + 1)
    BY <1>2, <2>1, <2>2
  <2> QED
    BY <1>1, <1>2, <1>6, <2>2, <2>3, <2>5, <2>6, <2>7 DEF j
<1>7. CASE p > o
  <2>1. j = i + 1 /\ ~Second(z, i + 1)
    BY <1>1, <1>2, <1>4, <1>7, SetForward
  <2> HIDE DEF j
  <2> QED
    BY <1>1, <1>2, <2>1 DEF j
<1> QED
  BY <1>5, <1>6, <1>7

-----------------------------------------------------------------------------
(* The grammar: what parseCron makes of an expression is what it asks for. *)

\* A remainder is zero for the multiples, and for them alone.
LEMMA Remainder ==
    ASSUME NEW k \in Nat \ {0}, NEW x \in Nat
    PROVE  x % k = 0 <=> \E n \in 0 .. x : x = n * k
<1>1. PICK q \in Int : q = x \div k
  OBVIOUS
<1>2. PICK r \in Int : r = x % k
  OBVIOUS
<1>3. k \in Int /\ k > 0 /\ x >= 0
  OBVIOUS
<1>4. x = k * q + r
  BY <1>1, <1>2, <1>3
<1>5. 0 <= r /\ r < k /\ 0 <= q
  BY <1>1, <1>2, <1>3
<1>6. ASSUME r = 0 PROVE \E n \in 0 .. x : x = n * k
  <2>1. x = q * k
    BY <1>3, <1>4, <1>6
  <2>2. q <= q * k
    BY <1>3, <1>5
  <2>3. q \in 0 .. x
    BY <1>5, <2>1, <2>2
  <2> QED
    BY <2>1, <2>3
<1>7. ASSUME NEW n \in 0 .. x, x = n * k PROVE r = 0
  <2>1. n \in Int /\ n * k = k * q + r
    BY <1>4, <1>7
  <2> QED
    BY <1>3, <1>5, <2>1
<1> QED
  BY <1>2, <1>6, <1>7

\* The parts of a reading are numbers in the range of their field.
LEMMA CalendarIs ==
    ASSUME NEW l \in Int
    PROVE  /\ MinuteOf(l) \in 0 .. MinutesPerHour - 1
           /\ HourOf(l) \in 0 .. HoursPerDay - 1
           /\ DayOfMonth(l) \in 1 .. DaysPerMonth
           /\ MonthOf(l) \in 1 .. MonthsPerYear
           /\ DayOfWeek(l) \in 0 .. DaysPerWeek - 1
           /\ {MinutesPerHour, HoursPerDay, DaysPerWeek, DaysPerMonth, MonthsPerYear} \subseteq Nat
<1>1. /\ MinutesPerHour \in Nat \ {0} /\ HoursPerDay \in Nat \ {0} /\ DaysPerWeek \in Nat \ {0}
      /\ DaysPerMonth \in Nat \ {0} /\ MonthsPerYear \in Nat \ {0}
  BY CalendarAssumption
<1>2. MinutesPerDay \in Nat \ {0}
  BY <1>1 DEF MinutesPerDay
<1>3. MinutesPerDay * DaysPerMonth \in Nat \ {0}
  BY <1>1, <1>2
<1>4. MinuteOf(l) \in 0 .. MinutesPerHour - 1
  BY <1>1 DEF MinuteOf
<1>5. ASSUME NEW m \in Nat \ {0}, NEW k \in Nat \ {0} PROVE (l \div m) % k \in 0 .. k - 1
  <2>1. l \div m \in Int
    OBVIOUS
  <2> QED
    BY <2>1
<1>6. HourOf(l) \in 0 .. HoursPerDay - 1
  BY <1>1, <1>5 DEF HourOf
<1>7. (l \div MinutesPerDay) % DaysPerMonth \in 0 .. DaysPerMonth - 1
  BY <1>1, <1>2, <1>5
<1>8. (l \div (MinutesPerDay * DaysPerMonth)) % MonthsPerYear \in 0 .. MonthsPerYear - 1
  BY <1>1, <1>3, <1>5
<1>9. DayOfWeek(l) \in 0 .. DaysPerWeek - 1
  BY <1>1, <1>2, <1>5 DEF DayOfWeek
<1> QED
  BY <1>1, <1>4, <1>6, <1>7, <1>8, <1>9 DEF DayOfMonth, MonthOf

\* A token: the numbers parseField collects are those it means, ...
LEMMA TokenIs ==
    ASSUME NEW t \in Token, NEW min \in Nat, NEW max \in Nat, NEW v \in min .. max,
           Parses({t}, min, max)
    PROVE  v \in Lo(t, min) .. Hi(t, max) /\ (v - Lo(t, min)) % Step(t) = 0 <=> Means(t, min, max, v)
<1> DEFINE lo == Lo(t, min)
           hi == Hi(t, max)
           k == Step(t)
<1>1. /\ t.first \in Nat \cup {Star} /\ t.last \in Nat \cup {None} /\ t.step \in Nat \cup {None}
      /\ Star \notin Int /\ None \notin Int
  BY CalendarAssumption DEF Token
<1>2. k \in Nat \ {0} /\ lo \in Nat /\ min <= lo
  <2>1. k > 0 /\ min <= lo
    BY DEF Parses
  <2>2. k \in Nat
    BY <1>1 DEF Step
  <2>3. lo \in Nat
    BY <1>1 DEF Lo
  <2> QED
    BY <2>1, <2>2, <2>3
<1>3. hi \in Nat /\ hi <= max
  <2>1. hi <= max
    BY DEF Parses
  <2>2. hi \in Nat
    BY <1>1 DEF Hi
  <2> QED
    BY <2>1, <2>2
<1>4. Means(t, min, max, v) <=>
        \E n \in 0 .. max : /\ v = lo + n * k
                            /\ t.first # Star /\ t.last # None => v <= t.last
                            /\ t.first # Star /\ t.last = None /\ t.step = None => v = t.first
  BY DEF Means, Lo, Step
<1>5. /\ t.first # Star /\ t.last # None => hi = t.last
      /\ t.first # Star /\ t.last = None /\ t.step = None => hi = t.first /\ lo = t.first
      /\ t.first = Star \/ (t.last = None /\ t.step # None) => hi = max
  BY DEF Hi, Lo
<1> HIDE DEF lo, hi, k
<1>6. ASSUME v \in lo .. hi, (v - lo) % k = 0 PROVE Means(t, min, max, v)
  <2>1. v - lo \in Nat
    BY <1>2, <1>6
  <2>2. PICK n \in 0 .. (v - lo) : v - lo = n * k
    BY <1>2, <1>6, <2>1, Remainder
  <2>3. n \in 0 .. max
    BY <1>2, <2>1
  <2>4. v = lo + n * k
    <3>1. PICK p \in Int : p = n * k
      BY <1>2
    <3> QED
      BY <1>2, <2>2, <3>1
  <2>5. /\ t.first # Star /\ t.last # None => v <= t.last
        /\ t.first # Star /\ t.last = None /\ t.step = None => v = t.first
    <3>1. v <= hi /\ lo <= v
      BY <1>2, <1>3, <1>6
    <3>2. hi = t.first /\ lo = t.first => v = t.first
      BY <1>2, <1>3, <3>1
    <3> QED
      BY <1>5, <3>1, <3>2
  <2> QED
    BY <1>4, <2>3, <2>4, <2>5
<1>7. ASSUME Means(t, min, max, v) PROVE v \in lo .. hi /\ (v - lo) % k = 0
  <2>1. PICK n \in 0 .. max : /\ v = lo + n * k
                              /\ t.first # Star /\ t.last # None => v <= t.last
                              /\ t.first # Star /\ t.last = None /\ t.step = None => v = t.first
    BY <1>4, <1>7
  <2>2. PICK p \in Int : p = n * k
    BY <1>2
  <2>3. p >= 0 /\ n <= p
    BY <1>2, <2>2
  <2>4. v - lo = p /\ v - lo \in Nat /\ v - lo = n * k /\ n \in 0 .. (v - lo)
    BY <1>2, <2>1, <2>2, <2>3
  <2>5. (v - lo) % k = 0
    BY <1>2, <2>4, Remainder
  <2>6. v <= hi
    <3>1. CASE t.first = Star \/ (t.last = None /\ t.step # None)
      BY <1>3, <1>5, <3>1
    <3>2. CASE t.first # Star /\ t.last # None
      BY <1>5, <2>1, <3>2
    <3>3. CASE t.first # Star /\ t.last = None /\ t.step = None
      <4>1. v = hi
        BY <1>5, <2>1, <3>3
      <4> QED
        BY <1>3, <4>1
    <3> QED
      BY <3>1, <3>2, <3>3
  <2> QED
    BY <1>2, <1>3, <2>4, <2>5, <2>6
<1> QED
  BY <1>6, <1>7 DEF lo, hi, k

\* ... so a field's are those it asks for, ...
LEMMA FieldIs ==
    ASSUME NEW field \in SUBSET Token, NEW min \in Nat, NEW max \in Nat, NEW v \in min .. max,
           Parses(field, min, max)
    PROVE  v \in ParseField(field, min, max) <=> Asks(field, min, max, v)
<1>1. ASSUME NEW t \in field
      PROVE  v \in Lo(t, min) .. Hi(t, max) /\ (v - Lo(t, min)) % Step(t) = 0 <=> Means(t, min, max, v)
  <2>1. Parses({t}, min, max)
    BY DEF Parses
  <2> QED
    BY <2>1, TokenIs
<1>2. v \in ParseField(field, min, max) <=>
        \E t \in field : v \in Lo(t, min) .. Hi(t, max) /\ (v - Lo(t, min)) % Step(t) = 0
  BY DEF ParseField
<1> QED
  BY <1>1, <1>2 DEF Asks

\* ... and parseField takes a field for restricted just when it is not plain.
LEMMA PlainIs ==
    ASSUME NEW field \in SUBSET Token
    PROVE  Plain(field) <=> ~Restricted(field)
<1>1. ASSUME NEW t \in field PROVE Step(t) = 1 <=> t.step = None \/ t.step = 1
  BY CalendarAssumption DEF Step
<1> QED
  BY <1>1 DEF Plain, Restricted

\* What the program reads in an expression it accepts is what its grammar says.
THEOREM ParsesWhatIsAsked ==
    ASSUME cron \in Expression, Accepts(cron), NEW l \in Int
    PROVE  Matches(Fields, l) <=> AskedFor(l)
<1>1. /\ cron.minute \in SUBSET Token /\ cron.hour \in SUBSET Token /\ cron.dom \in SUBSET Token
      /\ cron.month \in SUBSET Token /\ cron.dow \in SUBSET Token
  BY DEF Expression
<1>2. /\ MinuteOf(l) \in 0 .. MinutesPerHour - 1
      /\ HourOf(l) \in 0 .. HoursPerDay - 1
      /\ DayOfMonth(l) \in 1 .. DaysPerMonth
      /\ MonthOf(l) \in 1 .. MonthsPerYear
      /\ DayOfWeek(l) \in 0 .. DaysPerWeek - 1
      /\ MinutesPerHour - 1 \in Nat /\ HoursPerDay - 1 \in Nat
      /\ DaysPerWeek \in Nat \ {0} /\ DaysPerMonth \in Nat /\ MonthsPerYear \in Nat
  BY CalendarIs, CalendarAssumption
<1>3. /\ Parses(cron.minute, 0, MinutesPerHour - 1) /\ Parses(cron.hour, 0, HoursPerDay - 1)
      /\ Parses(cron.dom, 1, DaysPerMonth) /\ Parses(cron.month, 1, MonthsPerYear)
      /\ Parses(cron.dow, 0, DaysPerWeek)
  BY DEF Accepts
<1>4. MinuteOf(l) \in Fields.minutes <=> Asks(cron.minute, 0, MinutesPerHour - 1, MinuteOf(l))
  BY <1>1, <1>2, <1>3, FieldIs DEF Fields, ParseCron
<1>5. HourOf(l) \in Fields.hours <=> Asks(cron.hour, 0, HoursPerDay - 1, HourOf(l))
  BY <1>1, <1>2, <1>3, FieldIs DEF Fields, ParseCron
<1>6. MonthOf(l) \in Fields.months <=> Asks(cron.month, 1, MonthsPerYear, MonthOf(l))
  BY <1>1, <1>2, <1>3, FieldIs DEF Fields, ParseCron
<1>7. DayOfMonth(l) \in Fields.daysOfMonth <=> Asks(cron.dom, 1, DaysPerMonth, DayOfMonth(l))
  BY <1>1, <1>2, <1>3, FieldIs DEF Fields, ParseCron
<1>8. DayOfWeek(l) \in Fields.daysOfWeek <=>
        \/ Asks(cron.dow, 0, DaysPerWeek, DayOfWeek(l))
        \/ DayOfWeek(l) = 0 /\ Asks(cron.dow, 0, DaysPerWeek, DaysPerWeek)
  <2> DEFINE P == ParseField(cron.dow, 0, DaysPerWeek)
             d == DayOfWeek(l)
             W == DaysPerWeek
  <2>1. Fields.daysOfWeek = {x % W : x \in P}
    BY DEF Fields, ParseCron
  <2>2. ASSUME NEW x \in P PROVE x \in 0 .. W
    <3>1. PICK t \in cron.dow : x \in Lo(t, 0) .. Hi(t, W)
      BY DEF ParseField
    <3>2. t.first \in Nat \cup {Star} /\ t.last \in Nat \cup {None}
      BY <1>1 DEF Token
    <3>3. Lo(t, 0) \in Nat /\ Hi(t, W) \in Nat /\ Hi(t, W) <= W
      BY <1>2, <1>3, <3>2 DEF Lo, Hi, Parses
    <3> QED
      BY <1>2, <3>1, <3>3
  <2>3. d \in 0 .. W /\ W \in 0 .. W
    BY <1>2
  <2>4. (d \in P <=> Asks(cron.dow, 0, W, d)) /\ (W \in P <=> Asks(cron.dow, 0, W, W))
    BY <1>1, <1>2, <1>3, <2>3, FieldIs
  <2> HIDE DEF P, d
  <2>5. ASSUME NEW x \in 0 .. W PROVE x % W = IF x = W THEN 0 ELSE x
    BY <1>2
  <2>6. d \in {x % W : x \in P} <=> d \in P \/ (d = 0 /\ W \in P)
    <3>1. d \in 0 .. W - 1
      BY <1>2 DEF d
    <3>2. \A x \in P : x % W = IF x = W THEN 0 ELSE x
      BY <2>2, <2>5
    <3> QED
      BY <1>2, <3>1, <3>2
  <2> QED
    BY <2>1, <2>4, <2>6 DEF d
<1>9. Fields.bothDaysRestricted <=> ~(Plain(cron.dom) \/ Plain(cron.dow))
  BY <1>1, PlainIs DEF Fields, ParseCron
<1> QED
  BY <1>4, <1>5, <1>6, <1>7, <1>8, <1>9 DEF Matches, AskedFor

-----------------------------------------------------------------------------
(* What is owed, and where the walk finds it.                              *)

\* The agent lives in a zone and its expression is one parseCron accepts.
Living == zone \in AgentZones /\ cron \in Expressions /\ Accepts(cron)

\* What the agent runs matches the readings asked for.
LEMMA LivingIs ==
    ASSUME Living
    PROVE  /\ IsZone(zone) /\ zone \in Candidates
           /\ \A l \in Int : Matches(Fields, l) <=> AskedFor(l)
           /\ \A i : Repeated(i) <=> Second(zone, i)
<1>1. IsZone(zone) /\ zone \in Candidates
  BY HistoryAssumption, ZonesAssumption DEF Living
<1>2. cron \in Expression /\ Accepts(cron)
  BY HistoryAssumption DEF Living
<1>3. \A l \in Int : Matches(Fields, l) <=> AskedFor(l)
  BY <1>2, ParsesWhatIsAsked
<1> QED
  BY <1>1, <1>3 DEF Repeated, Second

\* Where the clock does not jump, a minute is owed for its own reading, the first time; ...
LEMMA OwedCalm ==
    ASSUME Living, NEW i \in Int, OffsetOf(zone, i) <= OffsetOf(zone, i - 1)
    PROVE  IsOwed(i) <=> Matches(Fields, Label(zone, i)) /\ ~Repeated(i)
<1>1. IsZone(zone)
  BY LivingIs
<1>2. PICK o \in Int : o = OffsetOf(zone, i)
  BY <1>1, LabelIs
<1>3. PICK p \in Int : p = OffsetOf(zone, i - 1)
  BY <1>1, LabelIs
<1>4. Label(zone, i) = i + o /\ Label(zone, i - 1) = (i - 1) + p
  BY <1>2, <1>3 DEF Label
<1>5. Erased(i) = {}
  BY <1>2, <1>3, <1>4 DEF Erased
<1>6. Label(zone, i) \in Int
  BY <1>4
<1> QED
  BY <1>5, <1>6, LivingIs DEF IsOwed, OwesErased

\* ... where it jumps, for that and for those the jump erased.
LEMMA OwedJump ==
    ASSUME Living, NEW i \in Int, OffsetOf(zone, i) > OffsetOf(zone, i - 1)
    PROVE  /\ ~Repeated(i)
           /\ IsOwed(i) <=> \E l \in Label(zone, i - 1) + 1 .. Label(zone, i) : Matches(Fields, l)
           /\ OwesErased(i) <=>
                /\ ~Matches(Fields, Label(zone, i))
                /\ \E l \in Label(zone, i - 1) + 1 .. Label(zone, i) - 1 : Matches(Fields, l)
<1>1. IsZone(zone)
  BY LivingIs
<1>2. PICK o \in Int : o = OffsetOf(zone, i)
  BY <1>1, LabelIs
<1>3. PICK p \in Int : p = OffsetOf(zone, i - 1)
  BY <1>1, LabelIs
<1>4. Label(zone, i) = i + o /\ Label(zone, i - 1) = (i - 1) + p
  BY <1>2, <1>3 DEF Label
<1>5. ~Repeated(i)
  <2>1. i - 1 \in Int /\ (i - 1) + 1 = i
    OBVIOUS
  <2>2. ~Second(zone, i)
    BY <1>1, <2>1, SetForward
  <2> QED
    BY <2>2, LivingIs
<1>6. PICK a \in Int : a = Label(zone, i - 1)
  BY <1>4
<1>7. PICK b \in Int : b = Label(zone, i)
  BY <1>4
<1>8. a + 1 \in Int /\ b - 1 \in Int /\ a + 1 <= b
  BY <1>2, <1>3, <1>4, <1>6, <1>7
<1>9. \A l \in Int : Matches(Fields, l) <=> AskedFor(l)
  BY LivingIs
<1>10. Erased(i) # {} <=> \E l \in a + 1 .. b - 1 : Matches(Fields, l)
  BY <1>6, <1>7, <1>8, <1>9 DEF Erased
<1>11. (\E l \in a + 1 .. b : Matches(Fields, l)) <=>
          Matches(Fields, b) \/ \E l \in a + 1 .. b - 1 : Matches(Fields, l)
  <2>1. a + 1 .. b = (a + 1 .. b - 1) \cup {b}
    BY <1>8
  <2> QED
    BY <2>1
<1>12. OwesErased(i) <=> ~Matches(Fields, b) /\ \E l \in a + 1 .. b - 1 : Matches(Fields, l)
  BY <1>7, <1>9, <1>10 DEF OwesErased
<1>13. IsOwed(i) <=> Matches(Fields, b) \/ OwesErased(i)
  BY <1>5, <1>7, <1>9 DEF IsOwed
<1> QED
  BY <1>5, <1>6, <1>7, <1>11, <1>12, <1>13

\* A step of the walk lands on the next minute that can be owed, and knows whether it is.
LEMMA OwedStep ==
    ASSUME Living, NEW i \in Int, ~Repeated(i)
    PROVE  /\ SetMinutes(zone, i) \in Int /\ SetMinutes(zone, i) > i
           /\ ~Repeated(SetMinutes(zone, i))
           /\ \A k \in i + 1 .. SetMinutes(zone, i) - 1 : ~IsOwed(k)
           /\ IsOwed(SetMinutes(zone, i)) <=>
                \/ Matches(Fields, Label(zone, SetMinutes(zone, i)))
                \/ Swallowed(zone, Fields, i, SetMinutes(zone, i))
           /\ Swallowed(zone, Fields, i, SetMinutes(zone, i)) =>
                /\ ~Matches(Fields, Label(zone, SetMinutes(zone, i)))
                /\ OffsetOf(zone, i + 1) > OffsetOf(zone, i)
<1> DEFINE j == SetMinutes(zone, i)
           m == Matches(Fields, Label(zone, j))
           w == Swallowed(zone, Fields, i, j)
<1>1. IsZone(zone) /\ ~Second(zone, i)
  BY LivingIs
<1>2. /\ j \in Int /\ j > i
      /\ ~Second(zone, j)
      /\ \A k \in i + 1 .. j - 1 : Second(zone, k)
      /\ \A k \in i + 1 .. j : OffsetOf(zone, k) = OffsetOf(zone, i + 1)
      /\ OffsetOf(zone, i + 1) >= OffsetOf(zone, i) => j = i + 1
  BY <1>1, StepIs
<1>3. PICK o \in Int : o = OffsetOf(zone, i)
  BY <1>1, LabelIs
<1>4. PICK p \in Int : p = OffsetOf(zone, i + 1)
  BY <1>1, LabelIs
<1>5. OffsetOf(zone, j) = p
  BY <1>2, <1>4
<1>6. w => ~m /\ p > o
  BY <1>3, <1>5 DEF Swallowed
<1> HIDE DEF j
<1>7. CASE p > o
  <2>1. j = i + 1 /\ j - 1 = i
    BY <1>2, <1>3, <1>4, <1>7
  <2>2. OffsetOf(zone, j) > OffsetOf(zone, j - 1)
    BY <1>3, <1>5, <1>7, <2>1
  <2>3. IsOwed(j) <=> \E l \in Label(zone, i) + 1 .. Label(zone, j) : Matches(Fields, l)
    BY <1>2, <2>1, <2>2, OwedJump
  <2>4. w <=> ~m /\ \E l \in Label(zone, i) + 1 .. Label(zone, j) - 1 : Matches(Fields, l)
    BY <2>1, <2>2 DEF Swallowed
  <2>5. PICK a \in Int : a = Label(zone, i)
    BY <1>1, LabelIs
  <2>6. PICK b \in Int : b = Label(zone, j)
    BY <1>1, <1>2, LabelIs
  <2>7. a = i + o /\ b = j + p
    BY <1>3, <1>5, <2>5, <2>6 DEF Label
  <2>8. a + 1 <= b
    BY <1>2, <1>7, <2>1, <2>7
  <2>9. a + 1 .. b = (a + 1 .. b - 1) \cup {b}
    BY <2>8
  <2>10. IsOwed(j) <=> m \/ w
    BY <2>3, <2>4, <2>5, <2>6, <2>9
  <2>11. i + 1 .. j - 1 = {}
    BY <1>2, <2>1
  <2> QED
    BY <1>1, <1>2, <1>3, <1>4, <1>6, <2>10, <2>11, LivingIs DEF j
<1>8. CASE p <= o
  <2>1. ASSUME NEW k \in i + 1 .. j PROVE OffsetOf(zone, k) <= OffsetOf(zone, k - 1)
    <3>1. OffsetOf(zone, k) = p
      BY <1>2, <1>4
    <3>2. CASE k = i + 1
      <4>1. k - 1 = i
        BY <3>2
      <4> QED
        BY <1>3, <1>8, <3>1, <4>1
    <3>3. CASE k # i + 1
      <4>1. k - 1 \in i + 1 .. j
        BY <1>2, <3>3
      <4> QED
        BY <1>2, <1>4, <3>1, <4>1
    <3> QED
      BY <3>2, <3>3
  <2>2. ASSUME NEW k \in i + 1 .. j PROVE IsOwed(k) <=> Matches(Fields, Label(zone, k)) /\ ~Repeated(k)
    <3>1. k \in Int
      BY <1>2
    <3> QED
      BY <2>1, <3>1, OwedCalm
  <2>3. \A k \in i + 1 .. j - 1 : ~IsOwed(k)
    <3> TAKE k \in i + 1 .. j - 1
    <3>1. k \in i + 1 .. j
      BY <1>2
    <3> QED
      BY <1>2, <2>2, <3>1, LivingIs
  <2>4. IsOwed(j) <=> m
    <3>1. j \in i + 1 .. j
      BY <1>2
    <3> QED
      BY <1>2, <2>2, <3>1, LivingIs
  <2>5. ~w
    BY <1>6, <1>8
  <2> QED
    BY <1>1, <1>2, <1>3, <1>4, <1>6, <2>3, <2>4, <2>5, LivingIs DEF j
<1> QED
  BY <1>7, <1>8

\* Where a walk begins.
LEMMA FirstIs ==
    ASSUME Living, NEW i \in Int
    PROVE  /\ First(zone, i) \in Int /\ ~Repeated(First(zone, i))
           /\ ~Repeated(i) => First(zone, i) = SetMinutes(zone, i)
<1> DEFINE r == Instant(zone, Label(zone, i))
<1>1. r \in Int /\ Label(zone, r) = Label(zone, i)
  BY LivingIs, InstantIs
<1>2. ~Repeated(r)
  BY <1>1 DEF Repeated
<1>3. First(zone, i) = SetMinutes(zone, r)
  BY DEF First
<1>4. ~Repeated(i) => r = i
  BY DEF Repeated
<1> HIDE DEF r
<1> QED
  BY <1>1, <1>2, <1>3, <1>4, OwedStep

-----------------------------------------------------------------------------
(* nextFire.                                                               *)

IsNextWalk(w, z, f, after) ==
    w = [n \in Nat |-> IF n = 0 THEN [at |-> First(z, after), fire |-> None]
                       ELSE NextTurn(z, f, w[n-1])]

\* The loop of nextFire as a chosen function, for Zenon.
LEMMA NextWalkUnfolds ==
    ASSUME NEW z, NEW f, NEW after
    PROVE  NextWalk(z, f, after) = (CHOOSE w : IsNextWalk(w, z, f, after))
  BY Zenon DEF NextWalk, IsNextWalk

\* The loop is a walk over readings that are not repeated.
NextCursors == [at : {i \in Int : ~Repeated(i)}, fire : Int \cup {None}]

\* A turn moves from one such reading to another, ...
LEMMA NextTurnTyped ==
    ASSUME Living, NEW w \in NextCursors
    PROVE  NextTurn(zone, Fields, w) \in NextCursors
<1>1. w.at \in Int /\ ~Repeated(w.at) /\ w.fire \in Int \cup {None}
  BY DEF NextCursors
<1>2. SetMinutes(zone, w.at) \in Int /\ ~Repeated(SetMinutes(zone, w.at))
  BY <1>1, OwedStep
<1>3. CASE w.fire # None
  BY <1>3 DEF NextTurn
<1>4. CASE w.fire = None /\ Matches(Fields, Label(zone, w.at))
  <2>1. NextTurn(zone, Fields, w) = [at |-> w.at, fire |-> w.at]
    BY <1>4 DEF NextTurn
  <2> QED
    BY <1>1, <2>1 DEF NextCursors
<1>5. CASE w.fire = None /\ ~Matches(Fields, Label(zone, w.at))
  <2> DEFINE j == SetMinutes(zone, w.at)
             r == IF Swallowed(zone, Fields, w.at, j) THEN j ELSE None
  <2>1. NextTurn(zone, Fields, w) = [at |-> j, fire |-> r]
    BY <1>5 DEF NextTurn
  <2>2. j \in Int /\ ~Repeated(j) /\ r \in Int \cup {None}
    BY <1>2
  <2> HIDE DEF j, r
  <2> QED
    BY <2>1, <2>2 DEF NextCursors
<1> QED
  BY <1>3, <1>4, <1>5

\* ... and the loop exists and does one turn after the other.
LEMMA NextWalkIs ==
    ASSUME Living, NEW after \in Int
    PROVE  /\ NextWalk(zone, Fields, after) \in [Nat -> NextCursors]
           /\ NextWalk(zone, Fields, after)[0] = [at |-> First(zone, after), fire |-> None]
           /\ \A n \in Nat : NextWalk(zone, Fields, after)[n+1]
                                = NextTurn(zone, Fields, NextWalk(zone, Fields, after)[n])
<1> DEFINE a == [at |-> First(zone, after), fire |-> None]
           step == [w \in NextCursors |-> NextTurn(zone, Fields, w)]
<1>1. a \in NextCursors
  BY FirstIs DEF NextCursors
<1>2. step \in [NextCursors -> NextCursors]
  BY NextTurnTyped
<1>3. PICK g \in [Nat -> NextCursors] : g[0] = a /\ \A n \in Nat \ {0} : g[n] = step[g[n-1]]
  <2> HIDE DEF a, step
  <2> QED
    BY <1>1, <1>2, Iteration
<1>4. ASSUME NEW n \in Nat PROVE g[n] = IF n = 0 THEN a ELSE NextTurn(zone, Fields, g[n-1])
  <2>1. CASE n = 0
    BY <1>3, <2>1
  <2>2. CASE n # 0
    <3>1. n - 1 \in Nat
      BY <2>2
    <3>2. g[n-1] \in NextCursors
      BY <3>1
    <3>3. step[g[n-1]] = NextTurn(zone, Fields, g[n-1])
      BY <3>2
    <3> HIDE DEF step
    <3> QED
      BY <1>3, <2>2, <3>3
  <2> QED
    BY <2>1, <2>2
<1> DEFINE body(w) == [n \in Nat |-> IF n = 0 THEN a ELSE NextTurn(zone, Fields, w[n-1])]
           W == NextWalk(zone, Fields, after)
<1>5. IsNextWalk(g, zone, Fields, after)
  <2>1. g = [n \in Nat |-> g[n]]
    OBVIOUS
  <2>2. g = body(g)
    <3> HIDE DEF a
    <3> QED
      BY <1>4, <2>1
  <2> QED
    BY <2>2, Zenon DEF IsNextWalk
<1>6. IsNextWalk(W, zone, Fields, after)
  BY <1>5, NextWalkUnfolds, Zenon
<1>7. W = body(W)
  BY <1>6, Zenon DEF IsNextWalk
<1> HIDE DEF a, W
<1>8. \A n \in Nat : W[n] = IF n = 0 THEN a ELSE NextTurn(zone, Fields, W[n-1])
  BY <1>7
<1>9. W[0] = a
  BY <1>8
<1>10. ASSUME NEW n \in Nat PROVE W[n+1] = NextTurn(zone, Fields, W[n])
  <2>1. n + 1 \in Nat /\ n + 1 # 0 /\ (n + 1) - 1 = n
    OBVIOUS
  <2> QED
    BY <1>8, <2>1
<1>11. \A n \in Nat : W[n] \in NextCursors
  <2> DEFINE G == {n \in Nat : W[n] \in NextCursors}
  <2>1. 0 \in G
    BY <1>1, <1>9
  <2>2. ASSUME NEW n \in Nat, n \in G PROVE n + 1 \in G
    BY <1>10, <2>2, NextTurnTyped
  <2> HIDE DEF G
  <2>3. Nat \subseteq G
    BY <2>1, <2>2, Inductive
  <2> QED
    BY <2>3 DEF G
<1>12. W \in [Nat -> NextCursors]
  BY <1>7, <1>11
<1> QED
  BY <1>9, <1>10, <1>12 DEF a, W

\* So far the walk has passed over no minute that is owed, and what it has found is.
NextSound(after, w) ==
    /\ w.fire = None => /\ w.at > after
                        /\ \A k \in after + 1 .. w.at - 1 : ~IsOwed(k)
                        /\ IsOwed(w.at) => Matches(Fields, Label(zone, w.at))
    /\ w.fire # None => /\ w.fire > after /\ IsOwed(w.fire)
                        /\ \A k \in after + 1 .. w.fire - 1 : ~IsOwed(k)

\* A turn keeps that true, and moves on unless it has found one.
LEMMA NextTurnSound ==
    ASSUME Living, NEW after \in Int, NEW w \in NextCursors, NextSound(after, w)
    PROVE  /\ NextSound(after, NextTurn(zone, Fields, w))
           /\ NextTurn(zone, Fields, w).fire = None =>
                w.fire = None /\ NextTurn(zone, Fields, w).at > w.at
<1> DEFINE i == w.at
           j == SetMinutes(zone, i)
           u == NextTurn(zone, Fields, w)
<1>0. None \notin Int
  BY CalendarAssumption
<1>1. i \in Int /\ ~Repeated(i) /\ w.fire \in Int \cup {None}
  BY DEF NextCursors
<1>2. /\ j \in Int /\ j > i
      /\ \A k \in i + 1 .. j - 1 : ~IsOwed(k)
      /\ IsOwed(j) <=> Matches(Fields, Label(zone, j)) \/ Swallowed(zone, Fields, i, j)
  BY <1>1, OwedStep
<1>3. CASE w.fire # None
  <2>1. u = w
    BY <1>3 DEF NextTurn
  <2> QED
    BY <1>3, <2>1
<1>4. CASE w.fire = None /\ Matches(Fields, Label(zone, i))
  <2>1. u = [at |-> i, fire |-> i]
    BY <1>4 DEF NextTurn
  <2>2. IsOwed(i)
    <3>1. Label(zone, i) \in Int
      BY <1>1, LivingIs, LabelIs
    <3> QED
      BY <1>1, <1>4, <3>1, LivingIs DEF IsOwed
  <2>3. i # None
    BY <1>0, <1>1
  <2>4. u.fire = i /\ u.fire # None
    BY <2>1, <2>3
  <2>5. i > after /\ \A k \in after + 1 .. i - 1 : ~IsOwed(k)
    BY <1>4 DEF NextSound
  <2> HIDE DEF u, i
  <2>6. NextSound(after, u)
    BY <2>2, <2>4, <2>5 DEF NextSound
  <2> QED
    BY <2>4, <2>6 DEF u, i
<1>5. CASE w.fire = None /\ ~Matches(Fields, Label(zone, i))
  <2>1. u = [at |-> j, fire |-> IF Swallowed(zone, Fields, i, j) THEN j ELSE None]
    BY <1>5 DEF NextTurn
  <2>2. u.at = j /\ u.fire = IF Swallowed(zone, Fields, i, j) THEN j ELSE None
    BY <2>1
  <2>3. i > after /\ ~IsOwed(i) /\ \A k \in after + 1 .. i - 1 : ~IsOwed(k)
    BY <1>5 DEF NextSound
  <2>4. \A k \in after + 1 .. j - 1 : ~IsOwed(k)
    <3> TAKE k \in after + 1 .. j - 1
    <3>1. k \in after + 1 .. i - 1 \/ k = i \/ k \in i + 1 .. j - 1
      BY <1>1, <1>2
    <3> QED
      BY <1>2, <2>3, <3>1
  <2>5. j > after /\ j # None
    BY <1>0, <1>1, <1>2, <2>3
  <2> HIDE DEF u, j, i
  <2>6. CASE Swallowed(zone, Fields, i, j)
    <3>1. u.fire = j /\ u.fire # None /\ IsOwed(j)
      BY <1>2, <2>2, <2>5, <2>6
    <3>2. NextSound(after, u)
      BY <2>4, <2>5, <3>1 DEF NextSound
    <3> QED
      BY <3>1, <3>2 DEF u
  <2>7. CASE ~Swallowed(zone, Fields, i, j)
    <3>1. u.fire = None /\ u.at = j /\ (IsOwed(j) => Matches(Fields, Label(zone, j)))
      BY <1>2, <2>2, <2>7
    <3>2. NextSound(after, u)
      BY <2>4, <2>5, <3>1 DEF NextSound
    <3> QED
      BY <1>2, <1>5, <3>1, <3>2 DEF u, i
  <2> QED
    BY <2>6, <2>7
<1> QED
  BY <1>1, <1>3, <1>4, <1>5

\* From an ordinary minute, nextFire finds the first fire owed within its limit.
LEMMA NextFireIs ==
    ASSUME Living, NEW after \in Int, ~Jumps(after), ~Repeated(after)
    PROVE  LET next == NextFire(zone, Fields, after)
           IN IF next = None THEN \A k \in after + 1 .. after + WalkLimit : ~IsOwed(k)
              ELSE next \in Int /\ next > after /\ IsOwed(next) /\ \A k \in after + 1 .. next - 1 : ~IsOwed(k)
<1> DEFINE W == NextWalk(zone, Fields, after)
           G == {n \in Nat : NextSound(after, W[n]) /\ (W[n].fire = None => W[n].at > after + n)}
<1>1. /\ W \in [Nat -> NextCursors] /\ W[0] = [at |-> First(zone, after), fire |-> None]
      /\ \A n \in Nat : W[n+1] = NextTurn(zone, Fields, W[n])
  BY NextWalkIs
<1>2. 0 \in G
  <2> DEFINE j == SetMinutes(zone, after)
  <2>1. First(zone, after) = j
    BY FirstIs
  <2>2. /\ j \in Int /\ j > after
        /\ \A k \in after + 1 .. j - 1 : ~IsOwed(k)
        /\ IsOwed(j) => Matches(Fields, Label(zone, j)) \/ Swallowed(zone, Fields, after, j)
        /\ ~Swallowed(zone, Fields, after, j)
    BY OwedStep DEF Jumps
  <2>3. W[0].at = j /\ W[0].fire = None
    BY <1>1, <2>1
  <2> HIDE DEF W, j
  <2> QED
    BY <2>2, <2>3 DEF NextSound
<1>3. ASSUME NEW n \in Nat, n \in G PROVE n + 1 \in G
  <2>1. W[n] \in NextCursors /\ W[n+1] \in NextCursors /\ W[n+1] = NextTurn(zone, Fields, W[n])
    BY <1>1
  <2>2. NextSound(after, W[n]) /\ (W[n].fire = None => W[n].at > after + n)
    BY <1>3
  <2> HIDE DEF W
  <2>3. /\ NextSound(after, W[n+1])
        /\ W[n+1].fire = None => W[n].fire = None /\ W[n+1].at > W[n].at
    BY <2>1, <2>2, NextTurnSound
  <2>4. W[n].at \in Int /\ W[n+1].at \in Int
    BY <2>1 DEF NextCursors
  <2>5. W[n+1].fire = None => W[n+1].at > after + (n + 1)
    BY <2>2, <2>3, <2>4
  <2> QED
    BY <2>3, <2>5
<1> HIDE DEF G
<1>4. WalkLimit \in G
  BY <1>2, <1>3, Inductive, WalkAssumption
<1>5. NextSound(after, W[WalkLimit]) /\ (W[WalkLimit].fire = None => W[WalkLimit].at > after + WalkLimit)
  BY <1>4 DEF G
<1>6. W[WalkLimit] \in NextCursors /\ WalkLimit \in Nat
  BY <1>1, WalkAssumption
<1>7. W[WalkLimit].at \in Int /\ W[WalkLimit].fire \in Int \cup {None} /\ NextFire(zone, Fields, after) = W[WalkLimit].fire
  BY <1>6 DEF NextCursors, NextFire
<1> HIDE DEF W
<1>8. W[WalkLimit].fire = None => \A k \in after + 1 .. after + WalkLimit : k \in after + 1 .. W[WalkLimit].at - 1
  BY <1>5, <1>6, <1>7
<1> QED
  BY <1>5, <1>7, <1>8 DEF NextSound

-----------------------------------------------------------------------------
(* missedFires.                                                            *)

IsMissedWalk(w, z, f, after, until, cap) ==
    w = [n \in Nat |-> IF n = 0 THEN [at |-> First(z, after), fires |-> << >>, truncated |-> FALSE]
                       ELSE MissedTurn(z, f, until, cap, w[n-1])]

\* The loop of missedFires as a chosen function, for Zenon.
LEMMA MissedWalkUnfolds ==
    ASSUME NEW z, NEW f, NEW after, NEW until, NEW cap
    PROVE  MissedWalk(z, f, after, until, cap)
              = (CHOOSE w : IsMissedWalk(w, z, f, after, until, cap))
  BY Zenon DEF MissedWalk, IsMissedWalk

\* The loop collects fires that are owed, up to the last minute asked about.
OwedUpTo(until) == {i \in Int : i <= until /\ IsOwed(i)}
MissedCursors(until) ==
    [at : {i \in Int : ~Repeated(i)}, fires : Seq(OwedUpTo(until)), truncated : BOOLEAN]

\* A push adds a fire, or finds no room.
LEMMA PushedIs ==
    ASSUME NEW until \in Int, NEW w \in MissedCursors(until), NEW i \in OwedUpTo(until), NEW cap \in Nat
    PROVE  /\ Pushed(w, i, cap) \in MissedCursors(until)
           /\ Pushed(w, i, cap).at = w.at
           /\ Len(w.fires) >= cap => /\ Pushed(w, i, cap).fires = w.fires
                                     /\ Pushed(w, i, cap).truncated
           /\ Len(w.fires) < cap => /\ Pushed(w, i, cap).fires = Append(w.fires, i)
                                    /\ Pushed(w, i, cap).truncated = w.truncated
<1>1. /\ w = [at |-> w.at, fires |-> w.fires, truncated |-> w.truncated]
      /\ w.at \in Int /\ ~Repeated(w.at) /\ w.fires \in Seq(OwedUpTo(until)) /\ w.truncated \in BOOLEAN
  BY DEF MissedCursors
<1>2. Len(w.fires) \in Nat
  BY <1>1
<1>3. CASE Len(w.fires) >= cap
  <2>1. Pushed(w, i, cap) = [at |-> w.at, fires |-> w.fires, truncated |-> TRUE]
    BY <1>1, <1>3 DEF Pushed
  <2>2. Pushed(w, i, cap) \in MissedCursors(until)
    BY <1>1, <2>1 DEF MissedCursors
  <2>3. ~(Len(w.fires) < cap)
    BY <1>2, <1>3
  <2> DEFINE u == Pushed(w, i, cap)
  <2>4. u.at = w.at /\ u.fires = w.fires /\ u.truncated
    BY <2>1
  <2>5. u \in MissedCursors(until)
    BY <2>2
  <2> HIDE DEF u
  <2> QED
    BY <2>3, <2>4, <2>5 DEF u
<1>4. CASE Len(w.fires) < cap
  <2> DEFINE s == Append(w.fires, i)
  <2>1. ~(Len(w.fires) >= cap)
    BY <1>2, <1>4
  <2>2. Pushed(w, i, cap) = [at |-> w.at, fires |-> s, truncated |-> w.truncated]
    BY <1>1, <2>1 DEF Pushed
  <2>3. s \in Seq(OwedUpTo(until))
    BY <1>1
  <2> HIDE DEF s
  <2>4. Pushed(w, i, cap) \in MissedCursors(until)
    BY <1>1, <2>2, <2>3 DEF MissedCursors
  <2> QED
    BY <2>1, <2>2, <2>4 DEF s
<1> QED
  BY <1>2, <1>3, <1>4

\* What a turn of the loop does, in the order it does it.
LEMMA MissedTurnIs ==
    ASSUME Living, NEW until \in Int, NEW cap \in Nat, NEW w \in MissedCursors(until),
           w.at <= until, ~w.truncated
    PROVE  LET j == SetMinutes(zone, w.at)
               own == IF Matches(Fields, Label(zone, w.at)) THEN Pushed(w, w.at, cap) ELSE w
               both == IF ~own.truncated /\ Swallowed(zone, Fields, w.at, j) /\ j <= until
                       THEN Pushed(own, j, cap) ELSE own
               u == MissedTurn(zone, Fields, until, cap, w)
           IN /\ Matches(Fields, Label(zone, w.at)) => w.at \in OwedUpTo(until)
              /\ Swallowed(zone, Fields, w.at, j) /\ j <= until => j \in OwedUpTo(until)
              /\ own \in MissedCursors(until) /\ both \in MissedCursors(until)
              /\ u \in MissedCursors(until)
              /\ u.at = j /\ u.fires = both.fires /\ u.truncated = both.truncated
<1> DEFINE i == w.at
           j == SetMinutes(zone, i)
           m == Matches(Fields, Label(zone, i))
           s == Swallowed(zone, Fields, i, j) /\ j <= until
           own == IF m THEN Pushed(w, i, cap) ELSE w
           both == IF ~own.truncated /\ s THEN Pushed(own, j, cap) ELSE own
           u == MissedTurn(zone, Fields, until, cap, w)
<1>1. i \in Int /\ ~Repeated(i)
  BY DEF MissedCursors
<1>2. /\ j \in Int /\ j > i /\ ~Repeated(j)
      /\ s => IsOwed(j) /\ j <= until
  BY <1>1, OwedStep
<1>3. m => i \in OwedUpTo(until)
  <2>1. Label(zone, i) \in Int
    BY <1>1, LivingIs, LabelIs
  <2> QED
    BY <1>1, <2>1, LivingIs DEF IsOwed, OwedUpTo
<1>4. s => j \in OwedUpTo(until)
  BY <1>2 DEF OwedUpTo
<1> HIDE DEF m, s, i, j
<1>5. own \in MissedCursors(until)
  BY <1>3, PushedIs
<1> HIDE DEF own
<1>6. both \in MissedCursors(until)
  BY <1>4, <1>5, PushedIs
<1> HIDE DEF both
<1>7. u = [both EXCEPT !.at = j]
  <2>1. ~(i > until \/ w.truncated)
    BY <1>1 DEF i
  <2> QED
    BY <2>1 DEF MissedTurn, both, own, m, s, i, j
<1>8. both.fires \in Seq(OwedUpTo(until)) /\ both.truncated \in BOOLEAN
  BY <1>6 DEF MissedCursors
<1>9. u = [at |-> j, fires |-> both.fires, truncated |-> both.truncated]
  BY <1>6, <1>7 DEF MissedCursors
<1> HIDE DEF u
<1>10. u \in MissedCursors(until)
  BY <1>2, <1>8, <1>9 DEF MissedCursors
<1>11. u.at = j /\ u.fires = both.fires /\ u.truncated = both.truncated
  BY <1>9
<1> QED
  BY <1>3, <1>4, <1>5, <1>6, <1>10, <1>11 DEF m, s, own, both, u, i, j

\* A turn collects fires that are owed and no others, ...
LEMMA MissedTurnTyped ==
    ASSUME Living, NEW until \in Int, NEW cap \in Nat, NEW w \in MissedCursors(until)
    PROVE  MissedTurn(zone, Fields, until, cap, w) \in MissedCursors(until)
<1>1. CASE w.at > until \/ w.truncated
  BY <1>1 DEF MissedTurn
<1>2. CASE ~(w.at > until \/ w.truncated)
  <2>1. w.at \in Int
    BY DEF MissedCursors
  <2> QED
    BY <1>2, <2>1, MissedTurnIs
<1> QED
  BY <1>1, <1>2

\* ... and the loop exists and does one turn after the other.
LEMMA MissedWalkIs ==
    ASSUME Living, NEW after \in Int, NEW until \in Int, NEW cap \in Nat
    PROVE  LET W == MissedWalk(zone, Fields, after, until, cap)
           IN /\ W \in [Nat -> MissedCursors(until)]
              /\ W[0] = [at |-> First(zone, after), fires |-> << >>, truncated |-> FALSE]
              /\ \A n \in Nat : W[n+1] = MissedTurn(zone, Fields, until, cap, W[n])
<1> DEFINE a == [at |-> First(zone, after), fires |-> << >>, truncated |-> FALSE]
           S == MissedCursors(until)
           step == [w \in S |-> MissedTurn(zone, Fields, until, cap, w)]
<1>1. a \in S
  BY FirstIs DEF MissedCursors
<1>2. step \in [S -> S]
  BY MissedTurnTyped
<1>3. PICK g \in [Nat -> S] : g[0] = a /\ \A n \in Nat \ {0} : g[n] = step[g[n-1]]
  <2> HIDE DEF a, step, S
  <2> QED
    BY <1>1, <1>2, Iteration
<1>4. ASSUME NEW n \in Nat
      PROVE  g[n] = IF n = 0 THEN a ELSE MissedTurn(zone, Fields, until, cap, g[n-1])
  <2>1. CASE n = 0
    BY <1>3, <2>1
  <2>2. CASE n # 0
    <3>1. n - 1 \in Nat
      BY <2>2
    <3>2. g[n-1] \in S
      BY <3>1
    <3> HIDE DEF S
    <3>3. step[g[n-1]] = MissedTurn(zone, Fields, until, cap, g[n-1])
      BY <3>2
    <3> HIDE DEF step
    <3> QED
      BY <1>3, <2>2, <3>3
  <2> QED
    BY <2>1, <2>2
<1> DEFINE body(w) == [n \in Nat |-> IF n = 0 THEN a ELSE MissedTurn(zone, Fields, until, cap, w[n-1])]
           W == MissedWalk(zone, Fields, after, until, cap)
<1>5. IsMissedWalk(g, zone, Fields, after, until, cap)
  <2>1. g = [n \in Nat |-> g[n]]
    OBVIOUS
  <2>2. g = body(g)
    <3> HIDE DEF a
    <3> QED
      BY <1>4, <2>1
  <2> QED
    BY <2>2, Zenon DEF IsMissedWalk
<1>6. IsMissedWalk(W, zone, Fields, after, until, cap)
  BY <1>5, MissedWalkUnfolds, Zenon
<1>7. W = body(W)
  BY <1>6, Zenon DEF IsMissedWalk
<1> HIDE DEF a, W, S
<1>8. \A n \in Nat : W[n] = IF n = 0 THEN a ELSE MissedTurn(zone, Fields, until, cap, W[n-1])
  BY <1>7
<1>9. W[0] = a
  BY <1>8
<1>10. ASSUME NEW n \in Nat PROVE W[n+1] = MissedTurn(zone, Fields, until, cap, W[n])
  <2>1. n + 1 \in Nat /\ n + 1 # 0 /\ (n + 1) - 1 = n
    OBVIOUS
  <2> QED
    BY <1>8, <2>1
<1>11. \A n \in Nat : W[n] \in S
  <2> DEFINE G == {n \in Nat : W[n] \in S}
  <2>1. 0 \in G
    BY <1>1, <1>9
  <2>2. ASSUME NEW n \in Nat, n \in G PROVE n + 1 \in G
    BY <1>10, <2>2, MissedTurnTyped DEF S
  <2> HIDE DEF G
  <2>3. Nat \subseteq G
    BY <2>1, <2>2, Inductive
  <2> QED
    BY <2>3 DEF G
<1>12. W \in [Nat -> S]
  BY <1>7, <1>11
<1> QED
  BY <1>9, <1>10, <1>12 DEF a, W, S

\* The fires collected are a set D of owed ones, while there was room; when there
\* is none, they are the oldest, as many as there was room for.
Collected(w, D, owed, cap) ==
    /\ ~w.truncated => Range(w.fires) = D /\ Len(w.fires) = Cardinality(D) /\ Cardinality(D) <= cap
    /\ w.truncated => \E F \in SUBSET owed :
                         /\ F # owed /\ \A a \in F, b \in owed \ F : a < b
                         /\ Range(w.fires) = F /\ Len(w.fires) = cap /\ Cardinality(F) = cap

\* An appended fire is the only one added.
LEMMA RangeOfAppend ==
    ASSUME NEW S, NEW s \in Seq(S), NEW e \in S
    PROVE  Range(Append(s, e)) = Range(s) \cup {e}
<1> DEFINE t == Append(s, e)
<1>1. /\ Len(s) \in Nat /\ DOMAIN s = 1 .. Len(s) /\ DOMAIN t = 1 .. Len(s) + 1
      /\ t[Len(s) + 1] = e /\ \A k \in 1 .. Len(s) : t[k] = s[k]
  OBVIOUS
<1> HIDE DEF t
<1>2. ASSUME NEW x \in Range(t) PROVE x \in Range(s) \cup {e}
  <2>1. PICK k \in DOMAIN t : x = t[k]
    BY DEF Range
  <2> QED
    BY <1>1, <2>1 DEF Range
<1>3. ASSUME NEW x \in Range(s) PROVE x \in Range(t)
  <2>1. PICK k \in DOMAIN s : x = s[k]
    BY DEF Range
  <2>2. k \in DOMAIN t /\ x = t[k]
    BY <1>1, <2>1
  <2> QED
    BY <2>2 DEF Range
<1>4. e \in Range(t)
  <2>1. Len(s) + 1 \in DOMAIN t
    BY <1>1
  <2> QED
    BY <1>1, <2>1 DEF Range
<1>5. Range(t) = Range(s) \cup {e}
  BY <1>2, <1>3, <1>4
<1> QED
  BY <1>5 DEF t

\* A push of the next fire that is owed collects it too, or leaves the oldest.
LEMMA PushedCollects ==
    ASSUME NEW until \in Int, NEW w \in MissedCursors(until), NEW i \in OwedUpTo(until), NEW cap \in Nat,
           NEW owed, IsFiniteSet(owed), NEW D \in SUBSET owed, i \in owed \ D,
           \A a \in D, b \in owed \ D : a < b,
           ~w.truncated, Collected(w, D, owed, cap)
    PROVE  Collected(Pushed(w, i, cap), D \cup {i}, owed, cap)
<1> DEFINE u == Pushed(w, i, cap)
<1>1. Range(w.fires) = D /\ Len(w.fires) = Cardinality(D) /\ Cardinality(D) <= cap
  BY DEF Collected
<1>2. IsFiniteSet(D) /\ Cardinality(D) \in Nat
  BY FS_Subset, FS_CardinalityType
<1>3. w.fires \in Seq(OwedUpTo(until))
  BY DEF MissedCursors
<1>4. CASE Len(w.fires) >= cap
  <2>1. u.fires = w.fires /\ u.truncated
    BY <1>4, PushedIs
  <2>2. Cardinality(D) = cap /\ Len(w.fires) = cap
    BY <1>1, <1>2, <1>4
  <2>3. D # owed
    OBVIOUS
  <2> HIDE DEF u
  <2>4. Range(u.fires) = D /\ Len(u.fires) = cap
    BY <1>1, <2>1, <2>2
  <2> QED
    BY <2>1, <2>2, <2>3, <2>4 DEF Collected, u
<1>5. CASE Len(w.fires) < cap
  <2>1. u.fires = Append(w.fires, i) /\ ~u.truncated
    BY <1>5, PushedIs
  <2>2. Cardinality(D \cup {i}) = Cardinality(D) + 1
    BY <1>2, FS_AddElement
  <2>3. Len(Append(w.fires, i)) = Len(w.fires) + 1
    BY <1>3
  <2>4. Range(Append(w.fires, i)) = Range(w.fires) \cup {i}
    BY <1>3, RangeOfAppend
  <2> HIDE DEF u
  <2>5. Cardinality(D) + 1 <= cap
    BY <1>1, <1>2, <1>5
  <2> QED
    BY <1>1, <2>1, <2>2, <2>3, <2>4, <2>5 DEF Collected, u
<1>6. Len(w.fires) \in Nat
  BY <1>3
<1> QED
  BY <1>4, <1>5, <1>6

\* A beginning of the fires owed, as many as there is room for, is the oldest of them.
LEMMA OldestAre ==
    ASSUME NEW owed \in SUBSET Int, IsFiniteSet(owed), NEW F \in SUBSET owed, NEW cap \in Nat,
           \A a \in F, b \in owed \ F : a < b,
           Cardinality(F) <= cap, F # owed => Cardinality(F) = cap
    PROVE  /\ F = {i \in owed : Cardinality({j \in owed : j < i}) < cap}
           /\ Cardinality(F) <= Cardinality(owed)
           /\ Cardinality(owed) > cap <=> F # owed
<1>1. /\ IsFiniteSet(F) /\ Cardinality(F) \in Nat /\ Cardinality(owed) \in Nat
      /\ Cardinality(F) <= Cardinality(owed) /\ (Cardinality(owed) = Cardinality(F) => owed = F)
  BY FS_Subset, FS_CardinalityType
<1>2. ASSUME NEW i \in F PROVE Cardinality({j \in owed : j < i}) < cap
  <2> DEFINE B == {j \in owed : j < i}
  <2>1. B \subseteq F \ {i}
    <3> SUFFICES ASSUME NEW j \in B PROVE j \in F \ {i}
      OBVIOUS
    <3>1. j \in owed /\ j < i /\ i \in Int /\ j \in Int
      OBVIOUS
    <3>2. j \notin owed \ F
      <4> SUFFICES ASSUME j \in owed \ F PROVE FALSE
        OBVIOUS
      <4>1. i < j
        OBVIOUS
      <4> QED
        BY <3>1, <4>1
    <3> QED
      BY <3>1, <3>2
  <2>2. IsFiniteSet(F \ {i}) /\ Cardinality(F \ {i}) = Cardinality(F) - 1
    BY <1>1, FS_RemoveElement
  <2> HIDE DEF B
  <2>3. IsFiniteSet(B) /\ Cardinality(B) <= Cardinality(F \ {i})
    BY <2>1, <2>2, FS_Subset
  <2>4. Cardinality(B) \in Nat
    BY <2>3, FS_CardinalityType
  <2>5. Cardinality(B) < cap
    BY <1>1, <2>2, <2>3, <2>4
  <2> QED
    BY <2>5 DEF B
<1>3. ASSUME NEW i \in owed \ F PROVE ~(Cardinality({j \in owed : j < i}) < cap)
  <2> DEFINE B == {j \in owed : j < i}
  <2>1. F \subseteq B
    OBVIOUS
  <2>2. B \subseteq owed
    OBVIOUS
  <2> HIDE DEF B
  <2>3. IsFiniteSet(B)
    BY <2>2, FS_Subset
  <2>4. Cardinality(F) <= Cardinality(B) /\ Cardinality(B) \in Nat
    BY <2>1, <2>3, FS_Subset, FS_CardinalityType
  <2>5. ~(Cardinality(B) < cap)
    BY <1>1, <1>3, <2>4
  <2> QED
    BY <2>5 DEF B
<1>4. F = {i \in owed : Cardinality({j \in owed : j < i}) < cap}
  BY <1>2, <1>3
<1>5. Cardinality(owed) > cap <=> F # owed
  BY <1>1
<1> QED
  BY <1>1, <1>4, <1>5

\* What a walk at a minute has passed: a minute that matches is collected when it is
\* left, one that only answers for erased readings when it is reached.
Passed(after, until, at) ==
    {k \in Owed(after, until) : k < at \/ (k = at /\ ~Matches(Fields, Label(zone, at)))}
MissedSound(after, until, cap, w) ==
    w.at > after /\ Collected(w, Passed(after, until, w.at), Owed(after, until), cap)

\* What is owed in an interval is a finite set.
LEMMA OwedIs ==
    ASSUME NEW after \in Int, NEW until \in Int
    PROVE  /\ Owed(after, until) \subseteq Int /\ IsFiniteSet(Owed(after, until))
           /\ \A k : k \in Owed(after, until) <=> k \in Int /\ after < k /\ k <= until /\ IsOwed(k)
<1>1. IsFiniteSet(after + 1 .. until)
  BY FS_Interval
<1>2. Owed(after, until) \subseteq after + 1 .. until
  BY DEF Owed
<1>3. IsFiniteSet(Owed(after, until))
  BY <1>1, <1>2, FS_Subset
<1>4. \A k : k \in after + 1 .. until <=> k \in Int /\ after < k /\ k <= until
  OBVIOUS
<1> QED
  BY <1>2, <1>3, <1>4 DEF Owed

\* A turn collects what it passes over that is owed, and moves on.
LEMMA MissedTurnSound ==
    ASSUME Living, NEW after \in Int, NEW until \in Int, NEW cap \in Nat, NEW w \in MissedCursors(until),
           MissedSound(after, until, cap, w), w.at <= until, ~w.truncated
    PROVE  LET u == MissedTurn(zone, Fields, until, cap, w)
           IN MissedSound(after, until, cap, u) /\ u.at > w.at
<1> DEFINE i == w.at
           j == SetMinutes(zone, i)
           m == Matches(Fields, Label(zone, i))
           s == Swallowed(zone, Fields, i, j)
           own == IF m THEN Pushed(w, i, cap) ELSE w
           both == IF ~own.truncated /\ s /\ j <= until THEN Pushed(own, j, cap) ELSE own
           u == MissedTurn(zone, Fields, until, cap, w)
           owed == Owed(after, until)
           D == {k \in owed : k <= i}
<1>1. i \in Int /\ ~Repeated(i) /\ i > after
  BY DEF MissedCursors, MissedSound
<1>2. /\ j \in Int /\ j > i
      /\ \A k \in i + 1 .. j - 1 : ~IsOwed(k)
      /\ IsOwed(j) <=> Matches(Fields, Label(zone, j)) \/ s
      /\ s => ~Matches(Fields, Label(zone, j))
  BY <1>1, OwedStep
<1>3. /\ m => i \in OwedUpTo(until)
      /\ s /\ j <= until => j \in OwedUpTo(until)
      /\ own \in MissedCursors(until) /\ both \in MissedCursors(until)
      /\ u.at = j /\ u.fires = both.fires /\ u.truncated = both.truncated
  BY MissedTurnIs
<1>4. /\ owed \subseteq Int /\ IsFiniteSet(owed)
      /\ \A k : k \in owed <=> k \in Int /\ after < k /\ k <= until /\ IsOwed(k)
  BY OwedIs
<1>5. Collected(own, D, owed, cap)
  <2>1. CASE m
    <3> DEFINE P == Passed(after, until, i)
    <3>1. P = {k \in owed : k < i}
      BY <1>1, <1>4, <2>1 DEF Passed
    <3>2. i \in owed \ P
      BY <1>1, <1>3, <1>4, <2>1, <3>1 DEF OwedUpTo
    <3>3. D = P \cup {i}
      BY <1>1, <1>4, <3>1, <3>2
    <3>4. \A a \in P, b \in owed \ P : b # i => a < b
      BY <1>1, <1>4, <3>1
    <3>5. \A a \in P, b \in owed \ P : a < b
      BY <1>1, <1>4, <3>1
    <3>6. P \in SUBSET owed
      BY <3>1
    <3>7. Collected(w, P, owed, cap)
      BY DEF MissedSound
    <3>8. own = Pushed(w, i, cap) /\ i \in OwedUpTo(until)
      BY <1>3, <2>1
    <3> HIDE DEF P, owed, own, D
    <3> QED
      BY <1>4, <3>2, <3>3, <3>5, <3>6, <3>7, <3>8, PushedCollects
  <2>2. CASE ~m
    <3>1. Passed(after, until, i) = D
      BY <1>1, <1>4, <2>2 DEF Passed
    <3>2. Collected(w, Passed(after, until, i), owed, cap)
      BY DEF MissedSound
    <3> QED
      BY <2>2, <3>1, <3>2
  <2> QED
    BY <2>1, <2>2
<1>6. Passed(after, until, j) = IF s /\ j <= until THEN D \cup {j} ELSE D
  <2> HIDE DEF owed, s, i, j
  <2>1. \A k \in owed : k < j <=> k <= i
    BY <1>1, <1>2, <1>4
  <2>2. j \in owed /\ ~Matches(Fields, Label(zone, j)) <=> s /\ j <= until
    BY <1>1, <1>2, <1>4
  <2>3. Passed(after, until, j) = {k \in owed : k <= i \/ (k = j /\ s /\ j <= until)}
    BY <2>1, <2>2 DEF Passed, owed
  <2> QED
    BY <2>2, <2>3
<1>7. Collected(both, Passed(after, until, j), owed, cap)
  <2>1. CASE own.truncated
    <3>1. both = own
      BY <2>1
    <3> HIDE DEF own, both
    <3> QED
      BY <1>5, <2>1, <3>1 DEF Collected
  <2>2. CASE ~own.truncated /\ ~(s /\ j <= until)
    <3>1. both = own
      BY <2>2
    <3> QED
      BY <1>5, <1>6, <2>2, <3>1
  <2>3. CASE ~own.truncated /\ s /\ j <= until
    <3>1. both = Pushed(own, j, cap) /\ j \in OwedUpTo(until)
      BY <1>3, <2>3
    <3>2. j \in owed \ D
      BY <1>1, <1>2, <1>4, <2>3
    <3>3. \A a \in D, b \in owed \ D : a < b
      BY <1>1, <1>4
    <3>4. D \in SUBSET owed
      OBVIOUS
    <3> HIDE DEF D, owed, own, both, j, i, s
    <3>5. Collected(Pushed(own, j, cap), D \cup {j}, owed, cap)
      BY <1>3, <1>4, <1>5, <2>3, <3>1, <3>2, <3>3, <3>4, PushedCollects
    <3> QED
      BY <1>6, <2>3, <3>1, <3>5
  <2> QED
    BY <2>1, <2>2, <2>3
<1> HIDE DEF both, u, owed, D
<1>8. Collected(u, Passed(after, until, j), owed, cap)
  BY <1>3, <1>7 DEF Collected
<1>9. u.at > after
  BY <1>1, <1>2, <1>3
<1> QED
  BY <1>1, <1>2, <1>3, <1>8, <1>9 DEF MissedSound, u, owed

\* From an ordinary minute, missedFires finds the oldest fires owed, as many as it may,
\* and says whether it left some over.
LEMMA MissedFiresAre ==
    ASSUME Living, NEW after \in Int, NEW until \in Int, NEW cap \in Nat, ~Jumps(after), ~Repeated(after)
    PROVE  LET owed == Owed(after, until)
               missed == MissedFires(zone, Fields, after, until, cap)
           IN /\ Range(missed.fires) = {i \in owed : Cardinality({j \in owed : j < i}) < cap}
              /\ Len(missed.fires) <= Cardinality(owed)
              /\ missed.truncated = (Cardinality(owed) > cap)
<1> DEFINE W == MissedWalk(zone, Fields, after, until, cap)
           owed == Owed(after, until)
           first == First(zone, after)
           G == {n \in Nat : /\ MissedSound(after, until, cap, W[n])
                             /\ W[n].truncated \/ W[n].at > until \/ W[n].at >= first + n}
<1>1. /\ W \in [Nat -> MissedCursors(until)]
      /\ W[0] = [at |-> first, fires |-> << >>, truncated |-> FALSE]
      /\ \A n \in Nat : W[n+1] = MissedTurn(zone, Fields, until, cap, W[n])
  BY MissedWalkIs
<1>2. /\ owed \subseteq Int /\ IsFiniteSet(owed)
      /\ \A k : k \in owed <=> k \in Int /\ after < k /\ k <= until /\ IsOwed(k)
  BY OwedIs
<1>3. /\ first \in Int /\ first > after
      /\ \A k \in after + 1 .. first - 1 : ~IsOwed(k)
      /\ IsOwed(first) => Matches(Fields, Label(zone, first))
  BY FirstIs, OwedStep DEF Jumps
<1> HIDE DEF first
<1>4. 0 \in G
  <2>1. W[0].at = first /\ W[0].fires = << >> /\ ~W[0].truncated
    BY <1>1
  <2>2. Passed(after, until, first) = {}
    BY <1>2, <1>3 DEF Passed
  <2>3. Range(<< >>) = {} /\ Len(<< >>) = 0
    BY DEF Range
  <2>4. Cardinality({}) = 0
    BY FS_EmptySet
  <2> HIDE DEF W, owed
  <2>5. Collected(W[0], {}, owed, cap)
    BY <2>1, <2>3, <2>4 DEF Collected
  <2>6. MissedSound(after, until, cap, W[0])
    BY <1>3, <2>1, <2>2, <2>5 DEF MissedSound, owed
  <2> QED
    BY <1>3, <2>1, <2>6
<1>5. ASSUME NEW n \in Nat, n \in G PROVE n + 1 \in G
  <2>1. W[n] \in MissedCursors(until) /\ W[n+1] \in MissedCursors(until)
    BY <1>1
  <2>2. W[n+1] = MissedTurn(zone, Fields, until, cap, W[n])
    BY <1>1
  <2>3. /\ MissedSound(after, until, cap, W[n])
        /\ W[n].truncated \/ W[n].at > until \/ W[n].at >= first + n
    BY <1>5
  <2> HIDE DEF W
  <2>4. W[n].at \in Int /\ W[n+1].at \in Int
    BY <2>1 DEF MissedCursors
  <2>5. CASE W[n].truncated \/ W[n].at > until
    <3>1. W[n+1] = W[n]
      BY <2>2, <2>5 DEF MissedTurn
    <3> QED
      BY <2>3, <2>5, <3>1
  <2>6. CASE ~(W[n].truncated \/ W[n].at > until)
    <3>1. W[n].at <= until /\ ~W[n].truncated
      BY <2>4, <2>6
    <3>2. MissedSound(after, until, cap, W[n+1]) /\ W[n+1].at > W[n].at
      BY <2>1, <2>2, <2>3, <3>1, MissedTurnSound
    <3>3. W[n+1].at >= first + (n + 1)
      BY <1>3, <2>3, <2>4, <2>6, <3>2
    <3> QED
      BY <3>2, <3>3
  <2> QED
    BY <2>5, <2>6
<1> HIDE DEF G
<1> DEFINE left == until - first + 1
           last == IF left > 0 THEN left ELSE 0
           w == W[last]
<1>6. last \in Nat /\ first + last > until
  BY <1>3
<1>7. last \in G
  <2> HIDE DEF last
  <2> QED
    BY <1>4, <1>5, <1>6, Inductive
<1>8. MissedFires(zone, Fields, after, until, cap) = w
  BY DEF MissedFires, first
<1> HIDE DEF last
<1>9. w \in MissedCursors(until)
  BY <1>1, <1>6
<1>10. MissedSound(after, until, cap, w) /\ (w.truncated \/ w.at > until \/ w.at >= first + last)
  BY <1>7 DEF G
<1> HIDE DEF w, W
<1>11. w.at \in Int /\ w.truncated \in BOOLEAN
  BY <1>9 DEF MissedCursors
<1>12. Collected(w, Passed(after, until, w.at), owed, cap)
  BY <1>10 DEF MissedSound
<1>13. w.at > until => Passed(after, until, w.at) = owed
  BY <1>2, <1>11 DEF Passed
<1> HIDE DEF owed
<1>14. PICK F \in SUBSET owed :
          /\ \A a \in F, b \in owed \ F : a < b
          /\ Cardinality(F) <= cap /\ (F # owed => Cardinality(F) = cap)
          /\ Range(w.fires) = F /\ Len(w.fires) = Cardinality(F)
          /\ w.truncated <=> F # owed
  <2>1. CASE w.truncated
    BY <1>12, <2>1 DEF Collected
  <2>2. CASE ~w.truncated
    <3>1. w.at > until
      BY <1>3, <1>6, <1>10, <1>11, <2>2
    <3>2. Range(w.fires) = owed /\ Len(w.fires) = Cardinality(owed) /\ Cardinality(owed) <= cap
      BY <1>12, <1>13, <2>2, <3>1 DEF Collected
    <3> QED
      BY <2>2, <3>2
  <2> QED
    BY <2>1, <2>2
<1>15. /\ F = {i \in owed : Cardinality({j \in owed : j < i}) < cap}
       /\ Cardinality(F) <= Cardinality(owed)
       /\ Cardinality(owed) > cap <=> F # owed
  <2>1. owed \in SUBSET Int /\ IsFiniteSet(owed)
    BY <1>2
  <2>2. /\ \A a \in F, b \in owed \ F : a < b
        /\ Cardinality(F) <= cap /\ (F # owed => Cardinality(F) = cap)
    BY <1>14
  <2> QED
    BY <2>1, <2>2, OldestAre
<1>16. /\ Range(w.fires) = {i \in owed : Cardinality({j \in owed : j < i}) < cap}
       /\ Len(w.fires) <= Cardinality(owed)
       /\ w.truncated = (Cardinality(owed) > cap)
  BY <1>11, <1>14, <1>15
<1> QED
  BY <1>8, <1>16 DEF owed

-----------------------------------------------------------------------------
(* The schedule over time.                                                 *)

\* Where the agent lives and what it runs do not change, and what is recorded was owed.
HInv == Living /\ now \in Nat /\ rows \subseteq OwedUpTo(now)

\* The greater of two numbers.
LEMMA MaximumIs ==
    ASSUME NEW a \in Int, NEW b \in Int
    PROVE  Greatest({a, b}) \in {a, b} /\ Greatest({a, b}) >= a /\ Greatest({a, b}) >= b
<1>1. CASE a <= b
  <2>1. {a, b} \subseteq Int /\ {a, b} # {} /\ \A x \in {a, b} : x <= b
    BY <1>1
  <2> QED
    BY <2>1, GreatestIs
<1>2. CASE b <= a
  <2>1. {a, b} \subseteq Int /\ {a, b} # {} /\ \A x \in {a, b} : x <= a
    BY <1>2
  <2> QED
    BY <2>1, GreatestIs
<1> QED
  BY <1>1, <1>2

\* A replay begins at the last record or later.
LEMMA ReplayFromIs ==
    ASSUME HInv, rows # {}, NEW at \in Int
    PROVE  /\ Greatest(rows) \in rows /\ \A i \in rows : i <= Greatest(rows)
           /\ ReplayFrom(at) \in Int /\ ReplayFrom(at) >= Greatest(rows) /\ ReplayFrom(at) >= at - Window
<1>1. now \in Int /\ rows \subseteq Int /\ \A i \in rows : i <= now
  BY DEF HInv, OwedUpTo
<1>2. Greatest(rows) \in rows /\ \A i \in rows : Greatest(rows) >= i
  BY <1>1, GreatestIs
<1>3. PICK g \in Int : g = Greatest(rows)
  BY <1>1, <1>2
<1>4. at - Window \in Int
  BY HistoryAssumption
<1>5. PICK e \in Int : e = at - Window
  BY <1>4
<1>6. ReplayFrom(at) = Greatest({g, e})
  BY <1>3, <1>5 DEF ReplayFrom
<1>7. Greatest({g, e}) \in Int /\ Greatest({g, e}) >= g /\ Greatest({g, e}) >= e
  BY MaximumIs
<1>8. \A i \in rows : i <= g
  BY <1>1, <1>2, <1>3
<1> QED
  BY <1>2, <1>3, <1>5, <1>6, <1>7, <1>8

\* Whatever minute a replay begins from, it replays fires that are owed.
LEMMA ReplayedIsOwed ==
    ASSUME HInv, NEW at \in Int
    PROVE  Replay(at) \subseteq OwedUpTo(at - 1)
<1>1. CASE caughtUp \/ rows = {}
  BY <1>1 DEF Replay
<1>2. CASE ~(caughtUp \/ rows = {})
  <2>1. PICK after \in Int : after = ReplayFrom(at)
    BY <1>2, ReplayFromIs
  <2>2. at - 1 \in Int /\ Limit \in Nat /\ Living
    BY HistoryAssumption DEF HInv
  <2> DEFINE W == MissedWalk(zone, Fields, after, at - 1, Limit)
             left == at - 1 - First(zone, after) + 1
             last == IF left > 0 THEN left ELSE 0
  <2>3. last \in Nat
    BY <2>1, <2>2, FirstIs
  <2>4. W \in [Nat -> MissedCursors(at - 1)]
    BY <2>2, MissedWalkIs
  <2>5. Missed(at) = W[last]
    BY <2>1 DEF Missed, MissedFires
  <2> HIDE DEF W, last
  <2>6. W[last].fires \in Seq(OwedUpTo(at - 1))
    BY <2>3, <2>4 DEF MissedCursors
  <2>7. Range(W[last].fires) \subseteq OwedUpTo(at - 1)
    BY <2>6 DEF Range
  <2> QED
    BY <1>2, <2>5, <2>7 DEF Replay
<1> QED
  BY <1>1, <1>2

\* eve fires only what is owed.
LEMMA FiresWhatIsOwed ==
    ASSUME Living, NEW i \in Int, Fires(i)
    PROVE  IsOwed(i)
<1>1. Label(zone, i) \in Int
  BY LivingIs, LabelIs
<1>2. CASE Matches(Fields, Label(zone, i)) /\ ~Repeated(i)
  BY <1>1, <1>2, LivingIs DEF IsOwed
<1>3. CASE Swallowed(zone, Fields, i - 1, i)
  <2>1. /\ OffsetOf(zone, i) > OffsetOf(zone, i - 1)
        /\ ~Matches(Fields, Label(zone, i))
        /\ \E l \in Label(zone, i - 1) + 1 .. Label(zone, i) - 1 : Matches(Fields, l)
    BY <1>3 DEF Swallowed
  <2>2. OwesErased(i)
    BY <2>1, OwedJump
  <2> QED
    BY <2>2 DEF IsOwed
<1> QED
  BY <1>2, <1>3 DEF Fires

\* What is owed does not change over time.
LEMMA OwedStays ==
    ASSUME zone' = zone, cron' = cron, NEW i
    PROVE  IsOwed(i)' <=> IsOwed(i)
<1>1. \A l : AskedFor(l)' <=> AskedFor(l)
  BY DEF AskedFor
<1>2. Repeated(i)' <=> Repeated(i)
  BY DEF Repeated
<1>3. Erased(i)' = Erased(i)
  BY <1>1 DEF Erased
<1> QED
  BY <1>1, <1>2, <1>3 DEF IsOwed, OwesErased

\* The invariant holds from the start and every step keeps it.
LEMMA HistoryInductive ==
    Spec => []HInv
<1>1. Init => HInv
  BY HistoryAssumption DEF Init, HInv, Living
<1>2. HInv /\ [Next]_vars => HInv'
  <2> SUFFICES ASSUME HInv, [Next]_vars PROVE HInv'
    OBVIOUS
  <2>1. ASSUME zone' = zone, cron' = cron, now' \in Nat, now' >= now, NEW S,
               S \subseteq OwedUpTo(now'), rows' = rows \cup S
        PROVE  HInv'
    <3>1. Living'
      BY <2>1 DEF HInv, Living
    <3>2. rows' \subseteq OwedUpTo(now)'
      <4> SUFFICES ASSUME NEW i \in rows' PROVE i \in Int /\ i <= now' /\ IsOwed(i)'
        BY DEF OwedUpTo
      <4>1. i \in Int /\ i <= now' /\ IsOwed(i)
        BY <2>1 DEF HInv, OwedUpTo
      <4> QED
        BY <2>1, <4>1, OwedStays
    <3> QED
      BY <2>1, <3>1, <3>2 DEF HInv
  <2>2. CASE Minute
    <3> DEFINE S == IF up /\ Fires(now + 1) THEN Replay(now + 1) \cup {now + 1} ELSE {}
    <3>1. now + 1 \in Int /\ Living /\ (now + 1) - 1 = now
      BY DEF HInv
    <3>2. Replay(now + 1) \subseteq OwedUpTo(now)
      BY <3>1, ReplayedIsOwed
    <3>3. OwedUpTo(now) \subseteq OwedUpTo(now + 1)
      BY DEF HInv, OwedUpTo
    <3>4. Fires(now + 1) => now + 1 \in OwedUpTo(now + 1)
      BY <3>1, FiresWhatIsOwed DEF OwedUpTo
    <3>5. S \subseteq OwedUpTo(now + 1)
      BY <3>2, <3>3, <3>4
    <3>6. zone' = zone /\ cron' = cron /\ now' = now + 1 /\ rows' = rows \cup S
      BY <2>2 DEF Minute
    <3>7. now' \in Nat /\ now' >= now
      BY <3>6 DEF HInv
    <3> HIDE DEF S
    <3> QED
      BY <2>1, <3>5, <3>6, <3>7
  <2>3. CASE Stop \/ Start \/ UNCHANGED vars
    <3>1. zone' = zone /\ cron' = cron /\ now' = now /\ rows' = rows \cup {}
      BY <2>3 DEF Stop, Start, vars
    <3> DEFINE S == {}
    <3>2. now' \in Nat /\ now' >= now /\ S \subseteq OwedUpTo(now') /\ rows' = rows \cup S
      BY <3>1 DEF HInv
    <3> HIDE DEF S
    <3> QED
      BY <2>1, <3>1, <3>2
  <2> QED
    BY <2>2, <2>3 DEF Next
<1> QED
  BY <1>1, <1>2, PTL DEF Spec

\* In every such state the walks of the runner find what is owed.
LEMMA RunnerIsRight ==
    ASSUME HInv
    PROVE  RunnerFiresWhatIsOwed
<1>1. Living /\ now \in Int /\ now - 1 \in Int /\ Limit \in Nat
  BY HistoryAssumption DEF HInv
<1>2. ASSUME rows # {}, ~Jumps(ReplayFrom(now)), ~Repeated(ReplayFrom(now))
      PROVE  LET owed == Owed(ReplayFrom(now), now - 1)
             IN /\ Range(Missed(now).fires) = {i \in owed : Cardinality({j \in owed : j < i}) < Limit}
                /\ Len(Missed(now).fires) <= Cardinality(owed)
                /\ Missed(now).truncated = (Cardinality(owed) > Limit)
  <2>1. PICK from \in Int : from = ReplayFrom(now)
    BY <1>1, <1>2, ReplayFromIs
  <2>2. Missed(now) = MissedFires(zone, Fields, from, now - 1, Limit)
    BY <2>1 DEF Missed
  <2>3. ~Jumps(from) /\ ~Repeated(from)
    BY <1>2, <2>1
  <2> DEFINE until == now - 1
             owed == Owed(from, until)
             missed == MissedFires(zone, Fields, from, until, Limit)
  <2>4. until \in Int
    BY <1>1
  <2> HIDE DEF until
  <2>5. /\ Range(missed.fires) = {i \in owed : Cardinality({j \in owed : j < i}) < Limit}
        /\ Len(missed.fires) <= Cardinality(owed)
        /\ missed.truncated = (Cardinality(owed) > Limit)
    BY <1>1, <2>3, <2>4, MissedFiresAre
  <2> QED
    BY <2>1, <2>2, <2>5 DEF until
<1>3. ASSUME ~Jumps(now), ~Repeated(now)
      PROVE  LET next == NextFire(zone, Fields, now)
             IN IF next = None THEN Owed(now, now + WalkLimit) = {}
                ELSE next > now /\ IsOwed(next) /\ Owed(now, next - 1) = {}
  <2> DEFINE next == NextFire(zone, Fields, now)
  <2>1. IF next = None THEN \A k \in now + 1 .. now + WalkLimit : ~IsOwed(k)
        ELSE next \in Int /\ next > now /\ IsOwed(next) /\ \A k \in now + 1 .. next - 1 : ~IsOwed(k)
    BY <1>1, <1>3, NextFireIs
  <2> HIDE DEF next
  <2> QED
    BY <2>1 DEF Owed, next
<1> QED
  BY <1>2, <1>3 DEF RunnerFiresWhatIsOwed

\* Whatever the zone, the expression and the history, a catch-up replays the oldest of the
\* fires that are owed and the next fire is the first one owed (replayMissed of runner.ts,
\* missedFires and nextFire of cron.ts).
THEOREM CatchUpFindsWhatIsOwed ==
    Spec => []RunnerFiresWhatIsOwed
BY HistoryInductive, RunnerIsRight, PTL

-----------------------------------------------------------------------------
(* nextInZone.                                                             *)

\* The first reading that matches at an offset, ...
LEMMA AtOffsetIs ==
    ASSUME NEW f, NEW from \in Int, NEW offset \in Int
    PROVE  LET at == NextAtOffset(f, from, offset)
           IN at # None => /\ at \in Int /\ at > from /\ at <= from + WalkLimit
                           /\ Matches(f, at + offset)
                           /\ \A k \in from + 1 .. at - 1 : ~Matches(f, k + offset)
<1> DEFINE start == from + offset + 1
           end == start + WalkLimit - 1
           S == {l \in start .. end : Matches(f, l)}
           at == NextAtOffset(f, from, offset)
           first(l) == Matches(f, l) /\ \A k \in start .. l - 1 : ~Matches(f, k)
           none == \A l \in start .. end : ~Matches(f, l)
           chosen == CHOOSE l \in start .. end : first(l)
<1>1. start \in Int /\ end \in Int
  BY WalkAssumption
<1>2. at = IF none THEN None ELSE chosen - offset
  BY DEF NextAtOffset
<1>3. CASE none
  BY <1>2, <1>3
<1>4. CASE ~none
  <2>1. S \subseteq Int /\ S # {} /\ \A l \in S : start <= l
    BY <1>1, <1>4
  <2> HIDE DEF S
  <2>2. PICK l \in S : \A k \in S : l <= k
    BY <1>1, <2>1, LeastIs
  <2>3. l \in start .. end /\ first(l)
    <3>1. l \in start .. end /\ Matches(f, l)
      BY <2>2 DEF S
    <3>2. ASSUME NEW k \in start .. l - 1, Matches(f, k) PROVE FALSE
      <4>1. k \in S
        BY <1>1, <3>1, <3>2 DEF S
      <4> QED
        BY <1>1, <2>2, <3>1, <4>1
    <3> QED
      BY <3>1, <3>2
  <2> HIDE DEF first
  <2>4. chosen \in start .. end /\ first(chosen)
    BY <2>3, Zenon
  <2> HIDE DEF chosen
  <2>5. chosen \in Int /\ chosen >= start /\ chosen <= end
    BY <1>1, <2>4
  <2>6. at = chosen - offset
    BY <1>2, <1>4
  <2> HIDE DEF at
  <2>7. at \in Int /\ at > from /\ at <= from + WalkLimit /\ at + offset = chosen
    BY <2>5, <2>6, WalkAssumption DEF start, end
  <2>8. \A k \in from + 1 .. at - 1 : k + offset \in start .. chosen - 1
    BY <1>1, <2>5, <2>7 DEF start
  <2>9. Matches(f, at + offset) /\ \A k \in from + 1 .. at - 1 : ~Matches(f, k + offset)
    BY <2>4, <2>7, <2>8 DEF first
  <2> QED
    BY <2>7, <2>9 DEF at
<1> QED
  BY <1>3, <1>4

\* ... and the first change of the clock.
LEMMA ChangeIs ==
    ASSUME NEW z, NEW from \in Int, NEW to \in Int
    PROVE  LET change == FirstOffsetChange(z, from, to)
           IN /\ change = None => \A i \in from + 1 .. to : OffsetOf(z, i) = OffsetOf(z, from)
              /\ change # None => /\ change \in from + 1 .. to
                                  /\ OffsetOf(z, change) # OffsetOf(z, from)
                                  /\ \A i \in from + 1 .. change - 1 : OffsetOf(z, i) = OffsetOf(z, from)
<1> DEFINE S == {i \in from + 1 .. to : OffsetOf(z, i) # OffsetOf(z, from)}
           change == FirstOffsetChange(z, from, to)
<1>1. change = IF S = {} THEN None ELSE Least(S)
  BY DEF FirstOffsetChange
<1>2. CASE S = {}
  <2>1. change = None /\ \A i \in from + 1 .. to : OffsetOf(z, i) = OffsetOf(z, from)
    BY <1>1, <1>2
  <2> QED
    BY <2>1
<1>3. CASE S # {}
  <2>1. S \subseteq Int /\ from \in Int /\ \A i \in S : from <= i
    OBVIOUS
  <2> HIDE DEF S
  <2>2. Least(S) \in S /\ \A i \in S : Least(S) <= i
    BY <1>3, <2>1, LeastIs
  <2>3. change \in S /\ \A i \in S : change <= i
    BY <1>1, <1>3, <2>2
  <2> HIDE DEF change
  <2>4. change \in Int /\ change \in from + 1 .. to /\ OffsetOf(z, change) # OffsetOf(z, from)
    BY <2>3 DEF S
  <2>5. ASSUME NEW i \in from + 1 .. change - 1 PROVE OffsetOf(z, i) = OffsetOf(z, from)
    <3>1. i \in from + 1 .. to /\ ~(change <= i)
      BY <2>4
    <3> QED
      BY <2>3, <3>1 DEF S
  <2>6. change # None
    BY <2>4, CalendarAssumption
  <2> QED
    BY <2>4, <2>5, <2>6 DEF change
<1> QED
  BY <1>2, <1>3

\* While the clock does not change, a reading that is no repetition is followed by none.
LEMMA SecondEnds ==
    ASSUME NEW z, IsZone(z), NEW c \in Int, NEW a \in Int, c <= a, ~Second(z, c),
           \A i \in c .. a : OffsetOf(z, i) = OffsetOf(z, c)
    PROVE  ~Second(z, a)
<1> SUFFICES ASSUME Second(z, a) PROVE FALSE
  OBVIOUS
<1> DEFINE s == Segment(z, a)
<1>1. /\ Len(z) \in Nat
      /\ \A k \in 1 .. Len(z) : z[k].from \in Int /\ z[k].offset \in Int
  BY ZoneIs
<1>2. /\ s \in 1 .. Len(z) /\ (s = 1 \/ z[s].from <= a)
      /\ \A k \in 2 .. Len(z) : k > s => a < z[k].from
  BY SegmentIs
<1>3. s # 1 /\ a < z[s].from + (z[s-1].offset - z[s].offset)
  BY SecondIs
<1> HIDE DEF s
<1>4. s \in Int /\ s >= 2 /\ s - 1 \in 1 .. Len(z)
  BY <1>1, <1>2, <1>3
<1>5. PICK t \in Int : t = z[s].from
  BY <1>1, <1>2
<1>6. PICK o \in Int : o = z[s].offset
  BY <1>1, <1>2
<1>7. PICK p \in Int : p = z[s-1].offset
  BY <1>1, <1>4
<1>8. t <= a /\ a < t + (p - o)
  BY <1>2, <1>3, <1>5, <1>6, <1>7
<1>9. OffsetOf(z, a) = o
  BY <1>6 DEF OffsetOf, s
<1>10. CASE t <= c
  <2>1. s = Len(z) \/ c < z[s+1].from
    <3>1. CASE s # Len(z)
      <4>1. s + 1 \in 2 .. Len(z) /\ s + 1 > s
        BY <1>1, <1>2, <1>4, <3>1
      <4>2. PICK n \in Int : n = z[s+1].from
        BY <1>1, <4>1
      <4>3. a < n
        BY <1>2, <4>1, <4>2
      <4> QED
        BY <4>2, <4>3
    <3> QED
      BY <3>1
  <2>2. z[s].from <= c
    BY <1>5, <1>10
  <2>3. Segment(z, c) = s
    BY <1>2, <2>1, <2>2, SegmentUnique
  <2>4. c < t + (p - o)
    BY <1>8
  <2>5. Second(z, c)
    BY <1>3, <1>5, <1>6, <1>7, <2>3, <2>4, SecondIs
  <2> QED
    BY <2>5
<1>11. CASE t > c
  <2> DEFINE b == t - 1
  <2>1. b \in Int /\ b \in c .. a /\ b < t
    BY <1>8, <1>11
  <2>2. s - 1 = 1 \/ z[s-1].from <= b
    <3>1. CASE s - 1 # 1
      <4>1. s - 1 \in 2 .. Len(z) /\ s \in 2 .. Len(z) /\ s - 1 < s
        BY <1>2, <1>4, <3>1
      <4>2. z[s-1].from < z[s].from
        BY <4>1, ZoneIs
      <4>3. PICK n \in Int : n = z[s-1].from
        BY <1>1, <1>4
      <4> QED
        BY <1>5, <4>2, <4>3
    <3> QED
      BY <3>1
  <2>3. b < z[(s-1)+1].from
    BY <1>4, <1>5, <2>1
  <2> HIDE DEF b
  <2>4. Segment(z, b) = s - 1
    BY <1>4, <2>1, <2>2, <2>3, SegmentUnique
  <2>5. OffsetOf(z, b) = p
    BY <1>7, <2>4 DEF OffsetOf
  <2>6. a \in c .. a
    OBVIOUS
  <2>7. p = o
    BY <1>9, <2>1, <2>5, <2>6
  <2> QED
    BY <1>8, <2>7
<1> QED
  BY <1>10, <1>11

\* While it does not change, a minute is owed for its reading at that offset.
LEMMA OwedRun ==
    ASSUME Living, NEW c \in Int, NEW d \in Int, NEW o \in Int,
           \A i \in c .. d : OffsetOf(zone, i) = o
    PROVE  \A k \in c + 1 .. d : IsOwed(k) <=> Matches(Fields, k + o) /\ ~Repeated(k)
<1> TAKE k \in c + 1 .. d
<1>1. k \in Int /\ k - 1 \in c .. d /\ k \in c .. d
  OBVIOUS
<1>2. OffsetOf(zone, k) = o /\ OffsetOf(zone, k - 1) = o
  BY <1>1
<1>3. OffsetOf(zone, k) <= OffsetOf(zone, k - 1)
  BY <1>2
<1>4. Label(zone, k) = k + o
  BY <1>2 DEF Label
<1> QED
  BY <1>1, <1>3, <1>4, OwedCalm

HopCursors == [cursor : Int, done : BOOLEAN, at : Int \cup {None}]

\* The fires the page may not pass over, and that it has passed over none up to i.
Due(k) == IsOwed(k) /\ ~BehindASpentReading(k)
Clear(i) == \A k \in now + 1 .. i : ~Due(k)

\* The reading the next hop looks at is no repetition, unless the clock changes before it.
Ordinary(c) ==
    LET at == NextAtOffset(Fields, c, OffsetOf(zone, c))
    IN at # None /\ (\A i \in c .. at : OffsetOf(zone, i) = OffsetOf(zone, c)) => ~Repeated(at)

HopSound(limit, w) ==
    /\ ~w.done => w.cursor >= now /\ w.at = None /\ Ordinary(w.cursor) /\ Clear(w.cursor)
    /\ w.done /\ w.at # None => w.at > now /\ w.at <= limit /\ IsOwed(w.at) /\ Clear(w.at - 1)

\* Where the clock has not changed twice, a minute that is no repetition leads to none.
LEMMA OrdinaryIs ==
    ASSUME Living, NEW c \in Int, ~Repeated(c)
    PROVE  Ordinary(c)
<1> DEFINE at == NextAtOffset(Fields, c, OffsetOf(zone, c))
<1>1. SUFFICES ASSUME at # None, \A i \in c .. at : OffsetOf(zone, i) = OffsetOf(zone, c)
               PROVE  ~Repeated(at)
  BY DEF Ordinary
<1>2. IsZone(zone) /\ OffsetOf(zone, c) \in Int /\ ~Second(zone, c)
  BY LivingIs, LabelIs
<1>3. at \in Int /\ at > c
  BY <1>1, <1>2, AtOffsetIs
<1> HIDE DEF at
<1>4. ~Second(zone, at)
  BY <1>1, <1>2, <1>3, SecondEnds
<1> QED
  BY <1>4, LivingIs

\* Nor does one of a repeated hour in which nothing asked for comes again.
LEMMA StartIs ==
    ASSUME Living, now \in Int, ~ComesAgain(now)
    PROVE  Ordinary(now)
<1>1. PICK o \in Int : o = OffsetOf(zone, now)
  BY LivingIs, LabelIs
<1> DEFINE at == NextAtOffset(Fields, now, o)
<1>2. SUFFICES ASSUME at # None, \A i \in now .. at : OffsetOf(zone, i) = o, Repeated(at)
               PROVE  FALSE
  BY <1>1 DEF Ordinary
<1>3. at \in Int /\ at > now /\ at <= now + WalkLimit /\ Matches(Fields, at + o)
  BY <1>2, AtOffsetIs
<1> HIDE DEF at
<1>4. ASSUME NEW j \in now .. at, ~Repeated(j) PROVE FALSE
  <2>1. j \in Int /\ j <= at /\ ~Second(zone, j) /\ OffsetOf(zone, j) = o
    BY <1>2, <1>4, LivingIs
  <2>2. \A i \in j .. at : OffsetOf(zone, i) = OffsetOf(zone, j)
    BY <1>2, <1>4, <2>1
  <2>3. ~Second(zone, at)
    BY <1>3, <2>1, <2>2, LivingIs, SecondEnds
  <2> QED
    BY <1>2, <2>3, LivingIs
<1>5. Label(zone, at) = at + o /\ at + o \in Int
  BY <1>2, <1>3 DEF Label
<1>6. AskedFor(Label(zone, at))
  BY <1>3, <1>5, LivingIs
<1>7. at \in now + 1 .. now + WalkLimit
  BY <1>3, WalkAssumption
<1> QED
  BY <1>4, <1>6, <1>7 DEF ComesAgain

\* The clock goes forward at a change: the hop answers it, or goes on from it.
LEMMA HopForward ==
    ASSUME Living, now \in Int, NEW c \in Int, NEW change \in Int, c < change, c >= now,
           \A i \in c .. change - 1 : OffsetOf(zone, i) = OffsetOf(zone, c),
           OffsetOf(zone, change) > OffsetOf(zone, c),
           Clear(change - 1)
    PROVE  IF FiresAtJump(Fields, change, OffsetOf(zone, c), OffsetOf(zone, change)) THEN IsOwed(change)
           ELSE Ordinary(change) /\ Clear(change)
<1>1. PICK o \in Int : o = OffsetOf(zone, c)
  BY LivingIs, LabelIs
<1>2. PICK p \in Int : p = OffsetOf(zone, change)
  BY LivingIs, LabelIs
<1>3. change - 1 \in c .. change - 1
  OBVIOUS
<1>4. OffsetOf(zone, change - 1) = o
  BY <1>1, <1>3
<1>5. OffsetOf(zone, change) > OffsetOf(zone, change - 1)
  BY <1>1, <1>2, <1>4
<1>6. /\ ~Repeated(change)
      /\ IsOwed(change) <=> \E l \in Label(zone, change - 1) + 1 .. Label(zone, change) : Matches(Fields, l)
  BY <1>5, OwedJump
<1>7. Label(zone, change - 1) + 1 = change + o /\ Label(zone, change) = change + p
  BY <1>2, <1>4 DEF Label
<1>8. IsOwed(change) <=> FiresAtJump(Fields, change, o, p)
  BY <1>6, <1>7 DEF FiresAtJump
<1>9. ASSUME ~IsOwed(change) PROVE Clear(change)
  <2>1. \A k \in now + 1 .. change : k = change \/ k \in now + 1 .. change - 1
    OBVIOUS
  <2> QED
    BY <1>9, <2>1 DEF Clear, Due
<1> QED
  BY <1>1, <1>2, <1>6, <1>8, <1>9, OrdinaryIs

\* It goes back: the hop goes on from the change, or from the end of what is repeated.
LEMMA HopBack ==
    ASSUME Living, now \in Int, NEW c \in Int, NEW change \in Int, c < change, c >= now,
           \A i \in c .. change - 1 : OffsetOf(zone, i) = OffsetOf(zone, c),
           OffsetOf(zone, change) < OffsetOf(zone, c),
           Clear(change - 1)
    PROVE  LET r == ResumeAfter(Fields, change, OffsetOf(zone, c), OffsetOf(zone, change))
           IN r \in Int /\ r >= change /\ Ordinary(r) /\ Clear(r)
<1>1. PICK o \in Int : o = OffsetOf(zone, c)
  BY LivingIs, LabelIs
<1>2. PICK p \in Int : p = OffsetOf(zone, change)
  BY LivingIs, LabelIs
<1>3. PICK i \in Int : i = change - 1
  OBVIOUS
<1>4. i \in c .. change - 1 /\ i + 1 = change
  BY <1>3
<1>5. OffsetOf(zone, i) = o /\ OffsetOf(zone, i + 1) = p /\ p < o
  BY <1>1, <1>2, <1>4
<1>6. PICK end \in Int : end = change + o - p
  OBVIOUS
<1>7. end > change /\ end = i + 1 + (o - p)
  BY <1>4, <1>5, <1>6
<1>8. ASSUME NEW k \in change .. end
      PROVE  OffsetOf(zone, k) = p /\ (Second(zone, k) <=> k < end)
  <2>1. k \in Int /\ i < k /\ k <= i + 1 + (OffsetOf(zone, i) - OffsetOf(zone, i + 1))
    BY <1>4, <1>5, <1>7
  <2> QED
    BY <1>5, <1>7, <2>1, LivingIs, SetBack
<1>9. ASSUME NEW k \in change .. end
      PROVE  IsOwed(k) <=> Matches(Fields, Label(zone, k)) /\ k = end
  <2>1. k - 1 = i \/ k - 1 \in change .. end
    BY <1>4
  <2>2. OffsetOf(zone, k) = p
    BY <1>8
  <2>3. PICK q \in Int : q = OffsetOf(zone, k - 1)
    BY LivingIs, LabelIs
  <2>4. q = o \/ q = p
    BY <1>5, <1>8, <2>1, <2>3
  <2>5. OffsetOf(zone, k) <= OffsetOf(zone, k - 1)
    BY <1>5, <2>2, <2>3, <2>4
  <2>6. Repeated(k) <=> k # end
    BY <1>8, LivingIs
  <2> QED
    BY <2>5, <2>6, OwedCalm
<1>10. ASSUME NEW k \in now + 1 .. end - 1 PROVE ~Due(k)
  <2>1. k \in now + 1 .. change - 1 \/ (k \in change .. end /\ k # end)
    OBVIOUS
  <2> QED
    BY <1>9, <2>1 DEF Due, Clear
<1> DEFINE candidate == NextAtOffset(Fields, change, p)
           r == ResumeAfter(Fields, change, o, p)
<1>11. candidate # None => candidate \in Int /\ candidate > change /\ Matches(Fields, candidate + p)
  BY AtOffsetIs
<1>12. r = IF candidate # None /\ candidate < end THEN end ELSE change
  BY <1>6 DEF ResumeAfter
<1> HIDE DEF candidate, r
<1>13. CASE candidate # None /\ candidate < end
  <2>1. r = end
    BY <1>12, <1>13
  <2>2. Ordinary(end)
    BY <1>7, <1>8, LivingIs, OrdinaryIs
  <2>3. BehindASpentReading(end)
    <3>1. candidate \in change + 1 .. end - 1
      BY <1>11, <1>13
    <3>2. \A j \in candidate - 1 .. end - 1 : Repeated(j)
      BY <1>8, <3>1, LivingIs
    <3>3. Label(zone, candidate) = candidate + p /\ candidate + p \in Int
      BY <1>8, <3>1 DEF Label
    <3>4. AskedFor(Label(zone, candidate))
      BY <1>11, <1>13, <3>3, LivingIs
    <3>5. candidate \in now + 1 .. end - 1
      BY <3>1
    <3> QED
      BY <3>2, <3>4, <3>5 DEF BehindASpentReading
  <2>4. \A k \in now + 1 .. end : k = end \/ k \in now + 1 .. end - 1
    OBVIOUS
  <2>5. Clear(end)
    BY <1>10, <2>3, <2>4 DEF Clear, Due
  <2> QED
    BY <1>1, <1>2, <1>7, <2>1, <2>2, <2>5 DEF r
<1>14. CASE ~(candidate # None /\ candidate < end)
  <2>1. r = change
    BY <1>12, <1>14
  <2>2. \A k \in now + 1 .. change : k \in now + 1 .. end - 1
    BY <1>7
  <2>3. ASSUME candidate # None, \A k \in change .. candidate : OffsetOf(zone, k) = p
        PROVE  ~Repeated(candidate)
    <3>1. candidate \in Int /\ end <= candidate
      BY <1>11, <1>14, <2>3
    <3>2. OffsetOf(zone, end) = p /\ ~Second(zone, end)
      BY <1>7, <1>8
    <3>3. \A k \in end .. candidate : OffsetOf(zone, k) = OffsetOf(zone, end)
      BY <1>7, <2>3, <3>2
    <3>4. ~Second(zone, candidate)
      BY <3>1, <3>2, <3>3, LivingIs, SecondEnds
    <3> QED
      BY <3>4, LivingIs
  <2>4. Ordinary(change)
    BY <1>2, <2>3 DEF Ordinary, candidate
  <2>5. Clear(change)
    BY <1>10, <2>2 DEF Clear
  <2> QED
    BY <1>1, <1>2, <2>1, <2>4, <2>5 DEF r
<1> QED
  BY <1>13, <1>14

HopCursorsOf(limit) == {w \in HopCursors : HopSound(limit, w)}

\* Every hop keeps what it has found true.
LEMMA HopIs ==
    ASSUME Living, now \in Int, NEW limit \in Int, NEW w \in HopCursorsOf(limit)
    PROVE  Hop(zone, Fields, limit, w) \in HopCursorsOf(limit)
<1> DEFINE c == w.cursor
           before == OffsetOf(zone, c)
           at == NextAtOffset(Fields, c, before)
           change == FirstOffsetChange(zone, c, at)
           after == OffsetOf(zone, change)
           answer(i) == [cursor |-> c, done |-> TRUE, at |-> i]
           resume(i) == [cursor |-> i, done |-> FALSE, at |-> None]
           u == Hop(zone, Fields, limit, w)
<1>1. w \in HopCursors /\ HopSound(limit, w)
  BY DEF HopCursorsOf
<1>2. c \in Int /\ w.done \in BOOLEAN /\ w.at \in Int \cup {None}
  BY <1>1 DEF HopCursors
<1>3. before \in Int
  BY <1>2, LivingIs, LabelIs
<1>4. None \notin Int
  BY CalendarAssumption
<1>5. u = IF w.done THEN w
          ELSE IF at = None \/ at > limit THEN answer(None)
          ELSE IF change = None THEN answer(at)
          ELSE IF after < before THEN resume(ResumeAfter(Fields, change, before, after))
          ELSE IF FiresAtJump(Fields, change, before, after) THEN answer(change) ELSE resume(change)
  BY DEF Hop
<1>6. at # None => /\ at \in Int /\ at > c /\ Matches(Fields, at + before)
                   /\ \A k \in c + 1 .. at - 1 : ~Matches(Fields, k + before)
  BY <1>2, <1>3, AtOffsetIs
<1>7. at # None =>
        /\ change = None => \A i \in c + 1 .. at : OffsetOf(zone, i) = before
        /\ change # None => /\ change \in c + 1 .. at /\ after # before
                            /\ \A i \in c + 1 .. change - 1 : OffsetOf(zone, i) = before
  BY <1>2, <1>6, ChangeIs
<1>8. ~w.done => c >= now /\ Ordinary(c) /\ Clear(c)
  BY <1>1 DEF HopSound
<1>9. Ordinary(c) <=> (at # None /\ (\A i \in c .. at : OffsetOf(zone, i) = before) => ~Repeated(at))
  BY DEF Ordinary
<1> HIDE DEF c, before, at, change, after, u
<1>10. ASSUME NEW i \in Int \cup {None}, u = answer(i),
              i # None => i > now /\ i <= limit /\ IsOwed(i) /\ Clear(i - 1)
       PROVE  u \in HopCursorsOf(limit)
  <2>1. u \in HopCursors /\ u.done /\ u.at = i
    BY <1>2, <1>10 DEF HopCursors
  <2> QED
    BY <1>10, <2>1 DEF HopCursorsOf, HopSound
<1>11. ASSUME NEW i \in Int, u = resume(i), i >= now, Ordinary(i), Clear(i)
       PROVE  u \in HopCursorsOf(limit)
  <2>1. u \in HopCursors /\ ~u.done /\ u.cursor = i /\ u.at = None
    BY <1>11 DEF HopCursors
  <2> QED
    BY <1>11, <2>1 DEF HopCursorsOf, HopSound
<1>12. CASE w.done
  BY <1>5, <1>12 DEF u
<1>13. CASE ~w.done /\ (at = None \/ at > limit)
  <2>1. u = answer(None)
    BY <1>5, <1>13
  <2> QED
    BY <1>10, <2>1 DEF u
<1>14. CASE ~w.done /\ ~(at = None \/ at > limit)
  <2>1. /\ at \in Int /\ at > c /\ at <= limit /\ c >= now
        /\ \A k \in c + 1 .. at - 1 : ~Matches(Fields, k + before)
    BY <1>6, <1>8, <1>14
  <2>2. OffsetOf(zone, c) = before
    BY DEF before
  <2>3. ASSUME NEW d \in Int, d <= at, \A i \in c .. d : OffsetOf(zone, i) = before,
               NEW e \in Int, e <= d, e <= at - 1
        PROVE  Clear(e)
    <3> SUFFICES ASSUME NEW k \in now + 1 .. e PROVE ~Due(k)
      BY DEF Clear
    <3>1. CASE k <= c
      <4>1. k \in now + 1 .. c
        BY <1>2, <3>1
      <4> QED
        BY <1>8, <1>14, <4>1 DEF Clear
    <3>2. CASE k > c
      <4>1. k \in c + 1 .. d /\ k \in c + 1 .. at - 1
        BY <1>2, <2>1, <2>3, <3>2
      <4>2. IsOwed(k) <=> Matches(Fields, k + before) /\ ~Repeated(k)
        BY <1>2, <1>3, <2>3, <4>1, OwedRun
      <4> QED
        BY <2>1, <4>1, <4>2 DEF Due
    <3> QED
      BY <1>2, <3>1, <3>2
  <2>4. CASE change = None
    <3>1. u = answer(at)
      BY <1>5, <1>14, <2>4
    <3>2. \A i \in c .. at : OffsetOf(zone, i) = before
      <4>1. \A i \in c .. at : i = c \/ i \in c + 1 .. at
        BY <1>2
      <4> QED
        BY <1>7, <1>14, <2>2, <2>4, <4>1
    <3>3. at > now /\ at \in Int \cup {None}
      BY <1>2, <2>1
    <3>4. Clear(at - 1)
      BY <2>1, <2>3, <3>2
    <3>5. at \in c + 1 .. at /\ Matches(Fields, at + before) /\ ~Repeated(at)
      BY <1>2, <1>6, <1>8, <1>9, <1>14, <2>1, <3>2
    <3>6. IsOwed(at)
      BY <1>2, <1>3, <2>1, <3>2, <3>5, OwedRun
    <3>7. u \in HopCursorsOf(limit)
      BY <1>10, <2>1, <3>1, <3>3, <3>4, <3>6
    <3> QED
      BY <3>7 DEF u
  <2>5. CASE change # None
    <3>1. /\ change \in Int /\ c < change /\ change <= at /\ after # before
          /\ change > now /\ change >= now /\ change <= limit
      BY <1>2, <1>7, <1>14, <2>1, <2>5
    <3>2. \A i \in c .. change - 1 : OffsetOf(zone, i) = before
      <4>1. \A i \in c .. change - 1 : i = c \/ i \in c + 1 .. change - 1
        BY <1>2, <3>1
      <4> QED
        BY <1>7, <1>14, <2>2, <2>5, <4>1
    <3>3. after \in Int
      BY <3>1, LivingIs, LabelIs DEF after
    <3>4. Clear(change - 1)
      <4>1. change - 1 \in Int /\ change - 1 <= at /\ change - 1 <= at - 1
        BY <2>1, <3>1
      <4> QED
        BY <2>3, <3>2, <4>1
    <3>5. after = OffsetOf(zone, change)
      BY DEF after
    <3>6. CASE after < before
      <4> DEFINE r == ResumeAfter(Fields, change, before, after)
      <4>1. u = resume(r)
        BY <1>5, <1>14, <2>5, <3>6
      <4>2. r \in Int /\ r >= change /\ Ordinary(r) /\ Clear(r)
        BY <1>2, <2>1, <2>2, <3>1, <3>2, <3>4, <3>5, <3>6, HopBack
      <4> HIDE DEF r
      <4>3. r >= now
        BY <3>1, <4>2
      <4> QED
        BY <1>11, <4>1, <4>2, <4>3 DEF u
    <3>7. CASE after > before
      <4> DEFINE fires == FiresAtJump(Fields, change, before, after)
      <4>1. /\ fires => u = answer(change)
            /\ ~fires => u = resume(change)
        BY <1>3, <1>5, <1>14, <2>5, <3>3, <3>7
      <4>2. IF fires THEN IsOwed(change) ELSE Ordinary(change) /\ Clear(change)
        BY <1>2, <2>1, <2>2, <3>1, <3>2, <3>4, <3>5, <3>7, HopForward
      <4> HIDE DEF fires
      <4> QED
        BY <1>10, <1>11, <3>1, <3>4, <4>1, <4>2 DEF u
    <3> QED
      BY <1>3, <3>1, <3>3, <3>6, <3>7
  <2> QED
    BY <2>4, <2>5
<1> QED
  BY <1>2, <1>12, <1>13, <1>14

IsHops(w, z, f, from, limit) ==
    w = [n \in Nat |-> IF n = 0 THEN [cursor |-> from, done |-> FALSE, at |-> None]
                       ELSE Hop(z, f, limit, w[n-1])]

\* The loop of nextInZone as a chosen function, for Zenon.
LEMMA HopsUnfold ==
    ASSUME NEW z, NEW f, NEW from, NEW limit
    PROVE  Hops(z, f, from, limit) = (CHOOSE w : IsHops(w, z, f, from, limit))
  BY Zenon DEF Hops, IsHops

\* The loop exists, and all its hops are sound.
LEMMA HopsAre ==
    ASSUME Living, now \in Int, ~ComesAgain(now), NEW limit \in Int
    PROVE  \A n \in Nat : Hops(zone, Fields, now, limit)[n] \in HopCursorsOf(limit)
<1> DEFINE a == [cursor |-> now, done |-> FALSE, at |-> None]
           S == HopCursorsOf(limit)
           step == [w \in S |-> Hop(zone, Fields, limit, w)]
<1>1. a \in S
  <2>1. Ordinary(now)
    BY StartIs
  <2>2. Clear(now)
    BY DEF Clear
  <2>3. a \in HopCursors /\ ~a.done /\ a.cursor = now /\ a.at = None
    BY DEF HopCursors
  <2> HIDE DEF a
  <2> QED
    BY <2>1, <2>2, <2>3 DEF HopCursorsOf, HopSound
<1>2. step \in [S -> S]
  BY HopIs
<1>3. PICK g \in [Nat -> S] : g[0] = a /\ \A n \in Nat \ {0} : g[n] = step[g[n-1]]
  <2> HIDE DEF a, step, S
  <2> QED
    BY <1>1, <1>2, Iteration
<1>4. ASSUME NEW n \in Nat PROVE g[n] = IF n = 0 THEN a ELSE Hop(zone, Fields, limit, g[n-1])
  <2>1. CASE n = 0
    BY <1>3, <2>1
  <2>2. CASE n # 0
    <3>1. n - 1 \in Nat
      BY <2>2
    <3>2. g[n-1] \in S
      BY <3>1
    <3> HIDE DEF S
    <3>3. step[g[n-1]] = Hop(zone, Fields, limit, g[n-1])
      BY <3>2
    <3> HIDE DEF step
    <3> QED
      BY <1>3, <2>2, <3>3
  <2> QED
    BY <2>1, <2>2
<1> DEFINE body(w) == [n \in Nat |-> IF n = 0 THEN a ELSE Hop(zone, Fields, limit, w[n-1])]
           W == Hops(zone, Fields, now, limit)
<1>5. IsHops(g, zone, Fields, now, limit)
  <2>1. g = [n \in Nat |-> g[n]]
    OBVIOUS
  <2>2. g = body(g)
    <3> HIDE DEF a
    <3> QED
      BY <1>4, <2>1
  <2> QED
    BY <2>2, Zenon DEF IsHops
<1>6. IsHops(W, zone, Fields, now, limit)
  BY <1>5, HopsUnfold, Zenon
<1>7. W = body(W)
  BY <1>6, Zenon DEF IsHops
<1> HIDE DEF a, W, S
<1>8. \A n \in Nat : W[n] = IF n = 0 THEN a ELSE Hop(zone, Fields, limit, W[n-1])
  BY <1>7
<1> DEFINE G == {n \in Nat : W[n] \in S}
<1>9. 0 \in G
  BY <1>1, <1>8
<1>10. ASSUME NEW n \in Nat, n \in G PROVE n + 1 \in G
  <2>1. n + 1 \in Nat /\ n + 1 # 0 /\ (n + 1) - 1 = n
    OBVIOUS
  <2>2. W[n+1] = Hop(zone, Fields, limit, W[n])
    BY <1>8, <2>1
  <2> QED
    BY <1>10, <2>2, HopIs DEF S
<1> HIDE DEF G
<1>11. Nat \subseteq G
  BY <1>9, <1>10, Inductive
<1> QED
  BY <1>11 DEF G, S, W

\* What nextInZone finds in the zone of the agent is owed, and nothing due comes before it.
LEMMA NextInZoneIs ==
    ASSUME Living, now \in Int, ~ComesAgain(now),
           NextInZone(zone, Fields, now, now + WalkLimit) # None
    PROVE  LET at == NextInZone(zone, Fields, now, now + WalkLimit)
           IN /\ at \in now + 1 .. now + WalkLimit /\ IsOwed(at)
              /\ \A i \in Owed(now, at - 1) : BehindASpentReading(i)
<1> DEFINE limit == now + WalkLimit
           w == Hops(zone, Fields, now, limit)[MaxHops]
           at == NextInZone(zone, Fields, now, limit)
<1>1. limit \in Int /\ MaxHops \in Nat /\ None \notin Int
  BY WalkAssumption, ZonesAssumption, CalendarAssumption
<1>2. w \in HopCursorsOf(limit)
  <2> HIDE DEF limit
  <2> QED
    BY <1>1, HopsAre
<1>3. at = w.at /\ at # None
  BY DEF NextInZone
<1> HIDE DEF w, at
<1>4. at \in Int
  BY <1>2, <1>3 DEF HopCursorsOf, HopCursors
<1>5. w.done
  <2> SUFFICES ASSUME ~w.done PROVE FALSE
    OBVIOUS
  <2> QED
    BY <1>2, <1>3 DEF HopCursorsOf, HopSound
<1>6. at > now /\ at <= limit /\ IsOwed(at) /\ Clear(at - 1)
  BY <1>2, <1>3, <1>5 DEF HopCursorsOf, HopSound
<1>7. \A i \in Owed(now, at - 1) : BehindASpentReading(i)
  BY <1>6 DEF Owed, Clear, Due
<1>8. at \in now + 1 .. limit
  BY <1>1, <1>4, <1>6
<1> QED
  BY <1>6, <1>7, <1>8 DEF at, limit

\* In every such state the page is right about what it pins: its zones include the agent's own.
LEMMA PageIsRight ==
    ASSUME HInv
    PROVE  PinnedIsTheNextFire
<1> DEFINE limit == now + WalkLimit
           zones == Explaining(Fields, rows)
           page == ProjectNextFire(Fields, rows, now)
<1>1. Living /\ now \in Int
  BY DEF HInv
<1>2. SUFFICES ASSUME page.pinned, ~ComesAgain(now), \A i \in rows : ~Misleads(i)
               PROVE  /\ page.at \in now + 1 .. now + WalkLimit /\ IsOwed(page.at)
                      /\ \A i \in Owed(now, page.at - 1) : BehindASpentReading(i)
  BY DEF PinnedIsTheNextFire
<1>3. zone \in zones
  <2>1. ASSUME NEW i \in rows, ExplainedBack(Fields, rows, i) PROVE Matches(Fields, Label(zone, i))
    <3>1. i \in Int /\ IsOwed(i) /\ ~OwesErased(i)
      BY <1>2, <2>1 DEF HInv, OwedUpTo, Misleads
    <3>2. AskedFor(Label(zone, i)) /\ Label(zone, i) \in Int
      BY <1>1, <3>1, LivingIs, LabelIs DEF IsOwed
    <3> QED
      BY <1>1, <3>2, LivingIs
  <2> QED
    BY <1>1, <2>1, LivingIs DEF Explaining
<1>4. page.at # None /\ page.at = NextInZone(zone, Fields, now, limit)
  <2> HIDE DEF zones, limit
  <2> DEFINE chosen == CHOOSE z \in zones : \A y \in zones :
                          Magnitude(OffsetOf(z, now)) <= Magnitude(OffsetOf(y, now))
             at == NextInZone(chosen, Fields, now, limit)
             agreed == at # None /\ \A z \in zones : NextInZone(z, Fields, now, limit) = at
             unpinned == [at |-> NextAtOffset(Fields, now, 0), pinned |-> FALSE]
  <2>1. page = IF rows = {} THEN unpinned
               ELSE IF ~Explained(Fields, rows) THEN unpinned
               ELSE [at |-> at, pinned |-> agreed]
    BY DEF ProjectNextFire, zones, limit
  <2> HIDE DEF page, at, agreed
  <2>2. ~unpinned.pinned
    OBVIOUS
  <2> HIDE DEF unpinned
  <2>3. page = [at |-> at, pinned |-> agreed]
    BY <1>2, <2>1, <2>2
  <2>4. page.at = at /\ agreed
    BY <1>2, <2>3
  <2> QED
    BY <1>3, <2>4 DEF agreed
<1> HIDE DEF page
<1> QED
  BY <1>1, <1>2, <1>4, NextInZoneIs DEF limit

\* Nothing is recorded that was not owed by then: neither a replay that begins within a
\* repeated hour or before a jump nor one that was cut short invents a fire.
THEOREM OnlyOwedIsRecorded ==
    Spec => [](rows \subseteq OwedUpTo(now))
<1>1. HInv => rows \subseteq OwedUpTo(now)
  BY DEF HInv
<1> QED
  BY <1>1, HistoryInductive, PTL

\* Whatever zones the runtime knows and whatever the history, a fire the page calls
\* pinned is the next one the agent owes (projectNextFire of next-fire.ts), with the
\* exceptions PinnedIsTheNextFire names: an edge behind a spent reading is passed
\* over, and nothing is said within an hour with a spent reading still to come, nor
\* of a history that has dropped the zone of the agent.
THEOREM PinnedIsEstablished ==
    Spec => []PinnedIsTheNextFire
BY HistoryInductive, PageIsRight, PTL
=============================================================================
