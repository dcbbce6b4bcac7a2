-------------------------- MODULE CalculationsProofs --------------------------
(***************************************************************************)
(* The calculations, for any length of the day, any hours, exceptions,     *)
(* bookings, entries and rules: free windows, slots and verdicts are exact *)
(* to the minute, pages cut a list into pieces, and a recurrence rule is   *)
(* expanded to exactly the dates it means.                                 *)
(*                                                                         *)
(* A day: the loops of mergeIntervals and subtractIntervals keep           *)
(* what they put out in pieces that do not touch, with exactly the minutes *)
(* due so far.  Of such pieces an interval that is covered is inside one,  *)
(* so the containment tests of slots and verdicts count minutes.           *)
(*                                                                         *)
(* A list: no two entries compare equal, so the place of an entry is the   *)
(* number of those before it, whatever the order of arrival, and each      *)
(* request cuts its page from one and the same list.                       *)
(*                                                                         *)
(* A rule: months begin where the one before ends, so the candidates are   *)
(* the days that fit the pattern, in order; what the walk has given is     *)
(* the days before its next candidate, and a count is their number.        *)
(***************************************************************************)
EXTENDS Calculations, FiniteSetTheorems, SequenceTheorems, TLAPS

----------------------------------------------------------------------------
(* Intervals of a day *)

DayIntervals == [start : 0..Midnight, end : 0..Midnight]

\* The minute is in one of the intervals.
In(m, ivs) == \E iv \in ivs : iv.start <= m /\ m < iv.end

Proper(ivs) == ivs \subseteq DayIntervals /\ \A iv \in ivs : iv.start < iv.end

Apart(ivs) == \A a, b \in ivs : a # b => a.end < b.start \/ b.end < a.start

\* A set of numbers has a least one; the inductions below are over the first round that fails.
LEMMA LeastNat ==
  ASSUME NEW T \in SUBSET Nat, T # {}
  PROVE  \E m \in T : \A n \in T : m <= n
<1> DEFINE R == OpToRel(<, Nat)
<1>1. IsWellFoundedOn(R, Nat)
  BY NatLessThanWellFounded
<1>2. \A x, y \in Nat : <<x, y>> \in R <=> x < y
  BY DEF OpToRel
<1> HIDE DEF R
<1>3. PICK m \in T : \A n \in T : ~ (<<n, m>> \in R)
  BY <1>1, WFMin
<1>4. \A n \in T : ~(n < m)
  BY <1>2, <1>3
<1>5. QED BY <1>4

\* The fields of an interval.
LEMMA IntervalTimes ==
  \A iv \in DayIntervals : iv.start \in 0..Midnight /\ iv.end \in 0..Midnight
  BY DEF DayIntervals

\* A set of intervals of a day is finite.
LEMMA DayFinite ==
  ASSUME NEW ivs \in SUBSET DayIntervals
  PROVE  IsFiniteSet(ivs) /\ Cardinality(ivs) \in Nat
<1> DEFINE Hours == (0..Midnight) \X (0..Midnight)
           f == [p \in Hours |-> Interval(p[1], p[2])]
<1>1. IsFiniteSet(Hours)
  <2>1. Midnight \in Int
    BY AvailabilityAssumption
  <2>2. IsFiniteSet(0..Midnight)
    BY <2>1, FS_Interval
  <2>3. QED BY <2>2, FS_Product
<1>2. f \in Surjection(Hours, DayIntervals)
  <2>1. f \in [Hours -> DayIntervals]
    BY DEF Interval, DayIntervals
  <2>2. \A iv \in DayIntervals : <<iv.start, iv.end>> \in Hours /\ f[<<iv.start, iv.end>>] = iv
    BY DEF Interval, DayIntervals
  <2>3. QED BY <2>1, <2>2 DEF Surjection
<1>3. IsFiniteSet(DayIntervals)
  <2> HIDE DEF f, Hours
  <2>1. QED BY <1>1, <1>2, FS_Surjection
<1>4. QED BY <1>3, FS_Subset, FS_CardinalityType

\* The first interval left is one of them, and none starts before it.
LEMMA EarliestIsFirst ==
  ASSUME NEW ivs \in SUBSET DayIntervals, ivs # {}
  PROVE  Earliest(ivs) \in ivs /\ \A other \in ivs : Earliest(ivs).start <= other.start
<1> DEFINE T == {iv.start : iv \in ivs}
<1>1. T \in SUBSET Nat /\ T # {}
  BY DEF DayIntervals
<1>2. PICK n \in T : \A k \in T : n <= k
  <2> HIDE DEF T
  <2>1. QED BY <1>1, LeastNat
<1>3. \E iv \in ivs : \A other \in ivs : iv.start <= other.start
  BY <1>2
<1>4. QED BY <1>3 DEF Earliest

\* Of intervals that do not touch, one alone covers what they cover together.
LEMMA CoveredByOne ==
  ASSUME NEW ivs, Proper(ivs), Apart(ivs), NEW p, p.start \in Int, p.end \in Int, p.start < p.end,
         \A m \in p.start..(p.end - 1) : In(m, ivs)
  PROVE  \E iv \in ivs : Covers(iv, p)
<1>1. PICK iv \in ivs : iv.start <= p.start /\ p.start < iv.end
  BY DEF In
<1>2. iv.start \in Int /\ iv.end \in Int
  BY DEF Proper, DayIntervals
<1>3. ASSUME iv.end < p.end PROVE FALSE
  <2>1. iv.end \in p.start..(p.end - 1)
    BY <1>1, <1>2, <1>3
  <2>2. PICK next \in ivs : next.start <= iv.end /\ iv.end < next.end
    BY <2>1 DEF In
  <2>3. next.start \in Int /\ next.end \in Int /\ next # iv
    BY <2>2, <1>2 DEF Proper, DayIntervals
  <2>4. QED BY <1>1, <1>2, <2>2, <2>3 DEF Apart, Proper
<1>4. QED BY <1>1, <1>2, <1>3 DEF Covers

----------------------------------------------------------------------------
(* mergeIntervals *)

\* The rounds of the loop, as a function of their number.
MergeRounds(g, kept, n) ==
  g = [k \in 0..n |-> IF k = 0 THEN [left |-> kept, out |-> {}] ELSE MergeNext(g[k - 1])]

\* The function that runs the merge loop is defined.
LEMMA MergeRoundsExist ==
  ASSUME NEW kept, NEW n \in Nat
  PROVE \E g : MergeRounds(g, kept, n)
<1> DEFINE T == {k \in Nat : ~\E g : MergeRounds(g, kept, k)}
<1>1. SUFFICES ASSUME T # {} PROVE FALSE
  OBVIOUS
<1>2. PICK k \in T : \A m \in T : k <= m
  <2> HIDE DEF T
  <2>1. T \subseteq Nat BY DEF T
  <2>2. QED BY <1>1, <2>1, LeastNat
<1>3. CASE k = 0
  <2>1. MergeRounds([i \in 0..0 |-> [left |-> kept, out |-> {}]], kept, 0)
    BY DEF MergeRounds
  <2>2. QED BY <1>3, <2>1
<1>4. CASE k # 0
  <2>1. PICK j \in Nat : k = j + 1 /\ j \notin T
    <3>1. k - 1 \in Nat /\ k = (k - 1) + 1 /\ ~(k <= k - 1)
      BY <1>4
    <3>2. k - 1 \notin T
      <4> HIDE DEF T
      <4>1. QED BY <3>1, <1>2
    <3>3. QED BY <3>1, <3>2
  <2>2. PICK g : MergeRounds(g, kept, j)
    BY <2>1
  <2>3. PICK h : h = [i \in 0..k |-> IF i = k THEN MergeNext(g[j]) ELSE g[i]]
    OBVIOUS
  <2>4. \A i \in 0..k : h[i] = IF i = 0 THEN [left |-> kept, out |-> {}] ELSE MergeNext(h[i - 1])
    <3>1. TAKE i \in 0..k
    <3>2. CASE i = k
      <4>1. h[i] = MergeNext(g[j]) /\ h[i - 1] = g[j]
        BY <2>1, <2>3, <3>2
      <4>2. QED BY <4>1, <3>2, <1>4
    <3>3. CASE i # k
      <4>1. i \in 0..j /\ h[i] = g[i]
        BY <2>1, <2>3, <3>3
      <4>2. g[i] = IF i = 0 THEN [left |-> kept, out |-> {}] ELSE MergeNext(g[i - 1])
        BY <4>1, <2>2 DEF MergeRounds
      <4>3. i # 0 => h[i - 1] = g[i - 1]
        BY <4>1, <2>1, <2>3
      <4>4. QED BY <4>1, <4>2, <4>3
    <3>4. QED BY <3>2, <3>3
  <2>5. MergeRounds(h, kept, k)
    BY <2>3, <2>4 DEF MergeRounds
  <2>6. QED BY <2>5
<1>5. QED BY <1>3, <1>4

\* What a round of the merge loop makes of the round before.
LEMMA MergingRounds ==
  ASSUME NEW kept, Cardinality(kept) \in Nat
  PROVE  MergeRounds(Merging(kept), kept, Cardinality(kept))
<1>1. PICK g : MergeRounds(g, kept, Cardinality(kept))
  BY MergeRoundsExist
<1>2. Merging(kept) = CHOOSE round : MergeRounds(round, kept, Cardinality(kept))
  BY DEF Merging, MergeRounds
<1>3. QED BY <1>1, <1>2

\* What a round of the loop keeps.
Merged(s, kept, n) ==
  /\ s.left \subseteq kept /\ Cardinality(s.left) = Cardinality(kept) - n
  /\ Proper(s.out) /\ Apart(s.out)
  /\ \A iv \in s.out, other \in s.left : iv.start <= other.start
  /\ \A m \in Int : In(m, kept) <=> In(m, s.out) \/ In(m, s.left)

\* The interval that is next touches the last one at most, and lengthens it by minutes of its own.
LEMMA MergeNextKeeps ==
  ASSUME NEW kept, Proper(kept), NEW n \in 0..(Cardinality(kept) - 1), NEW s, Merged(s, kept, n)
  PROVE  Merged(MergeNext(s), kept, n + 1)
<1>1. /\ s.left \in SUBSET DayIntervals /\ s.out \in SUBSET DayIntervals
      /\ Cardinality(kept) \in Nat /\ IsFiniteSet(s.left)
  BY DayFinite DEF Merged, Proper
<1>2. s.left # {}
  BY <1>1, FS_EmptySet DEF Merged
<1>3. PICK cur \in s.left : cur = Earliest(s.left) /\ \A other \in s.left : cur.start <= other.start
  BY <1>1, <1>2, EarliestIsFirst
<1>4. PICK last : last = {iv \in s.out : cur.start <= iv.end}
  OBVIOUS
<1>5. PICK left : left = s.left \ {cur}
  OBVIOUS
<1>6. /\ cur \in DayIntervals /\ cur.start \in 0..Midnight /\ cur.end \in 0..Midnight /\ cur.start < cur.end
      /\ \A iv \in s.out : /\ iv.start \in 0..Midnight /\ iv.end \in 0..Midnight /\ iv.start < iv.end
                           /\ iv.start <= cur.start
  BY <1>1 DEF Merged, Proper, DayIntervals
<1>7. left \subseteq kept /\ Cardinality(left) = Cardinality(kept) - (n + 1)
  <2>1. Cardinality(left) = Cardinality(s.left) - 1
    BY <1>1, <1>3, <1>5, FS_RemoveElement
  <2>2. QED BY <1>1, <1>5, <2>1 DEF Merged
<1>8. SUFFICES ASSUME NEW out, out = MergeNext(s).out
      PROVE  /\ Proper(out) /\ Apart(out)
             /\ \A iv \in out, other \in left : iv.start <= other.start
             /\ \A m \in Int : In(m, out) <=> In(m, s.out) \/ (cur.start <= m /\ m < cur.end)
  <2>1. MergeNext(s).left = left
    BY <1>3, <1>5 DEF MergeNext
  <2>2. \A m \in Int : In(m, s.left) <=> In(m, left) \/ (cur.start <= m /\ m < cur.end)
    BY <1>5 DEF In
  <2>3. PICK t : t = MergeNext(s)
    OBVIOUS
  <2>4. Merged(t, kept, n + 1)
    BY <1>7, <1>8, <2>1, <2>2, <2>3 DEF Merged
  <2>5. QED BY <2>3, <2>4
<1>9. CASE last = {}
  <2>1. out = s.out \cup {cur}
    BY <1>3, <1>4, <1>8, <1>9 DEF MergeNext
  <2>2. \A iv \in s.out : iv.end < cur.start
    BY <1>4, <1>6, <1>9
  <2>3. Proper(out) /\ Apart(out)
    BY <2>1, <2>2, <1>6 DEF Merged, Proper, Apart
  <2>4. \A iv \in out, other \in left : iv.start <= other.start
    BY <2>1, <1>3, <1>5 DEF Merged
  <2>5. QED BY <2>1, <2>3, <2>4 DEF In
<1>10. CASE last # {}
  <2>1. PICK iv \in s.out : cur.start <= iv.end /\ last = {iv}
    BY <1>4, <1>6, <1>10 DEF Merged, Apart
  <2>2. PICK grown : grown = Interval(iv.start, IF cur.end > iv.end THEN cur.end ELSE iv.end)
    OBVIOUS
  <2>3. out = (s.out \ {iv}) \cup {grown}
    BY <1>3, <1>4, <1>8, <1>10, <2>1, <2>2 DEF MergeNext
  <2>4. /\ grown \in DayIntervals /\ grown.start = iv.start /\ grown.start < grown.end
        /\ grown.end = IF cur.end > iv.end THEN cur.end ELSE iv.end
    BY <2>2, <1>6 DEF Interval, DayIntervals
  <2>5. \A o \in s.out \ {iv} : o.end < iv.start
    BY <1>4, <1>6, <2>1 DEF Merged, Apart
  <2>6. Proper(out) /\ Apart(out)
    BY <2>3, <2>4, <2>5 DEF Merged, Proper, Apart
  <2>7. \A o \in out, other \in left : o.start <= other.start
    BY <2>3, <2>4, <1>5 DEF Merged
  <2>8. \A m \in Int : grown.start <= m /\ m < grown.end
                       <=> (iv.start <= m /\ m < iv.end) \/ (cur.start <= m /\ m < cur.end)
    BY <2>1, <2>4, <1>6
  <2>9. QED BY <2>3, <2>6, <2>7, <2>8 DEF In
<1>11. QED BY <1>9, <1>10

\* mergeIntervals keeps the minutes of its intervals, in pieces that do not touch.
LEMMA MergeIsExact ==
  ASSUME NEW ivs \in SUBSET DayIntervals
  PROVE  /\ Proper(MergeIntervals(ivs)) /\ Apart(MergeIntervals(ivs))
         /\ \A m \in Int : In(m, MergeIntervals(ivs)) <=> In(m, ivs)
<1>1. PICK kept : kept = {iv \in ivs : iv.end > iv.start}
  OBVIOUS
<1>2. Proper(kept) /\ \A m \in Int : In(m, kept) <=> In(m, ivs)
  BY <1>1 DEF Proper, DayIntervals, In
<1>3. PICK c \in Nat : c = Cardinality(kept)
  BY <1>2, DayFinite DEF Proper
<1>4. PICK g : g = Merging(kept) /\ MergeRounds(g, kept, c)
  BY <1>3, MergingRounds
<1>5. \A k \in 0..c : Merged(g[k], kept, k)
  <2> DEFINE T == {k \in 0..c : ~Merged(g[k], kept, k)}
  <2>1. SUFFICES ASSUME T # {} PROVE FALSE
    OBVIOUS
  <2>2. PICK k \in T : \A j \in T : k <= j
    <3>1. T \in SUBSET Nat
      OBVIOUS
    <3> HIDE DEF T
    <3>2. QED BY <2>1, <3>1, LeastNat
  <2>3. CASE k = 0
    <3>1. PICK s : s = g[k] /\ s = [left |-> kept, out |-> {}]
      BY <1>3, <1>4, <2>3 DEF MergeRounds
    <3>2. Merged(s, kept, 0)
      BY <1>3, <3>1 DEF Merged, Proper, Apart, In
    <3>3. QED BY <2>2, <2>3, <3>1, <3>2
  <2>4. CASE k # 0
    <3>1. k - 1 \in 0..(c - 1) /\ k - 1 \in 0..c /\ (k - 1) + 1 = k /\ ~(k <= k - 1)
      BY <1>3, <2>2, <2>4
    <3>2. g[k] = MergeNext(g[k - 1])
      BY <1>4, <2>2, <2>4 DEF MergeRounds
    <3>3. Merged(g[k - 1], kept, k - 1)
      BY <2>2, <3>1
    <3>4. Merged(MergeNext(g[k - 1]), kept, (k - 1) + 1)
      BY <1>2, <1>3, <3>1, <3>3, MergeNextKeeps
    <3>5. QED BY <2>2, <3>1, <3>2, <3>4
  <2>5. QED BY <2>3, <2>4
<1>6. PICK s : s = g[c] /\ Merged(s, kept, c)
  BY <1>3, <1>5
<1>7. s.left = {}
  <2>1. s.left \in SUBSET DayIntervals /\ Cardinality(s.left) = 0
    BY <1>2, <1>3, <1>6 DEF Merged, Proper
  <2>2. QED BY <2>1, DayFinite, FS_EmptySet
<1>8. MergeIntervals(ivs) = s.out
  BY <1>1, <1>3, <1>4, <1>6 DEF MergeIntervals
<1>9. QED BY <1>2, <1>6, <1>7, <1>8 DEF Merged, In

----------------------------------------------------------------------------
(* subtractIntervals *)

\* The rounds of the loop, as a function of their number.
CutRounds(g, base, cuts, n) ==
  g = [k \in 0..n |-> IF k = 0 THEN [left |-> cuts, out |-> base] ELSE CutNext(g[k - 1])]

\* The function that runs the loop over the blocks to subtract is defined.
LEMMA CutRoundsExist ==
  ASSUME NEW base, NEW cuts, NEW n \in Nat
  PROVE \E g : CutRounds(g, base, cuts, n)
<1> DEFINE T == {k \in Nat : ~\E g : CutRounds(g, base, cuts, k)}
<1>1. SUFFICES ASSUME T # {} PROVE FALSE
  OBVIOUS
<1>2. PICK k \in T : \A m \in T : k <= m
  <2> HIDE DEF T
  <2>1. T \subseteq Nat BY DEF T
  <2>2. QED BY <1>1, <2>1, LeastNat
<1>3. CASE k = 0
  <2>1. CutRounds([i \in 0..0 |-> [left |-> cuts, out |-> base]], base, cuts, 0)
    BY DEF CutRounds
  <2>2. QED BY <1>3, <2>1
<1>4. CASE k # 0
  <2>1. PICK j \in Nat : k = j + 1 /\ j \notin T
    <3>1. k - 1 \in Nat /\ k = (k - 1) + 1 /\ ~(k <= k - 1)
      BY <1>4
    <3>2. k - 1 \notin T
      <4> HIDE DEF T
      <4>1. QED BY <3>1, <1>2
    <3>3. QED BY <3>1, <3>2
  <2>2. PICK g : CutRounds(g, base, cuts, j)
    BY <2>1
  <2>3. PICK h : h = [i \in 0..k |-> IF i = k THEN CutNext(g[j]) ELSE g[i]]
    OBVIOUS
  <2>4. \A i \in 0..k : h[i] = IF i = 0 THEN [left |-> cuts, out |-> base] ELSE CutNext(h[i - 1])
    <3>1. TAKE i \in 0..k
    <3>2. CASE i = k
      <4>1. h[i] = CutNext(g[j]) /\ h[i - 1] = g[j]
        BY <2>1, <2>3, <3>2
      <4>2. QED BY <4>1, <3>2, <1>4
    <3>3. CASE i # k
      <4>1. i \in 0..j /\ h[i] = g[i]
        BY <2>1, <2>3, <3>3
      <4>2. g[i] = IF i = 0 THEN [left |-> cuts, out |-> base] ELSE CutNext(g[i - 1])
        BY <4>1, <2>2 DEF CutRounds
      <4>3. i # 0 => h[i - 1] = g[i - 1]
        BY <4>1, <2>1, <2>3
      <4>4. QED BY <4>1, <4>2, <4>3
    <3>4. QED BY <3>2, <3>3
  <2>5. CutRounds(h, base, cuts, k)
    BY <2>3, <2>4 DEF CutRounds
  <2>6. QED BY <2>5
<1>5. QED BY <1>3, <1>4

\* What a round of that loop makes of the round before.
LEMMA CuttingRounds ==
  ASSUME NEW base, NEW cuts, Cardinality(cuts) \in Nat
  PROVE  CutRounds(Cutting(base, cuts), base, cuts, Cardinality(cuts))
<1>1. PICK g : CutRounds(g, base, cuts, Cardinality(cuts))
  BY CutRoundsExist
<1>2. Cutting(base, cuts) = CHOOSE round : CutRounds(round, base, cuts, Cardinality(cuts))
  BY DEF Cutting, CutRounds
<1>3. QED BY <1>1, <1>2

\* A block takes its minutes from each interval, and leaves at most a piece before and one after.
LEMMA CutOutIsExact ==
  ASSUME NEW ivs, Proper(ivs), Apart(ivs), NEW block \in DayIntervals, block.start < block.end
  PROVE  /\ Proper(CutOut(ivs, block)) /\ Apart(CutOut(ivs, block))
         /\ \A m \in Int : In(m, CutOut(ivs, block))
                           <=> In(m, ivs) /\ ~(block.start <= m /\ m < block.end)
<1>1. PICK out : out = CutOut(ivs, block)
  OBVIOUS
<1>2. /\ block.start \in 0..Midnight /\ block.end \in 0..Midnight
      /\ \A iv \in ivs : /\ iv \in DayIntervals /\ iv.start \in 0..Midnight /\ iv.end \in 0..Midnight
                         /\ iv.start < iv.end
  BY DEF Proper, DayIntervals
<1>3. \A p : p \in out <=>
        \E iv \in ivs :
          \/ p = iv /\ ~(iv.start < block.end /\ block.start < iv.end)
          \/ /\ iv.start < block.end /\ block.start < iv.end
             /\ \/ p = Interval(iv.start, block.start) /\ block.start > iv.start
                \/ p = Interval(block.end, iv.end) /\ block.end < iv.end
  BY <1>1 DEF CutOut, DetectOverlap
<1>4. \A p \in out :
        \E iv \in ivs :
          /\ p \in DayIntervals /\ iv.start <= p.start /\ p.end <= iv.end /\ p.start < p.end
          /\ p.end <= block.start \/ block.end <= p.start
          /\ p.end <= block.start => p.start = iv.start
          /\ block.end <= p.start => p.end = iv.end
          /\ p.start = iv.start \/ p.start = block.end
          /\ p.end = iv.end \/ p.end = block.start
  <2>1. TAKE p \in out
  <2>2. PICK iv \in ivs :
          \/ p = iv /\ ~(iv.start < block.end /\ block.start < iv.end)
          \/ /\ iv.start < block.end /\ block.start < iv.end
             /\ \/ p = Interval(iv.start, block.start) /\ block.start > iv.start
                \/ p = Interval(block.end, iv.end) /\ block.end < iv.end
    BY <1>3
  <2>3. WITNESS iv \in ivs
  <2>4. CASE p = iv /\ ~(iv.start < block.end /\ block.start < iv.end)
    BY <1>2, <2>4
  <2>5. CASE p = Interval(iv.start, block.start) /\ block.start > iv.start
    BY <1>2, <2>2, <2>5 DEF Interval, DayIntervals
  <2>6. CASE p = Interval(block.end, iv.end) /\ block.end < iv.end
    BY <1>2, <2>2, <2>6 DEF Interval, DayIntervals
  <2>7. QED BY <2>2, <2>4, <2>5, <2>6
<1>5. Proper(out)
  BY <1>4 DEF Proper
<1>6. Apart(out)
  <2>1. SUFFICES ASSUME NEW a \in out, NEW b \in out, a # b PROVE a.end < b.start \/ b.end < a.start
    BY DEF Apart
  <2>2. /\ a.start \in Int /\ a.end \in Int /\ b.start \in Int /\ b.end \in Int
        /\ a = [start |-> a.start, end |-> a.end] /\ b = [start |-> b.start, end |-> b.end]
    BY <1>5 DEF Proper, DayIntervals
  <2>3. PICK iv \in ivs :
          /\ iv.start <= a.start /\ a.end <= iv.end /\ a.start < a.end
          /\ a.end <= block.start \/ block.end <= a.start
          /\ a.end <= block.start => a.start = iv.start
          /\ block.end <= a.start => a.end = iv.end
          /\ a.start = iv.start \/ a.start = block.end
          /\ a.end = iv.end \/ a.end = block.start
    BY <1>4
  <2>4. PICK jv \in ivs :
          /\ jv.start <= b.start /\ b.end <= jv.end /\ b.start < b.end
          /\ b.end <= block.start \/ block.end <= b.start
          /\ b.end <= block.start => b.start = jv.start
          /\ block.end <= b.start => b.end = jv.end
          /\ b.start = jv.start \/ b.start = block.end
          /\ b.end = jv.end \/ b.end = block.start
    BY <1>4
  <2>5. CASE iv # jv
    BY <1>2, <2>2, <2>3, <2>4, <2>5 DEF Apart
  <2>6. CASE iv = jv
    <3>1. a.start # b.start \/ a.end # b.end
      BY <2>1, <2>2
    <3>2. QED BY <1>2, <2>2, <2>3, <2>4, <2>6, <3>1
  <2>7. QED BY <2>5, <2>6
<1>7. ASSUME NEW m \in Int
      PROVE  In(m, out) <=> In(m, ivs) /\ ~(block.start <= m /\ m < block.end)
  <2>1. ASSUME In(m, out) PROVE In(m, ivs) /\ ~(block.start <= m /\ m < block.end)
    <3>1. PICK p \in out : p.start <= m /\ m < p.end
      BY <2>1 DEF In
    <3>2. p.start \in Int /\ p.end \in Int
      BY <1>5 DEF Proper, DayIntervals
    <3>3. PICK iv \in ivs : /\ iv.start <= p.start /\ p.end <= iv.end
                            /\ p.end <= block.start \/ block.end <= p.start
      BY <1>4
    <3>4. QED BY <1>2, <3>1, <3>2, <3>3 DEF In
  <2>2. ASSUME In(m, ivs), ~(block.start <= m /\ m < block.end) PROVE In(m, out)
    <3>1. PICK iv \in ivs : iv.start <= m /\ m < iv.end
      BY <2>2 DEF In
    <3>2. CASE ~(iv.start < block.end /\ block.start < iv.end)
      BY <1>3, <3>1, <3>2 DEF In
    <3>3. CASE /\ iv.start < block.end /\ block.start < iv.end
               /\ m < block.start
      <4>1. PICK p : p = Interval(iv.start, block.start)
        OBVIOUS
      <4>2. block.start > iv.start
        BY <1>2, <3>1, <3>3
      <4>3. p \in out
        BY <1>3, <3>3, <4>1, <4>2
      <4>4. p.start = iv.start /\ p.end = block.start
        BY <4>1 DEF Interval
      <4>5. QED BY <3>1, <3>3, <4>3, <4>4 DEF In
    <3>4. CASE /\ iv.start < block.end /\ block.start < iv.end
               /\ block.end <= m
      <4>1. PICK p : p = Interval(block.end, iv.end)
        OBVIOUS
      <4>2. block.end < iv.end
        BY <1>2, <3>1, <3>4
      <4>3. p \in out
        BY <1>3, <3>4, <4>1, <4>2
      <4>4. p.start = block.end /\ p.end = iv.end
        BY <4>1 DEF Interval
      <4>5. QED BY <3>1, <3>4, <4>3, <4>4 DEF In
    <3>5. QED BY <1>2, <2>2, <3>2, <3>3, <3>4
  <2>3. QED BY <2>1, <2>2
<1>8. QED BY <1>1, <1>5, <1>6, <1>7

\* What a round of the loop keeps: the minutes of the base that no block so far took.
Cut(s, base, cuts, n) ==
  /\ s.left \subseteq cuts /\ Cardinality(s.left) = Cardinality(cuts) - n
  /\ Proper(s.out) /\ Apart(s.out)
  /\ \A m \in Int : In(m, s.out) <=> In(m, base) /\ ~In(m, cuts \ s.left)

\* Cutting keeps pieces proper, apart, and right to the minute.
LEMMA CutNextKeeps ==
  ASSUME NEW base, NEW cuts, Proper(cuts), NEW n \in 0..(Cardinality(cuts) - 1), NEW s,
         Cut(s, base, cuts, n)
  PROVE  Cut(CutNext(s), base, cuts, n + 1)
<1>1. s.left \in SUBSET DayIntervals /\ Cardinality(cuts) \in Nat /\ IsFiniteSet(s.left)
  BY DayFinite DEF Cut, Proper
<1>2. s.left # {}
  BY <1>1, FS_EmptySet DEF Cut
<1>3. PICK block \in s.left : block = Earliest(s.left)
  BY <1>1, <1>2, EarliestIsFirst
<1>4. block \in DayIntervals /\ block.start < block.end
  BY DEF Cut, Proper
<1>5. PICK left : left = s.left \ {block}
  OBVIOUS
<1>6. PICK out : out = CutOut(s.out, block)
  OBVIOUS
<1>7. left \subseteq cuts /\ Cardinality(left) = Cardinality(cuts) - (n + 1)
  <2>1. Cardinality(left) = Cardinality(s.left) - 1
    BY <1>1, <1>3, <1>5, FS_RemoveElement
  <2>2. QED BY <1>1, <1>5, <2>1 DEF Cut
<1>8. /\ Proper(out) /\ Apart(out)
      /\ \A m \in Int : In(m, out) <=> In(m, s.out) /\ ~(block.start <= m /\ m < block.end)
  BY <1>4, <1>6, CutOutIsExact DEF Cut
<1>9. \A m \in Int : In(m, cuts \ left) <=> In(m, cuts \ s.left) \/ (block.start <= m /\ m < block.end)
  BY <1>3, <1>5 DEF In, Cut
<1>10. PICK t : t = CutNext(s) /\ t.left = left /\ t.out = out
  <2>1. CutNext(s) = [left |-> s.left \ {block}, out |-> CutOut(s.out, block)]
    BY <1>3, Zenon DEF CutNext
  <2>2. QED BY <1>5, <1>6, <2>1
<1>11. Cut(t, base, cuts, n + 1)
  BY <1>7, <1>8, <1>9, <1>10 DEF Cut
<1>12. QED BY <1>10, <1>11

\* subtractIntervals keeps the minutes that no block has, in pieces that do not touch.
LEMMA SubtractIsExact ==
  ASSUME NEW base \in SUBSET DayIntervals, NEW blocks \in SUBSET DayIntervals
  PROVE  /\ Proper(SubtractIntervals(base, blocks)) /\ Apart(SubtractIntervals(base, blocks))
         /\ \A m \in Int : In(m, SubtractIntervals(base, blocks)) <=> In(m, base) /\ ~In(m, blocks)
<1>1. PICK cuts : cuts = MergeIntervals(blocks)
  OBVIOUS
<1>2. PICK from : from = MergeIntervals(base)
  OBVIOUS
<1>3. Proper(cuts) /\ \A m \in Int : In(m, cuts) <=> In(m, blocks)
  BY <1>1, MergeIsExact
<1>4. Proper(from) /\ Apart(from) /\ \A m \in Int : In(m, from) <=> In(m, base)
  BY <1>2, MergeIsExact
<1>5. PICK c \in Nat : c = Cardinality(cuts)
  BY <1>3, DayFinite DEF Proper
<1>6. PICK g : g = Cutting(from, cuts) /\ CutRounds(g, from, cuts, c)
  BY <1>5, CuttingRounds
<1>7. \A k \in 0..c : Cut(g[k], from, cuts, k)
  <2> DEFINE T == {k \in 0..c : ~Cut(g[k], from, cuts, k)}
  <2>1. SUFFICES ASSUME T # {} PROVE FALSE
    OBVIOUS
  <2>2. PICK k \in T : \A j \in T : k <= j
    <3>1. T \in SUBSET Nat
      OBVIOUS
    <3> HIDE DEF T
    <3>2. QED BY <2>1, <3>1, LeastNat
  <2>3. CASE k = 0
    <3>1. PICK s : s = g[k] /\ s = [left |-> cuts, out |-> from]
      BY <1>5, <1>6, <2>3 DEF CutRounds
    <3>2. Cut(s, from, cuts, 0)
      BY <1>4, <1>5, <3>1 DEF Cut, In
    <3>3. QED BY <2>2, <2>3, <3>1, <3>2
  <2>4. CASE k # 0
    <3>1. k - 1 \in 0..(c - 1) /\ k - 1 \in 0..c /\ (k - 1) + 1 = k /\ ~(k <= k - 1)
      BY <1>5, <2>2, <2>4
    <3>2. g[k] = CutNext(g[k - 1])
      BY <1>6, <2>2, <2>4 DEF CutRounds
    <3>3. Cut(g[k - 1], from, cuts, k - 1)
      BY <2>2, <3>1
    <3>4. Cut(CutNext(g[k - 1]), from, cuts, (k - 1) + 1)
      BY <1>3, <1>5, <3>1, <3>3, CutNextKeeps
    <3>5. QED BY <2>2, <3>1, <3>2, <3>4
  <2>5. QED BY <2>3, <2>4
<1>8. PICK s : s = g[c] /\ Cut(s, from, cuts, c)
  BY <1>5, <1>7
<1>9. cuts \ s.left = cuts
  <2>1. s.left \in SUBSET DayIntervals /\ Cardinality(s.left) = 0
    BY <1>3, <1>5, <1>8 DEF Cut, Proper
  <2>2. QED BY <2>1, DayFinite, FS_EmptySet
<1>10. SubtractIntervals(base, blocks) = s.out
  BY <1>1, <1>2, <1>5, <1>6, <1>8 DEF SubtractIntervals
<1>11. QED BY <1>3, <1>4, <1>8, <1>9, <1>10 DEF Cut

----------------------------------------------------------------------------
(* The hours of a day *)

\* An end at 24:00 is read back as 00:00, any other time as itself.
LEMMA ReadBackTime ==
  ASSUME NEW t \in 1..Midnight
  PROVE  ReadBack(t) = IF t = Midnight THEN 0 ELSE t
  BY AvailabilityAssumption DEF ReadBack

\* What a question of a day is about.
LEMMA DayFacts ==
  ASSUME NEW q \in DayQuestions
  PROVE  /\ q.kind = "day" /\ q.default \in Nat \ {0}
         /\ \A b \in q.blocks : OnTheDay(b) /\ b.override \in Nat
         /\ \A e \in q.exceptions : e = FullDay \/ (e.timed = TRUE /\ e.off \in BOOLEAN /\ OnTheDay(e))
         /\ \A b \in q.booked : EntryOnTheDay(b)
  BY QuestionsAssumption

\* The times of a stretch of the day.
LEMMA StretchFacts ==
  ASSUME NEW x, OnTheDay(x)
  PROVE  /\ x.start \in 0..Midnight /\ x.end \in 0..Midnight /\ x.start < x.end
         /\ Interval(x.start, x.end) \in DayIntervals
  BY AvailabilityAssumption DEF OnTheDay, Interval, DayIntervals

\* Blocks with the hours of the question's, whatever they are tiled by.
SameHours(bs, q) ==
  /\ \A b \in bs : \E c \in q.blocks : b.start = c.start /\ b.end = c.end
  /\ \A c \in q.blocks : \E b \in bs : b.start = c.start /\ b.end = c.end

\* A timed exception is no whole day.
LEMMA TimedFacts ==
  ASSUME NEW q \in DayQuestions, NEW e \in q.exceptions, e.timed
  PROVE  OnTheDay(e)
<1>1. ~FullDay.timed
  BY DEF FullDay
<1>2. e # FullDay
  BY <1>1, Zenon
<1>3. QED BY <1>2, DayFacts

\* When a minute is free, exception by exception.
LEMMA FreeMinute ==
  ASSUME NEW q \in DayQuestions, NEW m \in Int
  PROVE  m \in FreeMinutes(q) <=>
           /\ FullDay \notin q.exceptions
           /\ \/ \E b \in q.blocks : b.start <= m /\ m < b.end
              \/ \E e \in q.exceptions : e.timed /\ e.off = FALSE /\ e.start <= m /\ m < e.end
           /\ ~\E e \in q.exceptions : e.timed /\ e.off = TRUE /\ e.start <= m /\ m < e.end
<1>1. \A x : OnTheDay(x) => (m \in Minutes(x) <=> x.start <= m /\ m < x.end)
  BY DEF Minutes, OnTheDay
<1>2. \A b \in q.blocks : OnTheDay(b)
  BY DayFacts
<1>3. \A e \in q.exceptions : e.timed => OnTheDay(e)
  BY TimedFacts
<1>4. ASSUME NEW off \in BOOLEAN
      PROVE  m \in TimedMinutes(q, off)
               <=> \E e \in q.exceptions : e.timed /\ e.off = off /\ e.start <= m /\ m < e.end
  BY <1>1, <1>3 DEF TimedMinutes
<1>5. m \in WorkedMinutes(q) <=> \E b \in q.blocks : b.start <= m /\ m < b.end
  BY <1>1, <1>2 DEF WorkedMinutes
<1>6. m \in FreeMinutes(q)
        <=> /\ FullDay \notin q.exceptions
            /\ m \in WorkedMinutes(q) \/ m \in TimedMinutes(q, FALSE)
            /\ m \notin TimedMinutes(q, TRUE)
  BY DEF FreeMinutes
<1>7. QED BY <1>4, <1>5, <1>6

\* Minutes are numbers.
LEMMA FreeMinutesAreInt ==
  ASSUME NEW q \in DayQuestions PROVE FreeMinutes(q) \subseteq Int
<1>1. ASSUME NEW x, OnTheDay(x) PROVE Minutes(x) \subseteq Int
  BY <1>1 DEF Minutes, OnTheDay
<1>2. WorkedMinutes(q) \subseteq Int
  BY <1>1, DayFacts DEF WorkedMinutes
<1>3. TimedMinutes(q, FALSE) \subseteq Int
  BY <1>1, TimedFacts DEF TimedMinutes
<1>4. QED BY <1>2, <1>3 DEF FreeMinutes

\* The windows before bookings are the free minutes, in pieces that do not touch.
LEMMA WindowsAreFree ==
  ASSUME NEW q \in DayQuestions, NEW bs, SameHours(bs, q)
  PROVE  LET ws == AvailableWindows(bs, q.exceptions)
         IN /\ Proper(ws) /\ Apart(ws)
            /\ \A m \in Int : In(m, ws) <=> m \in FreeMinutes(q)
<1>1. PICK ws : ws = AvailableWindows(bs, q.exceptions)
  OBVIOUS
<1>2. SUFFICES /\ Proper(ws) /\ Apart(ws)
               /\ \A m \in Int : In(m, ws) <=> m \in FreeMinutes(q)
  BY <1>1
<1>3. CASE FullDay \in q.exceptions
  <2>1. ws = {}
    BY <1>1, <1>3 DEF AvailableWindows
  <2>2. QED BY <1>3, <2>1, FreeMinute DEF Proper, Apart, In
<1>4. CASE FullDay \notin q.exceptions
  <2>1. PICK hours : hours = {Interval(b.start, b.end) : b \in bs}
    OBVIOUS
  <2>2. PICK extra : extra = {Interval(e.start, e.end) : e \in {x \in q.exceptions : x.timed /\ x.off = FALSE}}
    OBVIOUS
  <2>3. PICK offs : offs = {Interval(e.start, e.end) : e \in {x \in q.exceptions : x.timed /\ x.off = TRUE}}
    OBVIOUS
  <2>4. ws = SubtractIntervals(hours \cup extra, offs)
    BY <1>1, <1>4, <2>1, <2>2, <2>3 DEF AvailableWindows
  <2>5. \A e \in q.exceptions : OnTheDay(e)
    BY <1>4, DayFacts
  <2>6. \A b \in bs : Interval(b.start, b.end) \in DayIntervals
    BY DayFacts, StretchFacts DEF SameHours
  <2>7. hours \cup extra \in SUBSET DayIntervals /\ offs \in SUBSET DayIntervals
    BY <2>1, <2>2, <2>3, <2>5, <2>6, StretchFacts
  <2>8. \A a, b : Interval(a, b).start = a /\ Interval(a, b).end = b
    BY DEF Interval
  <2>9. ASSUME NEW m \in Int PROVE In(m, ws) <=> m \in FreeMinutes(q)
    <3>1. In(m, ws) <=> In(m, hours \cup extra) /\ ~In(m, offs)
      BY <2>4, <2>7, <2>9, SubtractIsExact
    <3>2. In(m, hours \cup extra) <=> In(m, hours) \/ In(m, extra)
      BY DEF In
    <3>3. In(m, hours) <=> \E b \in bs : b.start <= m /\ m < b.end
      BY <2>1, <2>8 DEF In
    <3>4. (\E b \in bs : b.start <= m /\ m < b.end) <=> \E b \in q.blocks : b.start <= m /\ m < b.end
      BY DEF SameHours
    <3>5. In(m, extra) <=> \E e \in q.exceptions : e.timed /\ e.off = FALSE /\ e.start <= m /\ m < e.end
      BY <2>2, <2>8 DEF In
    <3>6. In(m, offs) <=> \E e \in q.exceptions : e.timed /\ e.off = TRUE /\ e.start <= m /\ m < e.end
      BY <2>3, <2>8 DEF In
    <3>7. QED BY <1>4, <2>9, <3>1, <3>2, <3>3, <3>4, <3>5, <3>6, FreeMinute
  <2>10. Proper(ws) /\ Apart(ws)
    BY <2>4, <2>7, SubtractIsExact
  <2>11. QED BY <2>9, <2>10
<1>5. QED BY <1>3, <1>4

\* Bookings as they are read back are intervals of the day, the ones to 24:00 empty.
LEMMA BookingFacts ==
  ASSUME NEW b, EntryOnTheDay(b)
  PROVE  /\ OnTheDay(b) /\ BookedInterval(b) \in DayIntervals
         /\ BookedInterval(b).start = b.start
         /\ BookedInterval(b).end = IF b.end = Midnight /\ ~b.virtual THEN 0 ELSE b.end
<1>1. OnTheDay(b) /\ b.end \in 1..Midnight /\ b.start \in 0..Midnight
  BY StretchFacts DEF EntryOnTheDay, OnTheDay
<1>2. BookedInterval(b).end = IF b.end = Midnight /\ ~b.virtual THEN 0 ELSE b.end
  BY <1>1, ReadBackTime DEF BookedInterval, Interval
<1>3. BookedInterval(b).start = b.start
  BY DEF BookedInterval, Interval
<1>4. BookedInterval(b) = [start |-> BookedInterval(b).start, end |-> BookedInterval(b).end]
  BY DEF BookedInterval, Interval
<1>5. BookedInterval(b) \in DayIntervals
  BY <1>1, <1>2, <1>3, <1>4 DEF DayIntervals
<1>6. QED BY <1>1, <1>2, <1>3, <1>5

\* Intervals as bookings are read back: an end at 24:00 has become 0.
ReadBackOf(booked) ==
  booked \subseteq DayIntervals /\ \A k \in booked : k.start < k.end \/ k.end = 0

\* Bookings are read back as intervals of the day, or ending at 0.
LEMMA BookedOfTheDay ==
  ASSUME NEW q \in DayQuestions
  PROVE  /\ ReadBackOf(BookedIntervals(q))
         /\ \A m \in Int : m \in TakenMinutes(q) <=> In(m, BookedIntervals(q))
<1>1. ReadBackOf(BookedIntervals(q))
  <2>1. \A b \in q.booked : LET k == BookedInterval(b)
                             IN k \in DayIntervals /\ (k.start < k.end \/ k.end = 0)
    BY DayFacts, BookingFacts DEF OnTheDay
  <2>2. QED BY <2>1 DEF BookedIntervals, OpenBooked, ReadBackOf
<1>2. \A m \in Int : m \in TakenMinutes(q) <=> In(m, BookedIntervals(q))
  BY <1>1 DEF TakenMinutes, In, Minutes, DayIntervals, ReadBackOf
<1>3. QED BY <1>1, <1>2

----------------------------------------------------------------------------
(* Tiles, slots and verdicts *)

\* A tile of a block lies in it.
LEMMA TileFacts ==
  ASSUME NEW b, OnTheDay(b), b.slot \in Nat \ {0}, NEW tile \in Tiles(b)
  PROVE  /\ tile \in DayIntervals /\ tile = Interval(tile.start, tile.end)
         /\ b.start <= tile.start /\ tile.end <= b.end /\ tile.start < tile.end
         /\ tile.end = tile.start + b.slot
<1>1. PICK k \in 0..(Midnight - 1) :
        /\ tile = Interval(b.start + (k * b.slot), b.start + ((k + 1) * b.slot))
        /\ b.start + ((k + 1) * b.slot) <= b.end
  BY DEF Tiles
<1>2. b.start \in 0..Midnight /\ b.end \in 0..Midnight /\ k \in Nat
  BY <1>1, StretchFacts, AvailabilityAssumption
<1>3. PICK low \in Nat : low = k * b.slot /\ (k + 1) * b.slot = low + b.slot
  <2>1. PICK w \in Nat : w = b.slot
    OBVIOUS
  <2>2. k * w \in Nat /\ (k + 1) * w = k * w + w
    BY <1>2, <2>1
  <2>3. QED BY <2>1, <2>2
<1>4. tile.start = b.start + low /\ tile.end = b.start + (low + b.slot)
  BY <1>1, <1>3 DEF Interval
<1>5. tile = [start |-> tile.start, end |-> tile.end]
  BY <1>1 DEF Interval
<1>6. b.start + (low + b.slot) <= b.end
  BY <1>1, <1>3
<1>7. tile.start \in 0..Midnight /\ tile.end \in 0..Midnight
  <2>1. ASSUME NEW s \in 0..Midnight, NEW e \in 0..Midnight, NEW d \in Nat \ {0}, s + (low + d) <= e
        PROVE  s + low \in 0..Midnight /\ s + (low + d) \in 0..Midnight
    BY <2>1, AvailabilityAssumption
  <2>2. QED BY <1>2, <1>4, <1>6, <2>1
<1>8. tile \in DayIntervals
  BY <1>5, <1>7 DEF DayIntervals
<1>9. QED BY <1>2, <1>4, <1>5, <1>6, <1>8 DEF Interval

\* Blocks as the tiler sees them.
Tiled(bs, q) == SameHours(bs, q) /\ \A b \in bs : b.slot \in Nat \ {0}

\* The blocks that are tiled have the hours they had.
LEMMA TiledFacts ==
  ASSUME NEW q \in DayQuestions, NEW bs, Tiled(bs, q)
  PROVE  /\ \A b \in bs : OnTheDay(b) /\ b.slot \in Nat \ {0}
         /\ \A tile \in UNION {Tiles(b) : b \in bs} :
              tile \in DayIntervals /\ tile.start < tile.end /\ tile = Interval(tile.start, tile.end)
<1>1. \A b \in bs : OnTheDay(b) /\ b.slot \in Nat \ {0}
  BY DayFacts DEF Tiled, SameHours, OnTheDay
<1>2. QED BY <1>1, TileFacts

\* A slot is a tile of which every minute is free and in no booking.
LEMMA SlotIsFree ==
  ASSUME NEW q \in DayQuestions, NEW bs, Tiled(bs, q), NEW booked, ReadBackOf(booked)
  PROVE  /\ ComputeServiceSlots(bs, q.exceptions, booked) \subseteq UNION {Tiles(b) : b \in bs}
         /\ \A tile \in UNION {Tiles(b) : b \in bs} :
              tile \in ComputeServiceSlots(bs, q.exceptions, booked)
                <=> \A m \in Minutes(tile) : m \in FreeMinutes(q) /\ ~In(m, booked)
<1>1. PICK ws : ws = AvailableWindows(bs, q.exceptions)
  OBVIOUS
<1>2. /\ Proper(ws) /\ Apart(ws)
      /\ \A m \in Int : In(m, ws) <=> m \in FreeMinutes(q)
  BY <1>1, WindowsAreFree DEF Tiled
<1>3. ComputeServiceSlots(bs, q.exceptions, booked) \subseteq UNION {Tiles(b) : b \in bs}
  BY DEF ComputeServiceSlots
<1>4. ASSUME NEW tile \in UNION {Tiles(b) : b \in bs}
      PROVE  tile \in ComputeServiceSlots(bs, q.exceptions, booked)
               <=> \A m \in Minutes(tile) : m \in FreeMinutes(q) /\ ~In(m, booked)
  <2>1. tile.start \in 0..Midnight /\ tile.end \in 0..Midnight /\ tile.start < tile.end
    <3>1. tile \in DayIntervals /\ tile.start < tile.end
      BY TiledFacts
    <3>2. QED BY <3>1, IntervalTimes
  <2>2. tile \in ComputeServiceSlots(bs, q.exceptions, booked)
          <=> (\E iv \in ws : Covers(iv, tile)) /\ (\A k \in booked : ~DetectOverlap(tile, k))
    BY <1>1 DEF ComputeServiceSlots
  <2>3. \A m : m \in Minutes(tile) <=> m \in Int /\ tile.start <= m /\ m < tile.end
    BY <2>1 DEF Minutes
  <2>4. (\E iv \in ws : Covers(iv, tile)) <=> \A m \in Minutes(tile) : m \in FreeMinutes(q)
    <3>1. ASSUME NEW iv \in ws, Covers(iv, tile) PROVE \A m \in Minutes(tile) : m \in FreeMinutes(q)
      <4>1. iv.start \in Int /\ iv.end \in Int
        BY <1>2 DEF Proper, DayIntervals
      <4>2. QED BY <1>2, <2>1, <2>3, <3>1, <4>1 DEF Covers, In
    <3>2. ASSUME \A m \in Minutes(tile) : m \in FreeMinutes(q) PROVE \E iv \in ws : Covers(iv, tile)
      <4>1. \A m \in tile.start..(tile.end - 1) : In(m, ws)
        BY <1>2, <2>1, <2>3, <3>2
      <4>2. QED BY <1>2, <2>1, <4>1, CoveredByOne
    <3>3. QED BY <3>1, <3>2
  <2>5. (\A k \in booked : ~DetectOverlap(tile, k)) <=> \A m \in Minutes(tile) : ~In(m, booked)
    <3>1. ASSUME NEW k \in booked, DetectOverlap(tile, k) PROVE \E m \in Minutes(tile) : In(m, booked)
      <4>1. /\ k.start \in 0..Midnight /\ k.end \in 0..Midnight
            /\ k.start < k.end \/ k.end = 0
            /\ tile.start < k.end /\ k.start < tile.end
        BY <3>1 DEF ReadBackOf, DayIntervals, DetectOverlap
      <4>2. PICK m \in Int : m = IF tile.start < k.start THEN k.start ELSE tile.start
        BY <2>1, <4>1
      <4>3. tile.start <= m /\ m < tile.end /\ k.start <= m /\ m < k.end
        BY <2>1, <4>1, <4>2
      <4>4. QED BY <2>3, <4>3 DEF In
    <3>2. ASSUME NEW m \in Minutes(tile), In(m, booked) PROVE \E k \in booked : DetectOverlap(tile, k)
      <4>1. PICK k \in booked : k.start <= m /\ m < k.end
        BY <3>2 DEF In
      <4>2. k.start \in 0..Midnight /\ k.end \in 0..Midnight
        BY DEF ReadBackOf, DayIntervals
      <4>3. QED BY <2>1, <2>3, <4>1, <4>2 DEF DetectOverlap
    <3>3. QED BY <3>1, <3>2
  <2>6. QED BY <2>2, <2>4, <2>5
<1>5. QED BY <1>3, <1>4

\* A placement is contained in a grid when the tiles have each of its minutes.
LEMMA ContainedMinutes ==
  ASSUME NEW slots \in SUBSET DayIntervals, NEW p, p.start \in Int, p.end \in Int, p.start < p.end
  PROVE  ContainedInGrid(p, slots) <=> \A m \in Minutes(p) : In(m, slots)
<1>1. PICK merged : merged = MergeIntervals(slots)
  OBVIOUS
<1>2. Proper(merged) /\ Apart(merged) /\ \A m \in Int : In(m, merged) <=> In(m, slots)
  BY <1>1, MergeIsExact
<1>3. \A m : m \in Minutes(p) <=> m \in Int /\ p.start <= m /\ m < p.end
  BY DEF Minutes
<1>4. ContainedInGrid(p, slots) <=> \E iv \in merged : Covers(iv, p)
  BY <1>1 DEF ContainedInGrid
<1>5. ASSUME NEW iv \in merged, Covers(iv, p) PROVE \A m \in Minutes(p) : In(m, slots)
  <2>1. iv.start \in Int /\ iv.end \in Int
    BY <1>2 DEF Proper, DayIntervals
  <2>2. QED BY <1>2, <1>3, <1>5, <2>1 DEF Covers, In
<1>6. ASSUME \A m \in Minutes(p) : In(m, slots) PROVE \E iv \in merged : Covers(iv, p)
  <2>1. \A m \in p.start..(p.end - 1) : In(m, merged)
    BY <1>2, <1>3, <1>6
  <2>2. QED BY <1>2, <2>1, CoveredByOne
<1>7. QED BY <1>4, <1>5, <1>6

----------------------------------------------------------------------------
(* The answers *)

ServiceSlots(q, booked) == ComputeServiceSlots(ServiceBlocks(q), q.exceptions, booked)
RoomSlots(q) == ComputeServiceSlots(RoomBlocks(q), q.exceptions, {})

\* The questions of the model, and the answer a day gets.
QuestionInv ==
  /\ question \in RuleQuestions \cup DayQuestions \cup ListQuestions
  /\ Answered("day") =>
       answer = [grid  |-> ServiceSlots(question, {}),
                 slots |-> IF IsOutsideBookingWindow(question.ahead, question.window) THEN {}
                           ELSE ServiceSlots(question, BookedIntervals(question)),
                 free  |-> ComputeFreeWindows(question.blocks, question.exceptions, BookedIntervals(question)),
                 room  |-> RoomSlots(question)]

\* No question is answered yet.
LEMMA QuestionInitInv == Init => QuestionInv
  BY DEF Init, QuestionInv, Answered

\* An answer is that of the code, and stays.
LEMMA QuestionStepInv == QuestionInv /\ [Next]_vars => QuestionInv'
<1> SUFFICES ASSUME QuestionInv, [Next]_vars PROVE QuestionInv'
  OBVIOUS
<1>1. CASE RejectRule
  BY <1>1 DEF RejectRule, QuestionInv, Answered
<1>2. CASE BeginWalk
  BY <1>2 DEF BeginWalk, QuestionInv, Answered
<1>3. CASE Walk
  BY <1>3 DEF Walk, QuestionInv, Answered
<1>4. CASE EndWalk
  BY <1>4 DEF EndWalk, QuestionInv, Answered
<1>5. CASE ComputeDay
  BY <1>5 DEF ComputeDay, QuestionInv, Answered, ServiceSlots, RoomSlots
<1>6. CASE FetchPage
  BY <1>6 DEF FetchPage, QuestionInv, Answered
<1>7. CASE UNCHANGED vars
  BY <1>7 DEF vars, QuestionInv, Answered
<1>8. QED BY <1>1, <1>2, <1>3, <1>4, <1>5, <1>6, <1>7 DEF Next

\* What a day is answered.
LEMMA DayAnswered ==
  ASSUME QuestionInv, Answered("day")
  PROVE  /\ question \in DayQuestions
         /\ answer.grid = ServiceSlots(question, {})
         /\ answer.slots = IF IsOutsideBookingWindow(question.ahead, question.window) THEN {}
                           ELSE ServiceSlots(question, BookedIntervals(question))
         /\ answer.free = ComputeFreeWindows(question.blocks, question.exceptions, BookedIntervals(question))
         /\ answer.room = RoomSlots(question)
  BY QuestionsAssumption DEF QuestionInv, Answered

\* The blocks of the two tilings have the hours of the question.
LEMMA BlocksAreTiled ==
  ASSUME NEW q \in DayQuestions
  PROVE  /\ SameHours(q.blocks, q) /\ Tiled(ServiceBlocks(q), q) /\ Tiled(RoomBlocks(q), q)
         /\ \A b \in q.blocks : /\ SlotMinutes(b, q.default) \in Nat \ {0}
                                /\ SlotMinutes(b, q.default) = ResolveDuration(0, b.override, q.default)
<1>1. SameHours(q.blocks, q)
  BY DEF SameHours
<1>2. ASSUME NEW b \in q.blocks
      PROVE  /\ SlotMinutes(b, q.default) \in Nat \ {0}
             /\ SlotMinutes(b, q.default) = ResolveDuration(0, b.override, q.default)
  <2>1. PICK o, d : o = b.override /\ d = q.default
    OBVIOUS
  <2>2. o \in Nat /\ d \in Nat \ {0}
    BY <2>1, DayFacts
  <2>3. SlotMinutes(b, d) = IF o = 0 THEN d ELSE o
    BY <2>1 DEF SlotMinutes
  <2>4. ResolveDuration(0, o, d) = IF o = 0 THEN d ELSE o
    BY <2>2 DEF ResolveDuration
  <2>5. QED BY <2>1, <2>2, <2>3, <2>4
<1>3. Tiled(ServiceBlocks(q), q)
  <2>1. \A b \in q.blocks : LET t == [start |-> b.start, end |-> b.end, slot |-> SlotMinutes(b, q.default)]
                            IN t.start = b.start /\ t.end = b.end /\ t.slot \in Nat \ {0}
    BY <1>2
  <2>2. \A t \in ServiceBlocks(q) :
          \E b \in q.blocks : t = [start |-> b.start, end |-> b.end, slot |-> SlotMinutes(b, q.default)]
    BY DEF ServiceBlocks
  <2>3. \A b \in q.blocks :
          [start |-> b.start, end |-> b.end, slot |-> SlotMinutes(b, q.default)] \in ServiceBlocks(q)
    BY DEF ServiceBlocks
  <2>4. QED BY <2>1, <2>2, <2>3 DEF Tiled, SameHours
<1>4. Tiled(RoomBlocks(q), q)
  <2>1. \A b \in q.blocks : LET t == [start |-> b.start, end |-> b.end, slot |-> Tile]
                            IN t.start = b.start /\ t.end = b.end /\ t.slot \in Nat \ {0}
    BY AvailabilityAssumption
  <2>2. \A t \in RoomBlocks(q) : \E b \in q.blocks : t = [start |-> b.start, end |-> b.end, slot |-> Tile]
    BY DEF RoomBlocks
  <2>3. \A b \in q.blocks : [start |-> b.start, end |-> b.end, slot |-> Tile] \in RoomBlocks(q)
    BY DEF RoomBlocks
  <2>4. QED BY <2>1, <2>2, <2>3 DEF Tiled, SameHours
<1>5. QED BY <1>1, <1>2, <1>3, <1>4

\* No bookings take no minute.
LEMMA NothingReadBack == ReadBackOf({}) /\ \A m : ~In(m, {})
  BY DEF ReadBackOf, In

\* The grid of the professional: tiles of free minutes.
LEMMA GridFacts ==
  ASSUME NEW q \in DayQuestions
  PROVE  /\ ServiceSlots(q, {}) \in SUBSET DayIntervals
         /\ \A m \in Int : In(m, ServiceSlots(q, {})) => m \in FreeMinutes(q)
<1>1. PICK bs : bs = ServiceBlocks(q) /\ Tiled(bs, q)
  BY BlocksAreTiled
<1>2. PICK grid : grid = ServiceSlots(q, {}) /\ grid = ComputeServiceSlots(bs, q.exceptions, {})
  BY <1>1 DEF ServiceSlots
<1>3. \A tile \in grid : /\ tile \in UNION {Tiles(b) : b \in bs}
                         /\ \A m \in Minutes(tile) : m \in FreeMinutes(q)
  BY <1>1, <1>2, SlotIsFree, NothingReadBack
<1>4. grid \in SUBSET DayIntervals
  BY <1>1, <1>3, TiledFacts
<1>5. \A m \in Int : In(m, grid) => m \in FreeMinutes(q)
  <2>1. ASSUME NEW m \in Int, NEW tile \in grid, tile.start <= m, m < tile.end PROVE m \in FreeMinutes(q)
    <3>1. tile.start \in 0..Midnight /\ tile.end \in 0..Midnight
      BY <1>4, IntervalTimes
    <3>2. m \in Minutes(tile)
      BY <2>1, <3>1 DEF Minutes
    <3>3. QED BY <1>3, <3>2
  <2>2. QED BY <2>1 DEF In
<1>6. QED BY <1>2, <1>4, <1>5

\* The windows offered to staff are the free minutes without the bookings, whole; the slots offered
\* to clients are the tiles none of whose minutes is off or taken (GET availability).
THEOREM SlotsExactAlways == Spec => []SlotsAreExact
<1>1. ASSUME QuestionInv PROVE SlotsAreExact
  <2>1. SUFFICES ASSUME Answered("day")
        PROVE  /\ UNION {Minutes(iv) : iv \in answer.free} = FreeMinutes(question) \ TakenMinutes(question)
               /\ \A a, b \in answer.free : a # b => a.end < b.start \/ b.end < a.start
               /\ ~IsOutsideBookingWindow(question.ahead, question.window) =>
                    answer.slots = {slot \in UNION {Tiles(b) : b \in ServiceBlocks(question)} :
                                      Minutes(slot) \subseteq FreeMinutes(question) \ TakenMinutes(question)}
    BY DEF SlotsAreExact
  <2>2. PICK q \in DayQuestions : q = question
    BY <1>1, <2>1, DayAnswered
  <2>3. PICK booked : booked = BookedIntervals(q) /\ ReadBackOf(booked)
    BY BookedOfTheDay
  <2>4. \A m \in Int : m \in TakenMinutes(q) <=> In(m, booked)
    BY <2>3, BookedOfTheDay
  <2>5. PICK free : free = answer.free /\ free = SubtractIntervals(AvailableWindows(q.blocks, q.exceptions), booked)
    BY <1>1, <2>1, <2>2, <2>3, DayAnswered DEF ComputeFreeWindows
  <2>6. /\ Proper(free) /\ Apart(free)
        /\ \A m \in Int : In(m, free) <=> m \in FreeMinutes(q) /\ ~In(m, booked)
    <3>1. PICK ws : ws = AvailableWindows(q.blocks, q.exceptions)
      OBVIOUS
    <3>2. Proper(ws) /\ \A m \in Int : In(m, ws) <=> m \in FreeMinutes(q)
      BY <3>1, BlocksAreTiled, WindowsAreFree
    <3>3. ws \in SUBSET DayIntervals /\ booked \in SUBSET DayIntervals
      BY <2>3, <3>2 DEF Proper, ReadBackOf
    <3>4. QED BY <2>5, <3>1, <3>2, <3>3, SubtractIsExact
  <2>7. UNION {Minutes(iv) : iv \in free} = FreeMinutes(q) \ TakenMinutes(q)
    <3>1. \A iv \in free : iv.start \in 0..Midnight /\ iv.end \in 0..Midnight
      BY <2>6, IntervalTimes DEF Proper
    <3>2. \A m : m \in UNION {Minutes(iv) : iv \in free} <=> m \in Int /\ In(m, free)
      BY <3>1 DEF Minutes, In
    <3>3. \A m : m \in UNION {Minutes(iv) : iv \in free} <=> m \in FreeMinutes(q) \ TakenMinutes(q)
      BY <2>4, <2>6, <3>2, FreeMinutesAreInt
    <3>4. QED BY <3>3, Zenon
  <2>8. ASSUME ~IsOutsideBookingWindow(question.ahead, question.window)
        PROVE  answer.slots = {slot \in UNION {Tiles(b) : b \in ServiceBlocks(question)} :
                                 Minutes(slot) \subseteq FreeMinutes(question) \ TakenMinutes(question)}
    <3>1. PICK bs : bs = ServiceBlocks(q) /\ Tiled(bs, q)
      BY BlocksAreTiled
    <3>2. PICK slots : slots = answer.slots /\ slots = ComputeServiceSlots(bs, q.exceptions, booked)
      BY <1>1, <2>1, <2>2, <2>3, <2>8, <3>1, DayAnswered DEF ServiceSlots
    <3>3. ASSUME NEW tile \in UNION {Tiles(b) : b \in bs}
          PROVE  tile \in slots <=> Minutes(tile) \subseteq FreeMinutes(q) \ TakenMinutes(q)
      <4>1. tile \in slots <=> \A m \in Minutes(tile) : m \in FreeMinutes(q) /\ ~In(m, booked)
        BY <2>3, <3>1, <3>2, SlotIsFree
      <4>2. QED BY <2>4, <4>1, FreeMinutesAreInt
    <3>4. slots \subseteq UNION {Tiles(b) : b \in bs}
      BY <2>3, <3>1, <3>2, SlotIsFree
    <3>5. slots = {slot \in UNION {Tiles(b) : b \in bs} : Minutes(slot) \subseteq FreeMinutes(q) \ TakenMinutes(q)}
      BY <3>3, <3>4, Zenon
    <3>6. QED BY <2>2, <3>1, <3>2, <3>5
  <2>9. QED BY <2>2, <2>5, <2>6, <2>7, <2>8 DEF Apart
<1>2. QED BY <1>1, QuestionInitInv, QuestionStepInv, PTL DEF Spec

----------------------------------------------------------------------------
(* The verdict of an owner *)

OffGridType(kind) == IF kind = "professional" THEN "professional_availability" ELSE "resource_availability"

\* What evaluateConflicts reports, one conflict at a time.
LEMMA ConflictFacts ==
  ASSUME NEW p, NEW kind, NEW slots, NEW booked, NEW exclude, NEW c
  PROVE  c \in OwnerConflicts(p, kind, slots, booked, exclude) <=>
           \/ \E b \in booked : /\ b.id # exclude /\ DetectOverlap(p, BookedInterval(b))
                                /\ c = [type |-> OverlapType(b, kind), with |-> b.id]
           \/ ~ContainedInGrid(p, slots) /\ c = [type |-> OffGridType(kind), with |-> 0]
           \/ /\ ContainedInGrid(p, slots) /\ kind = "professional" /\ p \notin slots
              /\ c = [type |-> "slot_alignment", with |-> 0]
<1>1. CASE kind = "professional"
  BY <1>1 DEF OwnerConflicts, OffGridType
<1>2. CASE kind # "professional"
  BY <1>2 DEF OwnerConflicts, OffGridType
<1>3. QED BY <1>1, <1>2

\* The class of a placement off the grid is reported for nothing else.
LEMMA AvailabilityConflict ==
  ASSUME NEW p, NEW kind, NEW slots, NEW booked, NEW exclude
  PROVE  (\E c \in OwnerConflicts(p, kind, slots, booked, exclude) : c.type = OffGridType(kind))
           <=> ~ContainedInGrid(p, slots)
<1>1. ASSUME NEW c \in OwnerConflicts(p, kind, slots, booked, exclude), c.type = OffGridType(kind)
      PROVE  ~ContainedInGrid(p, slots)
  <2>1. \A b : OverlapType(b, kind) # OffGridType(kind)
    BY DEF OverlapType, OffGridType
  <2>2. CASE \E b \in booked : c = [type |-> OverlapType(b, kind), with |-> b.id]
    BY <1>1, <2>1, <2>2
  <2>3. CASE c = [type |-> "slot_alignment", with |-> 0]
    BY <1>1, <2>3 DEF OffGridType
  <2>4. QED BY <2>2, <2>3, ConflictFacts
<1>2. ASSUME ~ContainedInGrid(p, slots)
      PROVE  \E c \in OwnerConflicts(p, kind, slots, booked, exclude) : c.type = OffGridType(kind)
  <2>1. PICK c : c = [type |-> OffGridType(kind), with |-> 0]
    OBVIOUS
  <2>2. c \in OwnerConflicts(p, kind, slots, booked, exclude)
    BY <1>2, <2>1 DEF OwnerConflicts, OffGridType
  <2>3. QED BY <2>1, <2>2
<1>3. QED BY <1>1, <1>2

\* A booking that is read back overlaps what shares a minute with it, unless it ends at 24:00.
LEMMA OverlapSharesMinute ==
  ASSUME NEW b, EntryOnTheDay(b), NEW p, p.start \in Nat, p.end \in Int, p.start < p.end
  PROVE  DetectOverlap(p, BookedInterval(b))
           <=> Minutes(b) \cap Minutes(p) # {} /\ ~(b.end = Midnight /\ b.virtual = FALSE)
<1>1. /\ BookedInterval(b).start = b.start
      /\ BookedInterval(b).end = IF b.end = Midnight /\ ~b.virtual THEN 0 ELSE b.end
      /\ b.start \in Int /\ b.end \in Int /\ b.start < b.end /\ b.virtual \in BOOLEAN
  BY BookingFacts, StretchFacts DEF EntryOnTheDay
<1>2. Minutes(b) \cap Minutes(p) # {} <=> p.start < b.end /\ b.start < p.end
  <2>1. ASSUME NEW m \in Minutes(b), m \in Minutes(p) PROVE p.start < b.end /\ b.start < p.end
    BY <1>1, <2>1 DEF Minutes
  <2>2. ASSUME p.start < b.end, b.start < p.end PROVE Minutes(b) \cap Minutes(p) # {}
    <3>1. PICK m \in Int : m = IF p.start < b.start THEN b.start ELSE p.start
      BY <1>1
    <3>2. m \in Minutes(b) /\ m \in Minutes(p)
      BY <1>1, <2>2, <3>1 DEF Minutes
    <3>3. QED BY <3>2
  <2>3. QED BY <2>1, <2>2
<1>3. CASE b.end = Midnight /\ b.virtual = FALSE
  <2>1. BookedInterval(b).end = 0
    BY <1>1, <1>3
  <2>2. ~DetectOverlap(p, BookedInterval(b))
    BY <2>1 DEF DetectOverlap
  <2>3. QED BY <1>3, <2>2
<1>4. CASE ~(b.end = Midnight /\ b.virtual = FALSE)
  <2>1. BookedInterval(b).end = b.end
    BY <1>1, <1>4
  <2>2. DetectOverlap(p, BookedInterval(b)) <=> p.start < b.end /\ b.start < p.end
    BY <1>1, <2>1 DEF DetectOverlap
  <2>3. QED BY <1>2, <1>4, <2>2
<1>5. QED BY <1>3, <1>4

\* The minutes of a placement and of a grid.
LEMMA OffGrid ==
  ASSUME NEW slots \in SUBSET DayIntervals, NEW p, p.start \in Int, p.end \in Int, p.start < p.end
  PROVE  ContainedInGrid(p, slots) <=> Minutes(p) \subseteq UNION {Minutes(s) : s \in slots}
<1>1. \A m \in Int : In(m, slots) <=> \E s \in slots : m \in Minutes(s)
  BY IntervalTimes DEF In, Minutes
<1>2. Minutes(p) \subseteq Int
  BY DEF Minutes
<1>3. QED BY <1>1, <1>2, ContainedMinutes

\* The verdict of a placement (evaluateConflicts, run again when a booking is written) misses a
\* booking that shares a minute with it only when that one is a row that ends at 24:00, reports no
\* other, and calls a placement off the grid for its minutes alone.
THEOREM OverlapsAreFound == Spec => []OverlapMissedOnlyAtMidnight
<1>1. ASSUME QuestionInv PROVE OverlapMissedOnlyAtMidnight
  <2>1. SUFFICES ASSUME Answered("day"), NEW p \in Proposals
        PROVE  LET verdict == Verdict(question, p, "professional", answer.grid)
                   found   == {c.with : c \in verdict} \ {0}
                   sharing == {b \in OpenBooked(question) : Minutes(b) \cap Minutes(p) # {}}
               IN  /\ found \subseteq {b.id : b \in sharing}
                   /\ \A b \in sharing : b.id \in found \/ (b.end = Midnight /\ ~b.virtual)
                   /\ (\E c \in verdict : c.type = "professional_availability")
                        <=> ~(Minutes(p) \subseteq UNION {Minutes(s) : s \in answer.grid})
    BY DEF OverlapMissedOnlyAtMidnight
  <2>2. PICK q \in DayQuestions : q = question
    BY <1>1, <2>1, DayAnswered
  <2>3. PICK grid \in SUBSET DayIntervals : grid = answer.grid
    BY <1>1, <2>1, <2>2, DayAnswered, GridFacts
  <2>4. PICK booked : booked = OpenBooked(q) /\ \A b \in booked : EntryOnTheDay(b)
    BY DayFacts DEF OpenBooked
  <2>5. PICK verdict : verdict = OwnerConflicts(p, "professional", grid, booked, 0)
    OBVIOUS
  <2>6. p.start \in Nat /\ p.end \in Int /\ p.start < p.end
    BY DEF Proposals
  <2>7. PICK sharing : sharing = {b \in booked : Minutes(b) \cap Minutes(p) # {}}
    OBVIOUS
  <2>8. ASSUME NEW c \in verdict, c.with # 0 PROVE \E b \in sharing : c.with = b.id
    <3>1. PICK b \in booked : /\ DetectOverlap(p, BookedInterval(b))
                              /\ c = [type |-> OverlapType(b, "professional"), with |-> b.id]
      <4>1. \/ \E b \in booked : /\ DetectOverlap(p, BookedInterval(b))
                                 /\ c = [type |-> OverlapType(b, "professional"), with |-> b.id]
            \/ c = [type |-> OffGridType("professional"), with |-> 0]
            \/ c = [type |-> "slot_alignment", with |-> 0]
        BY <2>5, ConflictFacts
      <4>2. QED BY <2>8, <4>1
    <3>2. b \in sharing
      BY <2>4, <2>6, <2>7, <3>1, OverlapSharesMinute
    <3>3. QED BY <3>1, <3>2
  <2>9. ASSUME NEW b \in sharing, ~(b.end = Midnight /\ b.virtual = FALSE)
        PROVE  b.id # 0 /\ \E c \in verdict : c.with = b.id
    <3>1. b \in booked /\ EntryOnTheDay(b)
      BY <2>4, <2>7
    <3>2. DetectOverlap(p, BookedInterval(b))
      BY <2>6, <2>7, <2>9, <3>1, OverlapSharesMinute
    <3>3. b.id # 0
      BY <3>1 DEF EntryOnTheDay
    <3>4. PICK c : c = [type |-> OverlapType(b, "professional"), with |-> b.id]
      OBVIOUS
    <3>5. c \in verdict
      BY <2>5, <3>1, <3>2, <3>3, <3>4, ConflictFacts
    <3>6. QED BY <3>3, <3>4, <3>5
  <2>10. (\E c \in verdict : c.type = "professional_availability")
           <=> ~(Minutes(p) \subseteq UNION {Minutes(s) : s \in grid})
    <3>1. (\E c \in verdict : c.type = "professional_availability") <=> ~ContainedInGrid(p, grid)
      BY <2>5, AvailabilityConflict DEF OffGridType
    <3>2. QED BY <2>6, <3>1, OffGrid
  <2>11. \A b \in sharing : b.virtual \in BOOLEAN
    BY <2>4, <2>7 DEF EntryOnTheDay
  <2>12. verdict = Verdict(question, p, "professional", answer.grid)
    BY <2>2, <2>3, <2>4, <2>5 DEF Verdict
  <2>13. {c.with : c \in verdict} \ {0} \subseteq {b.id : b \in sharing}
    BY <2>8
  <2>14. \A b \in sharing : b.id \in {c.with : c \in verdict} \ {0} \/ (b.end = Midnight /\ ~b.virtual)
    BY <2>9, <2>11
  <2>15. sharing = {b \in OpenBooked(question) : Minutes(b) \cap Minutes(p) # {}}
    BY <2>2, <2>4, <2>7
  <2>16. QED BY <2>3, <2>10, <2>12, <2>13, <2>14, <2>15
<1>2. QED BY <1>1, QuestionInitInv, QuestionStepInv, PTL DEF Spec

\* A placement with a minute that is not free is off the grid.
LEMMA OffTheGrid ==
  ASSUME NEW q \in DayQuestions, NEW p, p.start \in Int, p.end \in Int, p.start < p.end,
         NEW m \in Int, p.start <= m, m < p.end, m \notin FreeMinutes(q)
  PROVE  ~ContainedInGrid(p, ServiceSlots(q, {}))
<1>1. PICK grid \in SUBSET DayIntervals :
        grid = ServiceSlots(q, {}) /\ \A k \in Int : In(k, grid) => k \in FreeMinutes(q)
  BY GridFacts
<1>2. m \in Minutes(p) /\ ~In(m, grid)
  BY <1>1 DEF Minutes
<1>3. ~ContainedInGrid(p, grid)
  BY <1>2, ContainedMinutes
<1>4. QED BY <1>1, <1>3

\* The SQL of the conflict flag and the verdict agree about time off: what is flagged a recheck
\* would refuse, and what shares a minute with time off is flagged but for ends at 24:00.
THEOREM TimeOffAlwaysAgrees == Spec => []TimeOffAgreesWithVerdict
<1>1. ASSUME QuestionInv PROVE TimeOffAgreesWithVerdict
  <2>1. SUFFICES ASSUME Answered("day"), NEW r \in question.booked, ~r.virtual
        PROVE  LET offs == {e \in question.exceptions : e.off} IN
               /\ FlaggedByTimeOff(r, offs, 0) =>
                    \E c \in OwnerConflicts(Interval(r.start, r.end), "professional", answer.grid, {}, 0) :
                      c.type = "professional_availability"
               /\ \A off \in offs :
                    ConflictEligible(r, 0) /\ (off.timed => Minutes(r) \cap Minutes(off) # {}) =>
                      HitByTimeOff(r, off, 0) \/ (r.end = Midnight /\ off.timed)
    BY DEF TimeOffAgreesWithVerdict
  <2>2. PICK q \in DayQuestions : q = question
    BY <1>1, <2>1, DayAnswered
  <2>3. /\ OnTheDay(r) /\ r.start \in 0..Midnight /\ r.end \in 1..Midnight /\ r.start < r.end
    <3>1. EntryOnTheDay(r)
      BY <2>1, <2>2, DayFacts
    <3>2. OnTheDay(r)
      BY <3>1 DEF EntryOnTheDay
    <3>3. QED BY <3>2, StretchFacts DEF OnTheDay
  <2>4. ReadBack(r.end) = IF r.end = Midnight THEN 0 ELSE r.end
    BY <2>3, ReadBackTime
  <2>5. ASSUME NEW off \in q.exceptions, off.off
        PROVE  \/ off = FullDay
               \/ off.timed = TRUE /\ off.off = TRUE /\ off.start \in 0..Midnight /\ off.end \in 0..Midnight /\ off.start < off.end
    <3>1. off = FullDay \/ (off.timed = TRUE /\ off.off \in BOOLEAN /\ OnTheDay(off))
      BY DayFacts
    <3>2. QED BY <2>5, <3>1, StretchFacts
  <2>6. ASSUME NEW off \in q.exceptions, off.off, HitByTimeOff(r, off, 0)
        PROVE  ~ContainedInGrid(Interval(r.start, r.end), ServiceSlots(q, {}))
    <3>1. PICK p : p = Interval(r.start, r.end) /\ p.start = r.start /\ p.end = r.end
      <4>1. Interval(r.start, r.end).start = r.start /\ Interval(r.start, r.end).end = r.end
        BY DEF Interval
      <4>2. QED BY <4>1
    <3>2. CASE off = FullDay
      <4>1. r.start \notin FreeMinutes(q)
        <5>1. FullDay \in q.exceptions
          BY <2>6, <3>2
        <5>2. r.start \in Int
          BY <2>3
        <5>3. QED BY <5>1, <5>2, FreeMinute
      <4>2. QED BY <2>3, <3>1, <4>1, OffTheGrid
    <3>3. CASE off # FullDay
      <4>1. /\ off.timed = TRUE /\ off.off = TRUE
            /\ off.start \in 0..Midnight /\ off.end \in 0..Midnight /\ off.start < off.end
        BY <2>5, <2>6, <3>3
      <4>2. r.start < off.end /\ off.start < ReadBack(r.end)
        BY <2>3, <2>4, <2>6, <4>1 DEF HitByTimeOff, WallClockOverlap
      <4>3. off.start < r.end
        BY <2>3, <2>4, <4>1, <4>2
      <4>4. PICK m \in Int : m = IF r.start < off.start THEN off.start ELSE r.start
        BY <2>3, <4>1
      <4>5. r.start <= m /\ m < r.end /\ off.start <= m /\ m < off.end
        BY <2>3, <4>1, <4>2, <4>3, <4>4
      <4>6. m \notin FreeMinutes(q)
        BY <2>6, <4>1, <4>5, FreeMinute
      <4>7. QED BY <2>3, <3>1, <4>5, <4>6, OffTheGrid
    <3>4. QED BY <3>2, <3>3
  <2>7. ASSUME NEW off \in q.exceptions, off.off,
               ConflictEligible(r, 0), off.timed => Minutes(r) \cap Minutes(off) # {}
        PROVE  HitByTimeOff(r, off, 0) \/ (r.end = Midnight /\ off.timed)
    <3>1. CASE off = FullDay
      <4>1. ~FullDay.timed
        BY DEF FullDay
      <4>2. ~off.timed
        BY <3>1, <4>1, Zenon
      <4>3. QED BY <2>7, <4>2 DEF HitByTimeOff
    <3>2. CASE off # FullDay
      <4>1. /\ off.timed = TRUE /\ off.off = TRUE
            /\ off.start \in 0..Midnight /\ off.end \in 0..Midnight /\ off.start < off.end
        BY <2>5, <2>7, <3>2
      <4>2. PICK m : m \in Minutes(r) /\ m \in Minutes(off)
        BY <2>7, <4>1
      <4>3. r.start < off.end /\ off.start < r.end
        BY <2>3, <4>1, <4>2 DEF Minutes
      <4>4. r.end # Midnight => WallClockOverlap(r, off)
        BY <2>3, <2>4, <4>1, <4>3 DEF WallClockOverlap
      <4>5. QED BY <2>7, <4>1, <4>4 DEF HitByTimeOff
    <3>3. QED BY <3>1, <3>2
  <2>8. FlaggedByTimeOff(r, {e \in q.exceptions : e.off}, 0) =>
          ~ContainedInGrid(Interval(r.start, r.end), ServiceSlots(q, {}))
    BY <2>6 DEF FlaggedByTimeOff
  <2>9. ~ContainedInGrid(Interval(r.start, r.end), ServiceSlots(q, {})) =>
          \E c \in OwnerConflicts(Interval(r.start, r.end), "professional", ServiceSlots(q, {}), {}, 0) :
            c.type = "professional_availability"
    BY AvailabilityConflict DEF OffGridType
  <2>10. answer.grid = ServiceSlots(q, {})
    BY <1>1, <2>1, <2>2, DayAnswered
  <2>11. QED BY <2>2, <2>7, <2>8, <2>9, <2>10
<1>2. QED BY <1>1, QuestionInitInv, QuestionStepInv, PTL DEF Spec

\* A slot a client is offered can be booked: unless blocks overlap, the length the server resolves
\* for it is that of its tile and its verdict finds nothing.
THEOREM OfferedSlotsAreBookable == Spec => []OfferedSlotIsBookable
<1>1. ASSUME QuestionInv PROVE OfferedSlotIsBookable
  <2>1. SUFFICES ASSUME Answered("day"), NEW slot \in answer.slots,
                        \A a, b \in question.blocks : a # b => ~DetectOverlap(a, b),
                        NEW d \in EffectiveDurations(question.blocks, question.default, slot.start)
        PROVE  /\ ~CrossesMidnight(slot.start, d)
               /\ Verdict(question, Interval(slot.start, slot.start + d), "professional", answer.grid) = {}
    BY DEF OfferedSlotIsBookable
  <2>2. PICK q \in DayQuestions : q = question
    BY <1>1, <2>1, DayAnswered
  <2>3. PICK booked : booked = BookedIntervals(q) /\ ReadBackOf(booked)
    BY BookedOfTheDay
  <2>4. slot \in ServiceSlots(q, booked)
    BY <1>1, <2>1, <2>2, <2>3, DayAnswered
  <2>5. PICK bs : bs = ServiceBlocks(q) /\ Tiled(bs, q)
    BY BlocksAreTiled
  <2>6. /\ slot \in UNION {Tiles(b) : b \in bs}
        /\ \A m \in Minutes(slot) : m \in FreeMinutes(q) /\ ~In(m, booked)
    BY <2>3, <2>4, <2>5, SlotIsFree DEF ServiceSlots
  <2>7. slot \in DayIntervals /\ slot.start < slot.end /\ slot = Interval(slot.start, slot.end)
    BY <2>5, <2>6, TiledFacts
  <2>8. slot.start \in 0..Midnight /\ slot.end \in 0..Midnight
    BY <2>7, IntervalTimes
  <2>9. PICK t \in bs : slot \in Tiles(t)
    BY <2>6
  <2>10. PICK b \in q.blocks : t = [start |-> b.start, end |-> b.end, slot |-> SlotMinutes(b, q.default)]
    BY <2>5, <2>9 DEF ServiceBlocks
  <2>11. t.start = b.start /\ t.end = b.end /\ t.slot = SlotMinutes(b, q.default)
    BY <2>10
  <2>12. b.start <= slot.start /\ slot.end <= b.end /\ slot.end = slot.start + SlotMinutes(b, q.default)
    BY <2>5, <2>9, <2>11, TiledFacts, TileFacts
  <2>13. \A a \in q.blocks : a.start \in 0..Midnight /\ a.end \in 0..Midnight /\ a.start < a.end
    BY DayFacts, StretchFacts
  <2>14. b \in {a \in q.blocks : a.start <= slot.start /\ slot.start < a.end}
    BY <2>7, <2>8, <2>12, <2>13
  <2>15. \A a \in q.blocks : a.start <= slot.start /\ slot.start < a.end => a = b
    <3>1. SUFFICES ASSUME NEW a \in q.blocks, a.start <= slot.start, slot.start < a.end, a # b PROVE FALSE
      OBVIOUS
    <3>2. b.start <= slot.start /\ slot.start < b.end
      BY <2>14
    <3>3. DetectOverlap(a, b)
      BY <2>8, <2>13, <3>1, <3>2 DEF DetectOverlap
    <3>4. QED BY <2>1, <2>2, <3>1, <3>3
  <2>16. d = ResolveDuration(0, b.override, q.default)
    <3>1. PICK around : around = {a \in q.blocks : a.start <= slot.start /\ slot.start < a.end}
      OBVIOUS
    <3>2. around # {} /\ \A a \in around : a = b
      BY <2>14, <2>15, <3>1
    <3>3. d \in {ResolveDuration(0, a.override, q.default) : a \in around}
      BY <2>1, <2>2, <3>1, <3>2 DEF EffectiveDurations
    <3>4. QED BY <3>2, <3>3
  <2>17. slot.start + d = slot.end
    BY <2>12, <2>16, BlocksAreTiled
  <2>18. ~CrossesMidnight(slot.start, d)
    BY <2>8, <2>17, AvailabilityAssumption DEF CrossesMidnight
  <2>19. PICK grid : grid = ServiceSlots(q, {}) /\ grid \in SUBSET DayIntervals /\ grid = answer.grid
    BY <1>1, <2>1, <2>2, GridFacts, DayAnswered
  <2>20. slot \in grid
    BY <2>5, <2>6, <2>19, SlotIsFree, NothingReadBack DEF ServiceSlots
  <2>21. ContainedInGrid(slot, grid)
    <3>1. \A m \in Minutes(slot) : In(m, grid)
      BY <2>8, <2>20 DEF Minutes, In
    <3>2. QED BY <2>7, <2>8, <2>19, <3>1, ContainedMinutes
  <2>22. \A x \in OpenBooked(q) : ~DetectOverlap(slot, BookedInterval(x))
    <3>1. \A k \in booked : ~DetectOverlap(slot, k)
      BY <2>4 DEF ServiceSlots, ComputeServiceSlots
    <3>2. QED BY <2>3, <3>1 DEF BookedIntervals
  <2>23. Verdict(q, slot, "professional", grid) = {}
    <3>1. \A c : c \notin OwnerConflicts(slot, "professional", grid, OpenBooked(q), 0)
      BY <2>20, <2>21, <2>22, ConflictFacts
    <3>2. QED BY <3>1 DEF Verdict
  <2>24. QED BY <2>2, <2>7, <2>17, <2>18, <2>19, <2>23
<1>2. QED BY <1>1, QuestionInitInv, QuestionStepInv, PTL DEF Spec

\* Hours of whole tiles are tiled without rest.
LEMMA WholeTiles ==
  ASSUME NEW b, OnTheDay(b), b.slot = Tile, (b.end - b.start) % Tile = 0,
         NEW m \in Int, b.start <= m, m < b.end
  PROVE  \E tile \in Tiles(b) : m \in Minutes(tile)
<1>1. /\ b.start \in 0..Midnight /\ b.end \in 0..Midnight /\ b.start < b.end
      /\ Tile \in Nat \ {0} /\ Midnight \in Nat
  BY StretchFacts, AvailabilityAssumption
<1>2. PICK w \in Int : b.end - b.start = w * Tile
  <2>1. PICK n \in Nat : n = b.end - b.start
    BY <1>1
  <2>2. PICK v \in Nat \ {0} : v = Tile
    BY <1>1
  <2>3. n % v = 0
    BY <2>1, <2>2
  <2>4. n = (n \div v) * v
    BY <2>3
  <2>5. n \div v \in Int
    BY <2>1, <2>2
  <2>6. QED BY <2>1, <2>2, <2>4, <2>5
<1> DEFINE T == {j \in Nat : m - b.start < j * Tile}
<1>3. PICK j \in T : \A i \in T : j <= i
  <2>1. m - b.start + 1 \in T
    <3>1. PICK x \in Nat : x = m - b.start
      BY <1>1
    <3>2. x + 1 <= (x + 1) * Tile
      <4>1. ASSUME NEW y \in Nat, NEW v \in Nat \ {0} PROVE y <= y * v
        OBVIOUS
      <4>2. QED BY <1>1, <3>1, <4>1
    <3>3. (x + 1) * Tile \in Nat
      BY <1>1, <3>1
    <3>4. QED BY <3>1, <3>2, <3>3
  <2>2. T \in SUBSET Nat
    OBVIOUS
  <2> HIDE DEF T
  <2>3. QED BY <2>1, <2>2, LeastNat
<1>4. j \in Nat /\ m - b.start < j * Tile
  OBVIOUS
<1>5. j # 0
  BY <1>1, <1>4
<1>6. PICK k \in Nat : j = k + 1 /\ k \notin T
  <2>1. j - 1 \in Nat /\ j = (j - 1) + 1 /\ ~(j <= j - 1)
    BY <1>4, <1>5
  <2>2. j - 1 \notin T
    <3> HIDE DEF T
    <3>1. QED BY <1>3, <2>1
  <2>3. QED BY <2>1, <2>2
<1>7. PICK low \in Nat, high \in Nat : low = k * Tile /\ high = (k + 1) * Tile /\ high = low + Tile
  BY <1>1
<1>8. low <= m - b.start /\ m - b.start < high
  BY <1>1, <1>4, <1>6, <1>7
<1>9. high <= b.end - b.start
  <2>1. low < w * Tile
    BY <1>1, <1>2, <1>8
  <2>2. k < w
    <3>1. ASSUME NEW x \in Int, NEW y \in Int, NEW v \in Nat \ {0}, x * v < y * v PROVE x < y
      BY <3>1
    <3>2. QED BY <1>1, <1>2, <1>7, <2>1, <3>1
  <2>3. (k + 1) * Tile <= w * Tile
    <3>1. ASSUME NEW x \in Int, NEW y \in Int, NEW v \in Nat \ {0}, x <= y PROVE x * v <= y * v
      BY <3>1
    <3>2. QED BY <1>1, <1>2, <2>2, <3>1
  <2>4. QED BY <1>2, <1>7, <2>3
<1>10. k \in 0..(Midnight - 1)
  <2>1. k <= low
    <3>1. ASSUME NEW y \in Nat, NEW v \in Nat \ {0} PROVE y <= y * v
      OBVIOUS
    <3>2. QED BY <1>1, <1>7, <3>1
  <2>2. QED BY <1>1, <1>7, <1>9, <2>1
<1>11. PICK tile : tile = Interval(b.start + low, b.start + high)
  OBVIOUS
<1>12. tile \in Tiles(b)
  <2>1. tile = Interval(b.start + (k * b.slot), b.start + ((k + 1) * b.slot)) /\ b.start + ((k + 1) * b.slot) <= b.end
    BY <1>1, <1>7, <1>9, <1>11
  <2>2. QED BY <1>10, <2>1 DEF Tiles
<1>13. tile.start = b.start + low /\ tile.end = b.start + high
  BY <1>11 DEF Interval
<1>14. m \in Minutes(tile)
  BY <1>1, <1>7, <1>8, <1>13 DEF Minutes
<1>15. QED BY <1>12, <1>14

\* The tiles of a room only test containment: when its hours are whole tiles and no exception cuts
\* them, a placement is refused exactly for a minute outside the free hours.
THEOREM RoomTilesDoNotDecide == Spec => []RoomVerdictIsContainment
<1>1. ASSUME QuestionInv PROVE RoomVerdictIsContainment
  <2>1. SUFFICES ASSUME Answered("day"),
                        \A b \in question.blocks : (b.end - b.start) % Tile = 0,
                        \A e \in question.exceptions : ~e.timed,
                        NEW p \in Proposals
        PROVE  (\E c \in Verdict(question, p, "resource", answer.room) : c.type = "resource_availability")
                 <=> ~(Minutes(p) \subseteq FreeMinutes(question))
    BY DEF RoomVerdictIsContainment
  <2>2. PICK q \in DayQuestions : q = question
    BY <1>1, <2>1, DayAnswered
  <2>3. p.start \in Nat /\ p.end \in Int /\ p.start < p.end
    BY DEF Proposals
  <2>4. PICK bs : bs = RoomBlocks(q) /\ Tiled(bs, q) /\ \A b \in bs : b.slot = Tile
    <3>1. \A b \in RoomBlocks(q) : b.slot = Tile
      <4>1. \A b \in RoomBlocks(q) : \E c \in q.blocks : b = [start |-> c.start, end |-> c.end, slot |-> Tile]
        BY DEF RoomBlocks
      <4>2. QED BY <4>1
    <3>2. QED BY <3>1, BlocksAreTiled
  <2>5. PICK room : room = answer.room /\ room = ComputeServiceSlots(bs, q.exceptions, {})
    BY <1>1, <2>1, <2>2, <2>4, DayAnswered DEF RoomSlots
  <2>6. /\ room \subseteq UNION {Tiles(b) : b \in bs}
        /\ \A tile \in UNION {Tiles(b) : b \in bs} :
             tile \in room <=> \A m \in Minutes(tile) : m \in FreeMinutes(q)
    BY <2>4, <2>5, SlotIsFree, NothingReadBack
  <2>7. room \in SUBSET DayIntervals
    BY <2>4, <2>6, TiledFacts
  <2>8. ASSUME NEW m \in Int PROVE In(m, room) <=> m \in FreeMinutes(q)
    <3>1. ASSUME In(m, room) PROVE m \in FreeMinutes(q)
      <4>1. PICK tile \in room : tile.start <= m /\ m < tile.end
        BY <3>1 DEF In
      <4>2. tile.start \in 0..Midnight /\ tile.end \in 0..Midnight
        BY <2>7, IntervalTimes
      <4>3. m \in Minutes(tile)
        BY <4>1, <4>2 DEF Minutes
      <4>4. QED BY <2>6, <4>3
    <3>2. ASSUME m \in FreeMinutes(q) PROVE In(m, room)
      <4>1. /\ FullDay \notin q.exceptions
            /\ \/ \E b \in q.blocks : b.start <= m /\ m < b.end
               \/ \E e \in q.exceptions : e.timed /\ e.off = FALSE /\ e.start <= m /\ m < e.end
        BY <3>2, FreeMinute
      <4>2. PICK c \in q.blocks : c.start <= m /\ m < c.end
        BY <2>1, <2>2, <4>1
      <4>3. PICK b \in bs : b.start = c.start /\ b.end = c.end
        BY <2>4 DEF Tiled, SameHours
      <4>4. OnTheDay(b) /\ b.slot = Tile
        BY <2>4, TiledFacts
      <4>5. (b.end - b.start) % Tile = 0
        BY <2>1, <2>2, <4>3
      <4>6. PICK tile \in Tiles(b) : m \in Minutes(tile)
        BY <4>2, <4>3, <4>4, <4>5, WholeTiles
      <4>7. tile.start \in 0..Midnight /\ tile.end \in 0..Midnight /\ b.start <= tile.start /\ tile.end <= b.end
        BY <2>4, TiledFacts, TileFacts, IntervalTimes
      <4>8. \A i \in Minutes(tile) : i \in Int /\ c.start <= i /\ i < c.end
        <5>1. b.start \in 0..Midnight /\ b.end \in 0..Midnight
          BY <4>4, StretchFacts
        <5>2. QED BY <4>3, <4>7, <5>1 DEF Minutes
      <4>9. \A i \in Minutes(tile) : i \in FreeMinutes(q)
        BY <2>1, <2>2, <4>1, <4>8, FreeMinute
      <4>10. tile \in room
        BY <2>6, <4>9
      <4>11. tile.start <= m /\ m < tile.end
        BY <4>6, <4>7 DEF Minutes
      <4>12. QED BY <4>10, <4>11 DEF In
    <3>3. QED BY <3>1, <3>2
  <2>9. ContainedInGrid(p, room) <=> Minutes(p) \subseteq FreeMinutes(q)
    <3>1. \A m \in Minutes(p) : m \in Int
      BY DEF Minutes
    <3>2. ContainedInGrid(p, room) <=> \A m \in Minutes(p) : In(m, room)
      BY <2>3, <2>7, ContainedMinutes
    <3>3. QED BY <2>8, <3>1, <3>2
  <2>10. (\E c \in OwnerConflicts(p, "resource", room, OpenBooked(q), 0) : c.type = "resource_availability")
           <=> ~ContainedInGrid(p, room)
    BY AvailabilityConflict DEF OffGridType
  <2>11. QED BY <2>2, <2>5, <2>9, <2>10 DEF Verdict
<1>2. QED BY <1>1, QuestionInitInv, QuestionStepInv, PTL DEF Spec

----------------------------------------------------------------------------
(* Lists *)

\* An occurrence and an open row to come that share a minute are both flagged in the list of
\* appointments (listVirtualOccurrences and flagRealConflictsWithVirtuals), but for the rows staff
\* acknowledged and those that end at 24:00.
THEOREM BothSidesAlwaysRing == Spec => []BothSidesRing
<1>1. ASSUME QuestionInv PROVE BothSidesRing
  <2>1. SUFFICES ASSUME question.kind = "list", NEW v \in question.entries, NEW r \in question.entries,
                        v.virtual, ~r.virtual, ConflictEligible(r, question.now),
                        Minutes(v) \cap Minutes(r) # {}, r.end # Midnight
        PROVE  /\ Flagged(v, question.entries, question.slots, question.now)
               /\ Flagged(r, question.entries, question.slots, question.now)
    BY DEF BothSidesRing
  <2>2. PICK q \in ListQuestions : q = question
    BY <1>1, <2>1, QuestionsAssumption DEF QuestionInv
  <2>3. EntryOnTheDay(v) /\ EntryOnTheDay(r)
    BY <2>1, <2>2, QuestionsAssumption
  <2>4. v.id # r.id
    BY <2>1, <2>3 DEF EntryOnTheDay
  <2>5. /\ v.start \in Nat /\ v.end \in Int /\ v.start < v.end
        /\ r.start \in Nat /\ r.end \in Int /\ r.start < r.end
    BY <2>3, StretchFacts DEF EntryOnTheDay
  <2>6. PICK p : p = Interval(v.start, v.end)
    OBVIOUS
  <2>7. p.start = v.start /\ p.end = v.end /\ Minutes(p) = Minutes(v)
    BY <2>6 DEF Interval, Minutes
  <2>8. DetectOverlap(p, BookedInterval(r))
    <3>1. Minutes(r) \cap Minutes(p) # {}
      BY <2>1, <2>7
    <3>2. QED BY <2>1, <2>3, <2>5, <2>7, <3>1, OverlapSharesMinute
  <2>9. PICK booked : booked = {e \in q.entries : e.virtual \/ IsOpen(e)}
    OBVIOUS
  <2>10. r \in booked
    BY <2>1, <2>2, <2>9 DEF ConflictEligible
  <2>11. PICK c : c = [type |-> OverlapType(r, "professional"), with |-> r.id]
    OBVIOUS
  <2>12. c \in OwnerConflicts(p, "professional", q.slots, booked, v.id)
    BY <2>4, <2>8, <2>10, <2>11, ConflictFacts
  <2>13. VirtualInConflict(v, q.entries, q.slots)
    BY <2>6, <2>9, <2>12 DEF VirtualInConflict
  <2>14. RingsWith(r, v)
    <3>1. PICK m : m \in Minutes(v) /\ m \in Minutes(r)
      BY <2>1
    <3>2. QED BY <2>5, <3>1 DEF Minutes, RingsWith
  <2>15. RowInConflict(r, q.entries, q.slots, q.now)
    BY <2>1, <2>2, <2>13, <2>14 DEF RowInConflict
  <2>16. QED BY <2>1, <2>2, <2>13, <2>15 DEF Flagged
<1>2. QED BY <1>1, QuestionInitInv, QuestionStepInv, PTL DEF Spec

----------------------------------------------------------------------------
(* Pages *)

KeptOf(q) == Kept(q.entries, q.slots, q.now, q.conflicting)

Ahead(e, q) == {x \in KeptOf(q) : Before(x, e, q.sort)}

\* The place of an entry when no two compare equal.
Rank(e, q) == 1 + Cardinality(Ahead(e, q))

\* The whole list, of which every request shows a page.
ListOf(q) == [n \in 1..Cardinality(KeptOf(q)) |-> CHOOSE e \in KeptOf(q) : Rank(e, q) = n]

\* What a question of a list is about.
LEMMA ListFacts ==
  ASSUME NEW q \in ListQuestions
  PROVE  /\ q.kind = "list"
         /\ \A e \in q.entries : EntryOnTheDay(e)
         /\ \A a, b \in q.entries : a.id = b.id => a = b
         /\ IsFiniteSet(q.entries)
         /\ q.limit \in Nat /\ q.limit > 0
         /\ KeptOf(q) \subseteq q.entries
<1>1. q.limit \in Nat \ {0}
  BY QuestionsAssumption
<1>2. KeptOf(q) \subseteq q.entries
  BY DEF KeptOf, Kept
<1>3. QED BY <1>1, <1>2, QuestionsAssumption

\* Both columns sort by a number.
LEMMA SortValueType ==
  ASSUME NEW e, EntryOnTheDay(e), NEW column
  PROVE  SortValue(e, column) \in Int
<1>1. e.start \in Int /\ e.end \in Int
  BY StretchFacts DEF EntryOnTheDay
<1>2. QED BY <1>1 DEF SortValue

\* Ids of rows are positive and those of occurrences negative: the tie break
\* compares any two entries, one way only, and consistently.
LEMMA TiesAreBroken ==
  ASSUME NEW q \in ListQuestions, NEW a \in q.entries, NEW b \in q.entries, NEW c \in q.entries
  PROVE  /\ a # b => TiedBefore(a, b) \/ TiedBefore(b, a)
         /\ ~(TiedBefore(a, b) /\ TiedBefore(b, a))
         /\ TiedBefore(a, b) /\ TiedBefore(b, c) => TiedBefore(a, c)
<1>1. a.id \in Int /\ b.id \in Int /\ c.id \in Int
  BY ListFacts DEF EntryOnTheDay
<1>2. a # b => a.id # b.id
  BY ListFacts
<1>3. QED BY <1>1, <1>2, SMT DEF TiedBefore

\* compareAppointments is a strict total order on the entries of a list.
LEMMA BeforeIsTotal ==
  ASSUME NEW q \in ListQuestions, NEW a \in q.entries, NEW b \in q.entries, NEW c \in q.entries
  PROVE  /\ a # b => Before(a, b, q.sort) \/ Before(b, a, q.sort)
         /\ ~(Before(a, b, q.sort) /\ Before(b, a, q.sort))
         /\ Before(a, b, q.sort) /\ Before(b, c, q.sort) => Before(a, c, q.sort)
<1>1. PICK va, vb, vc \in Int : /\ va = SortValue(a, q.sort.column)
                                /\ vb = SortValue(b, q.sort.column)
                                /\ vc = SortValue(c, q.sort.column)
  BY SortValueType, ListFacts
<1>2. /\ a # b => TiedBefore(a, b) \/ TiedBefore(b, a)
      /\ ~(TiedBefore(a, b) /\ TiedBefore(b, a))
      /\ TiedBefore(a, b) /\ TiedBefore(b, c) => TiedBefore(a, c)
      /\ TiedBefore(c, b) /\ TiedBefore(b, a) => TiedBefore(c, a)
  BY TiesAreBroken
<1>3. CASE q.sort.dir = "asc"
  <2>1. /\ Before(a, b, q.sort) <=> va < vb \/ (va = vb /\ TiedBefore(a, b))
        /\ Before(b, a, q.sort) <=> vb < va \/ (vb = va /\ TiedBefore(b, a))
        /\ Before(b, c, q.sort) <=> vb < vc \/ (vb = vc /\ TiedBefore(b, c))
        /\ Before(a, c, q.sort) <=> va < vc \/ (va = vc /\ TiedBefore(a, c))
    BY <1>1, <1>3 DEF Before
  <2>2. QED BY <1>2, <2>1
<1>4. CASE q.sort.dir # "asc"
  <2>1. /\ Before(a, b, q.sort) <=> vb < va \/ (vb = va /\ TiedBefore(b, a))
        /\ Before(b, a, q.sort) <=> va < vb \/ (va = vb /\ TiedBefore(a, b))
        /\ Before(b, c, q.sort) <=> vc < vb \/ (vc = vb /\ TiedBefore(c, b))
        /\ Before(a, c, q.sort) <=> vc < va \/ (vc = va /\ TiedBefore(c, a))
    BY <1>1, <1>4 DEF Before
  <2>2. QED BY <1>2, <2>1
<1>5. QED BY <1>3, <1>4

\* An earlier entry has no later sort value.
LEMMA BeforeFollowsTheColumn ==
  ASSUME NEW q \in ListQuestions, NEW a \in q.entries, NEW b \in q.entries, Before(a, b, q.sort)
  PROVE  IF q.sort.dir = "asc" THEN SortValue(a, q.sort.column) <= SortValue(b, q.sort.column)
                               ELSE SortValue(b, q.sort.column) <= SortValue(a, q.sort.column)
<1>1. SortValue(a, q.sort.column) \in Int /\ SortValue(b, q.sort.column) \in Int
  BY SortValueType, ListFacts
<1>2. QED BY <1>1 DEF Before

\* The order of arrival, of rows that are each stored once, decides nothing.
LEMMA ArrivalDecidesNothing ==
  ASSUME NEW q \in ListQuestions, NEW arrival \in SetToSeqs(q.entries)
  PROVE  Combined(KeptOf(q), q.sort, arrival) = ListOf(q)
<1>1. ASSUME NEW x PROVE ~ArrivedFirst(arrival, x, x)
  <2>1. \A i, j \in DOMAIN arrival : i # j => arrival[i] # arrival[j]
    BY DEF SetToSeqs
  <2>2. \A i, j \in DOMAIN arrival : i \in Int /\ j \in Int
    BY DEF SetToSeqs
  <2>3. QED BY <2>1, <2>2 DEF ArrivedFirst
<1>2. ASSUME NEW e \in KeptOf(q) PROVE Place(e, KeptOf(q), q.sort, arrival) = Rank(e, q)
  <2>1. ASSUME NEW x \in KeptOf(q), ~Before(e, x, q.sort), ArrivedFirst(arrival, x, e)
        PROVE  Before(x, e, q.sort)
    <3>1. x # e
      BY <1>1, <2>1
    <3>2. x \in q.entries /\ e \in q.entries
      BY ListFacts
    <3>3. QED BY <2>1, <3>1, <3>2, BeforeIsTotal
  <2>2. {x \in KeptOf(q) : \/ Before(x, e, q.sort)
                           \/ ~Before(e, x, q.sort) /\ ArrivedFirst(arrival, x, e)}
        = {x \in KeptOf(q) : Before(x, e, q.sort)}
    BY <2>1
  <2>3. QED BY <2>2 DEF Place, Rank, Ahead
<1>3. ASSUME NEW n PROVE (CHOOSE e \in KeptOf(q) : Place(e, KeptOf(q), q.sort, arrival) = n)
                          = (CHOOSE e \in KeptOf(q) : Rank(e, q) = n)
  BY <1>2
<1>4. QED BY <1>3 DEF Combined, ListOf

\* Every place from first to last is taken, by one entry.
LEMMA RanksCount ==
  ASSUME NEW q \in ListQuestions
  PROVE  /\ IsFiniteSet(KeptOf(q)) /\ Cardinality(KeptOf(q)) \in Nat
         /\ \A e \in KeptOf(q) : Rank(e, q) \in 1..Cardinality(KeptOf(q))
         /\ \A a, b \in KeptOf(q) : Before(a, b, q.sort) => Rank(a, q) < Rank(b, q)
<1>1. IsFiniteSet(KeptOf(q)) /\ Cardinality(KeptOf(q)) \in Nat
  BY ListFacts, FS_Subset, FS_CardinalityType
<1>2. ASSUME NEW e \in KeptOf(q)
      PROVE  /\ IsFiniteSet(Ahead(e, q)) /\ Cardinality(Ahead(e, q)) \in Nat
             /\ Cardinality(Ahead(e, q)) < Cardinality(KeptOf(q))
  <2>1. Ahead(e, q) \in SUBSET KeptOf(q)
    BY DEF Ahead
  <2>2. IsFiniteSet(Ahead(e, q)) /\ Cardinality(Ahead(e, q)) <= Cardinality(KeptOf(q))
        /\ (Cardinality(KeptOf(q)) = Cardinality(Ahead(e, q)) => KeptOf(q) = Ahead(e, q))
    BY <1>1, <2>1, FS_Subset
  <2>3. e \notin Ahead(e, q)
    <3>1. e \in q.entries
      BY ListFacts
    <3>2. QED BY <3>1, BeforeIsTotal DEF Ahead
  <2>4. Cardinality(Ahead(e, q)) \in Nat
    BY <2>2, FS_CardinalityType
  <2>5. QED BY <1>1, <2>2, <2>3, <2>4
<1>3. ASSUME NEW a \in KeptOf(q), NEW b \in KeptOf(q), Before(a, b, q.sort)
      PROVE  Cardinality(Ahead(a, q)) < Cardinality(Ahead(b, q))
  <2>1. a \in q.entries /\ b \in q.entries /\ \A x \in KeptOf(q) : x \in q.entries
    BY ListFacts
  <2>2. Ahead(a, q) \in SUBSET Ahead(b, q)
    BY <1>3, <2>1, BeforeIsTotal DEF Ahead
  <2>3. a \in Ahead(b, q) /\ a \notin Ahead(a, q)
    BY <1>3, <2>1, BeforeIsTotal DEF Ahead
  <2>4. Cardinality(Ahead(a, q)) <= Cardinality(Ahead(b, q))
        /\ (Cardinality(Ahead(b, q)) = Cardinality(Ahead(a, q)) => Ahead(b, q) = Ahead(a, q))
    BY <1>2, <2>2, FS_Subset
  <2>5. QED BY <1>2, <2>3, <2>4
<1>4. \A e \in KeptOf(q) : Rank(e, q) = 1 + Cardinality(Ahead(e, q))
  BY DEF Rank
<1>5. QED BY <1>1, <1>2, <1>3, <1>4

\* The list has every kept entry once, each at its place.
LEMMA ListIsComplete ==
  ASSUME NEW q \in ListQuestions
  PROVE  /\ ListOf(q) \in Seq(KeptOf(q))
         /\ Len(ListOf(q)) = Cardinality(KeptOf(q))
         /\ \A n \in 1..Cardinality(KeptOf(q)) : Rank(ListOf(q)[n], q) = n
         /\ \A e \in KeptOf(q) : \E n \in 1..Cardinality(KeptOf(q)) : ListOf(q)[n] = e
<1> DEFINE N == Cardinality(KeptOf(q))
           places == [e \in KeptOf(q) |-> Rank(e, q)]
<1>1. /\ IsFiniteSet(KeptOf(q)) /\ N \in Nat
      /\ \A e \in KeptOf(q) : Rank(e, q) \in 1..N
      /\ \A a, b \in KeptOf(q) : Before(a, b, q.sort) => Rank(a, q) < Rank(b, q)
  BY RanksCount
<1>2. ASSUME NEW a \in KeptOf(q), NEW b \in KeptOf(q), Rank(a, q) = Rank(b, q) PROVE a = b
  <2>1. a \in q.entries /\ b \in q.entries
    BY ListFacts
  <2>2. a # b => Before(a, b, q.sort) \/ Before(b, a, q.sort)
    BY <2>1, BeforeIsTotal
  <2>3. QED BY <1>1, <1>2, <2>2
<1>3. places \in Injection(KeptOf(q), 1..N)
  BY <1>1, <1>2 DEF Injection, IsInjective
<1>4. IsFiniteSet(1..N) /\ Cardinality(1..N) = N
  <2>1. N \in Int /\ ~(1 > N) => N - 1 + 1 = N
    BY <1>1
  <2>2. 1 > N => N = 0
    BY <1>1
  <2>3. QED BY <1>1, <2>1, <2>2, FS_Interval
<1>5. places \in Surjection(KeptOf(q), 1..N)
  BY <1>3, <1>4, FS_Injection
<1>6. \A n \in 1..N : \E e \in KeptOf(q) : Rank(e, q) = n
  BY <1>5 DEF Surjection
<1>7. \A n \in 1..N : ListOf(q)[n] \in KeptOf(q) /\ Rank(ListOf(q)[n], q) = n
  BY <1>6 DEF ListOf
<1>8. ListOf(q) \in [1..N -> KeptOf(q)]
  BY <1>7 DEF ListOf
<1>9. ListOf(q) \in Seq(KeptOf(q)) /\ Len(ListOf(q)) = N
  BY <1>1, <1>8
<1>10. ASSUME NEW e \in KeptOf(q) PROVE \E n \in 1..N : ListOf(q)[n] = e
  <2>1. ListOf(q)[Rank(e, q)] = e
    BY <1>1, <1>2, <1>7
  <2>2. QED BY <1>1, <2>1
<1>11. QED BY <1>7, <1>9, <1>10

\* Where the pages before page p end.
LEMMA PageOffset ==
  ASSUME NEW p \in Nat, p > 0, NEW limit \in Nat
  PROVE  /\ (p - 1) * limit \in Nat
         /\ p * limit = (p - 1) * limit + limit
         /\ ((p + 1) - 1) * limit = p * limit
<1>1. PICK n \in Nat : n = p - 1
  OBVIOUS
<1>2. n * limit \in Nat
  OBVIOUS
<1>3. (n + 1) * limit = n * limit + limit
  OBVIOUS
<1>4. p = n + 1 /\ (p + 1) - 1 = p
  BY <1>1
<1>5. QED BY <1>1, <1>2, <1>3, <1>4

\* A request continues the list where the one before it stopped.
LEMMA PageContinues ==
  ASSUME NEW q \in ListQuestions, NEW arrival \in SetToSeqs(q.entries),
         NEW p \in Nat, p > 0, NEW page,
         page = Page(q.entries, q.slots, q.now, q.sort, q.conflicting, arrival, q.limit, p),
         (p - 1) * q.limit <= Cardinality(KeptOf(q))
  PROVE  /\ page.total = Cardinality(KeptOf(q))
         /\ p * q.limit >= page.total =>
              SubSeq(ListOf(q), 1, (p - 1) * q.limit) \o page.rows = ListOf(q)
         /\ ~(p * q.limit >= page.total) =>
              /\ SubSeq(ListOf(q), 1, (p - 1) * q.limit) \o page.rows = SubSeq(ListOf(q), 1, p * q.limit)
              /\ p * q.limit <= Cardinality(KeptOf(q))
<1>1. PICK N : N = Cardinality(KeptOf(q))
  OBVIOUS
<1>2. N \in Nat /\ ListOf(q) \in Seq(KeptOf(q)) /\ Len(ListOf(q)) = N
  BY <1>1, RanksCount, ListIsComplete
<1>3. PICK k \in Nat : k = (p - 1) * q.limit
  BY PageOffset, ListFacts
<1>4. p * q.limit = k + q.limit /\ q.limit \in Nat
  BY <1>3, PageOffset, ListFacts
<1>5. PICK upto : upto = IF p * q.limit < N THEN p * q.limit ELSE N
  OBVIOUS
<1>6. upto \in Nat /\ upto <= N /\ k <= upto
  BY <1>1, <1>2, <1>3, <1>4, <1>5
<1>7. page.rows = SubSeq(ListOf(q), k + 1, upto) /\ page.total = N
  BY <1>1, <1>3, <1>5, ArrivalDecidesNothing DEF Page, KeptOf
<1>8. SubSeq(ListOf(q), 1, k) \o page.rows = SubSeq(ListOf(q), 1, upto)
  <2>1. 1 \in 1..(Len(ListOf(q)) + 1) /\ k \in (1 - 1)..Len(ListOf(q)) /\ upto \in k..Len(ListOf(q))
    BY <1>2, <1>6
  <2>2. QED BY <1>2, <1>7, <2>1, ConcatAdjacentSubSeq
<1>9. SubSeq(ListOf(q), 1, N) = ListOf(q)
  BY <1>2, SubSeqFull
<1>10. CASE p * q.limit < N
  <2>1. PICK m \in Nat : m = p * q.limit
    BY <1>3, <1>4
  <2>2. upto = m /\ m < N
    BY <1>5, <1>10, <2>1
  <2>3. ~(m >= page.total) /\ m <= N
    BY <1>2, <1>7, <2>2
  <2>4. SubSeq(ListOf(q), 1, k) \o page.rows = SubSeq(ListOf(q), 1, m)
    BY <1>8, <2>2
  <2>5. QED BY <1>1, <1>3, <1>7, <2>1, <2>3, <2>4
<1>11. CASE ~(p * q.limit < N)
  <2>1. upto = N /\ p * q.limit >= page.total
    BY <1>2, <1>4, <1>5, <1>7, <1>11
  <2>2. QED BY <1>1, <1>3, <1>7, <1>8, <1>9, <2>1
<1>12. QED BY <1>10, <1>11

\* What a client has seen is the list up to the page it asks for next.
ListInv ==
  question.kind = "list" =>
    /\ question \in ListQuestions
    /\ answer.page \in Nat /\ answer.page > 0
    /\ phase = "asked" =>
         /\ (answer.page - 1) * question.limit <= Cardinality(KeptOf(question))
         /\ answer.seen = SubSeq(ListOf(question), 1, (answer.page - 1) * question.limit)
    /\ phase = "done" => answer.seen = ListOf(question)

\* Nothing has been seen yet.
LEMMA ListInitInv == Init => ListInv
<1> SUFFICES ASSUME Init, question.kind = "list"
    PROVE  /\ question \in ListQuestions
           /\ answer.page \in Nat /\ answer.page > 0
           /\ (answer.page - 1) * question.limit <= Cardinality(KeptOf(question))
           /\ answer.seen = SubSeq(ListOf(question), 1, (answer.page - 1) * question.limit)
           /\ phase = "asked"
  BY DEF ListInv
<1>1. question \in ListQuestions
  BY QuestionsAssumption DEF Init
<1>2. answer.page = 1 /\ answer.seen = << >> /\ phase = "asked"
  BY DEF Init
<1>3. question.limit \in Nat /\ Cardinality(KeptOf(question)) \in Nat
  BY <1>1, ListFacts, RanksCount
<1>4. (answer.page - 1) * question.limit = 0
  BY <1>2, <1>3
<1>5. SubSeq(ListOf(question), 1, 0) = << >>
  BY SubSeqEmpty
<1>6. QED BY <1>1, <1>2, <1>3, <1>4, <1>5

\* Each page continues the last; the other questions leave a list alone.
LEMMA ListStepInv == ListInv /\ [Next]_vars => ListInv'
<1> SUFFICES ASSUME ListInv, [Next]_vars PROVE ListInv'
  OBVIOUS
<1>1. CASE RejectRule
  BY <1>1 DEF RejectRule, ListInv
<1>2. CASE BeginWalk
  BY <1>2 DEF BeginWalk, ListInv
<1>3. CASE Walk
  BY <1>3 DEF Walk, ListInv
<1>4. CASE EndWalk
  BY <1>4 DEF EndWalk, ListInv
<1>5. CASE ComputeDay
  BY <1>5 DEF ComputeDay, ListInv
<1>6. CASE FetchPage
  <2> DEFINE Asked(arrival) == Page(question.entries, question.slots, question.now, question.sort,
                                    question.conflicting, arrival, question.limit, answer.page)
  <2>1. PICK arrival \in SetToSeqs(question.entries) :
          /\ answer' = [page |-> answer.page + 1, seen |-> answer.seen \o Asked(arrival).rows]
          /\ phase' = IF answer.page * question.limit >= Asked(arrival).total THEN "done" ELSE "asked"
    BY <1>6 DEF FetchPage
  <2>2. PICK page : page = Asked(arrival)
    OBVIOUS
  <2>3. /\ answer' = [page |-> answer.page + 1, seen |-> answer.seen \o page.rows]
        /\ phase' = IF answer.page * question.limit >= page.total THEN "done" ELSE "asked"
    BY <2>1, <2>2
  <2>4. question' = question /\ phase = "asked" /\ question.kind = "list"
    BY <1>6 DEF FetchPage
  <2>5. /\ question \in ListQuestions /\ answer.page \in Nat /\ answer.page > 0
        /\ (answer.page - 1) * question.limit <= Cardinality(KeptOf(question))
        /\ answer.seen = SubSeq(ListOf(question), 1, (answer.page - 1) * question.limit)
    BY <2>4 DEF ListInv
  <2>6. /\ answer.page * question.limit >= page.total =>
             answer.seen \o page.rows = ListOf(question)
        /\ ~(answer.page * question.limit >= page.total) =>
             /\ answer.seen \o page.rows = SubSeq(ListOf(question), 1, answer.page * question.limit)
             /\ answer.page * question.limit <= Cardinality(KeptOf(question))
    <3>1. PICK p \in Nat : p = answer.page
      BY <2>5
    <3>2. PICK q \in ListQuestions : q = question
      BY <2>5
    <3>3. /\ p > 0 /\ (p - 1) * q.limit <= Cardinality(KeptOf(q))
          /\ arrival \in SetToSeqs(q.entries)
          /\ page = Page(q.entries, q.slots, q.now, q.sort, q.conflicting, arrival, q.limit, p)
      BY <2>5, <2>1, <2>2, <3>1, <3>2
    <3>4. /\ p * q.limit >= page.total =>
               SubSeq(ListOf(q), 1, (p - 1) * q.limit) \o page.rows = ListOf(q)
          /\ ~(p * q.limit >= page.total) =>
               /\ SubSeq(ListOf(q), 1, (p - 1) * q.limit) \o page.rows = SubSeq(ListOf(q), 1, p * q.limit)
               /\ p * q.limit <= Cardinality(KeptOf(q))
      BY <3>3, PageContinues, Zenon
    <3>5. QED BY <2>5, <3>1, <3>2, <3>4, Zenon
  <2>7. answer'.page = answer.page + 1 /\ answer'.seen = answer.seen \o page.rows
    BY <2>3
  <2>8. (answer'.page - 1) * question.limit = answer.page * question.limit
    BY <2>5, <2>7
  <2>9. answer'.page \in Nat /\ answer'.page > 0
    BY <2>5, <2>7
  <2>10. CASE answer.page * question.limit >= page.total
    <3>1. phase' = "done" /\ answer'.seen = ListOf(question)
      BY <2>3, <2>6, <2>7, <2>10
    <3>2. QED BY <2>4, <2>5, <2>9, <3>1 DEF ListInv
  <2>11. CASE ~(answer.page * question.limit >= page.total)
    <3>1. /\ phase' = "asked"
          /\ answer'.seen = SubSeq(ListOf(question), 1, (answer'.page - 1) * question.limit)
          /\ (answer'.page - 1) * question.limit <= Cardinality(KeptOf(question))
      BY <2>3, <2>6, <2>7, <2>8, <2>11
    <3>2. QED BY <2>4, <2>5, <2>9, <3>1 DEF ListInv
  <2>12. QED BY <2>10, <2>11
<1>7. CASE UNCHANGED vars
  BY <1>7 DEF vars, ListInv
<1>8. QED BY <1>1, <1>2, <1>3, <1>4, <1>5, <1>6, <1>7 DEF Next

\* Whoever pages through the appointments of a range (GET /appointments) sees every entry
\* once and in the order of the column, although every page reads, flags and sorts the
\* range again, rows arrive in any order and many tie on the column.
THEOREM PagesCoverTheList == Spec => []PagesPartition
<1>1. ASSUME ListInv PROVE PagesPartition
  <2>1. SUFFICES ASSUME Answered("list")
        PROVE  /\ ToSet(answer.seen) = KeptOf(question)
               /\ Len(answer.seen) = Cardinality(KeptOf(question))
               /\ \A i, j \in DOMAIN answer.seen : i < j =>
                    IF question.sort.dir = "asc"
                    THEN SortValue(answer.seen[i], question.sort.column)
                           <= SortValue(answer.seen[j], question.sort.column)
                    ELSE SortValue(answer.seen[j], question.sort.column)
                           <= SortValue(answer.seen[i], question.sort.column)
    BY DEF PagesPartition, KeptOf
  <2>2. PICK q \in ListQuestions : q = question
    BY <1>1, <2>1 DEF ListInv, Answered
  <2>3. answer.seen = ListOf(q)
    BY <1>1, <2>1, <2>2 DEF ListInv, Answered
  <2>4. PICK N \in Nat : N = Cardinality(KeptOf(q))
    BY RanksCount
  <2>5. /\ ListOf(q) \in Seq(KeptOf(q)) /\ Len(ListOf(q)) = N
        /\ \A n \in 1..N : Rank(ListOf(q)[n], q) = n
        /\ \A e \in KeptOf(q) : \E n \in 1..N : ListOf(q)[n] = e
    BY <2>4, ListIsComplete
  <2>6. DOMAIN ListOf(q) = 1..N /\ \A n \in 1..N : ListOf(q)[n] \in KeptOf(q)
    BY <2>5
  <2>7. ToSet(ListOf(q)) = KeptOf(q)
    BY <2>5, <2>6 DEF ToSet
  <2>8. ASSUME NEW i \in 1..N, NEW j \in 1..N, i < j PROVE Before(ListOf(q)[i], ListOf(q)[j], q.sort)
    <3>1. PICK a, b \in KeptOf(q) : a = ListOf(q)[i] /\ b = ListOf(q)[j]
      BY <2>6
    <3>2. Rank(a, q) = i /\ Rank(b, q) = j
      BY <2>5, <3>1
    <3>3. a # b /\ ~Before(b, a, q.sort)
      BY <2>8, <3>2, RanksCount
    <3>4. a \in q.entries /\ b \in q.entries
      BY ListFacts
    <3>5. QED BY <3>1, <3>3, <3>4, BeforeIsTotal
  <2>9. ASSUME NEW i \in 1..N, NEW j \in 1..N, i < j
        PROVE  IF q.sort.dir = "asc"
               THEN SortValue(ListOf(q)[i], q.sort.column) <= SortValue(ListOf(q)[j], q.sort.column)
               ELSE SortValue(ListOf(q)[j], q.sort.column) <= SortValue(ListOf(q)[i], q.sort.column)
    <3>1. ListOf(q)[i] \in q.entries /\ ListOf(q)[j] \in q.entries
      BY <2>6, ListFacts
    <3>2. QED BY <2>8, <2>9, <3>1, BeforeFollowsTheColumn
  <2>10. QED BY <2>2, <2>3, <2>4, <2>5, <2>6, <2>7, <2>9
<1>2. QED BY <1>1, ListInitInv, ListStepInv, PTL DEF Spec

----------------------------------------------------------------------------
(* Dates: the calendar *)

\* A month number is a year and a month of it.
LEMMA YearAndMonth ==
  ASSUME NEW n \in Int
  PROVE  \E y \in Int, m \in 0..11 : n = 12 * y + m /\ n \div 12 = y /\ n % 12 = m
<1>1. n = 12 * (n \div 12) + (n % 12) /\ n % 12 \in 0..11 /\ n \div 12 \in Int
  BY SMT
<1>2. QED BY <1>1

\* Days before 1 January of the year p + 1.
YearStart(p) == (365 * p) + (p \div 4) - (p \div 100) + (p \div 400)
LeapDay(y) == IF IsLeap(y) THEN 1 ELSE 0

\* A year has 365 days, a leap year one more.
LEMMA YearLength ==
  ASSUME NEW p \in Int
  PROVE  /\ YearStart(p) \in Int /\ LeapDay(p + 1) \in {0, 1}
         /\ YearStart(p + 1) = YearStart(p) + 365 + LeapDay(p + 1)
<1>1. (p + 1) \div 4 - (p + 1) \div 100 + (p + 1) \div 400
        = p \div 4 - p \div 100 + p \div 400 + (IF IsLeap(p + 1) THEN 1 ELSE 0)
  BY SMT DEF IsLeap
<1>2. YearStart(p) \in Int
  BY DEF YearStart
<1>3. QED BY <1>1, <1>2 DEF YearStart, LeapDay

\* The table of days before a month holds numbers.
LEMMA DaysBeforeType == \A m \in 0..11 : DaysBeforeMonth[m + 1] \in Int
  BY SMT DEF DaysBeforeMonth

\* Where a month begins and how long it is.
LEMMA MonthInYear ==
  ASSUME NEW y \in Int, NEW m \in 0..11
  PROVE  /\ DayNumber(12 * y + m, 1)
              = YearStart(y - 1) + DaysBeforeMonth[m + 1] + (IF m > 1 THEN LeapDay(y) ELSE 0)
         /\ DaysInMonth(12 * y + m)
              = IF m = 1 THEN 28 + LeapDay(y) ELSE IF m \in {3, 5, 8, 10} THEN 30 ELSE 31
<1>1. PICK n \in Int : n = 12 * y + m
  OBVIOUS
<1>2. n \div 12 = y /\ n % 12 = m
  BY <1>1, SMT
<1>3. PICK b : b = DaysBeforeMonth[m + 1]
  OBVIOUS
<1>4. b \in Int
  BY <1>3, DaysBeforeType
<1>5. DayNumber(n, 1) = YearStart(y - 1) + b + (IF m > 1 THEN LeapDay(y) ELSE 0)
  <2>1. y - 1 + 1 = y /\ (m + 1 > 2 <=> m > 1)
    OBVIOUS
  <2>2. YearStart(y - 1) \in Int
    BY YearLength
  <2>3. DayNumber(n, 1) = YearStart(y - 1) + b + (IF m + 1 > 2 /\ IsLeap(y - 1 + 1) THEN 1 ELSE 0) + 1 - 1
    BY <1>2, <1>3 DEF DayNumber, YearStart
  <2>4. QED BY <1>4, <2>1, <2>2, <2>3 DEF LeapDay
<1>6. DaysInMonth(n) = IF m = 1 THEN 28 + LeapDay(y) ELSE IF m \in {3, 5, 8, 10} THEN 30 ELSE 31
  BY <1>2 DEF DaysInMonth, LeapDay
<1>7. QED BY <1>1, <1>3, <1>5, <1>6

\* A month begins where the one before it ends.
LEMMA NextMonth ==
  ASSUME NEW n \in Int
  PROVE  /\ DayNumber(n, 1) \in Int
         /\ DaysInMonth(n) \in 28..31
         /\ DayNumber(n + 1, 1) = DayNumber(n, 1) + DaysInMonth(n)
<1>1. PICK y \in Int, m \in 0..11 : n = 12 * y + m
  BY YearAndMonth
<1>2. PICK z \in Int : z = YearStart(y - 1)
  BY YearLength
<1>3. PICK p \in Int : p = y - 1 /\ p + 1 = y
  OBVIOUS
<1>4. PICK leap \in {0, 1} : leap = LeapDay(y)
  BY DEF LeapDay
<1>5. YearStart(y) = z + 365 + leap
  BY <1>2, <1>4, <1>3, YearLength
<1>6. DayNumber(n, 1) = z + DaysBeforeMonth[m + 1] + (IF m > 1 THEN leap ELSE 0)
      /\ DaysInMonth(n) = IF m = 1 THEN 28 + leap ELSE IF m \in {3, 5, 8, 10} THEN 30 ELSE 31
  <2>1. /\ DayNumber(12 * y + m, 1)
             = YearStart(y - 1) + DaysBeforeMonth[m + 1] + (IF m > 1 THEN LeapDay(y) ELSE 0)
        /\ DaysInMonth(12 * y + m)
             = IF m = 1 THEN 28 + LeapDay(y) ELSE IF m \in {3, 5, 8, 10} THEN 30 ELSE 31
    BY MonthInYear
  <2>2. QED BY <1>1, <1>2, <1>4, <2>1
<1>7. DaysBeforeMonth[m + 1] \in Int
  BY DaysBeforeType
<1>8. CASE m < 11
  <2>1. PICK k \in 0..11 : k = m + 1
    BY <1>8
  <2>2. n + 1 = 12 * y + k
    BY <1>1, <2>1
  <2>3. DayNumber(n + 1, 1) = z + DaysBeforeMonth[k + 1] + (IF k > 1 THEN leap ELSE 0)
    <3>1. DayNumber(12 * y + k, 1)
            = YearStart(y - 1) + DaysBeforeMonth[k + 1] + (IF k > 1 THEN LeapDay(y) ELSE 0)
      BY MonthInYear
    <3>2. QED BY <1>2, <1>4, <2>2, <3>1
  <2>4. DaysBeforeMonth[k + 1] \in Int
        /\ DaysBeforeMonth[k + 1]
             = DaysBeforeMonth[m + 1] + (IF m = 1 THEN 28 ELSE IF m \in {3, 5, 8, 10} THEN 30 ELSE 31)
    BY <1>8, <2>1, SMT DEF DaysBeforeMonth
  <2>5. QED BY <1>6, <1>7, <2>1, <2>3, <2>4
<1>9. CASE m = 11
  <2>1. PICK next \in Int, k \in 0..11 : next = y + 1 /\ k = 0
    OBVIOUS
  <2>2. DayNumber(n + 1, 1) = YearStart(y) + DaysBeforeMonth[1] + 0
    <3>1. n + 1 = 12 * next + k /\ next - 1 = y /\ k + 1 = 1 /\ ~(k > 1)
      BY <1>1, <1>9, <2>1
    <3>2. DayNumber(12 * next + k, 1)
            = YearStart(next - 1) + DaysBeforeMonth[k + 1] + (IF k > 1 THEN LeapDay(next) ELSE 0)
      BY MonthInYear
    <3>3. QED BY <3>1, <3>2
  <2>3. DaysBeforeMonth[1] = 0 /\ DaysBeforeMonth[12] = 334
    BY DEF DaysBeforeMonth
  <2>4. QED BY <1>5, <1>6, <1>9, <2>2, <2>3
<1>10. QED BY <1>8, <1>9

\* Months follow one another.
LEMMA LaterMonth ==
  ASSUME NEW a \in Int, NEW b \in Int, a <= b
  PROVE  DayNumber(a, 1) <= DayNumber(b, 1)
<1> DEFINE S == {n \in Nat : ~(DayNumber(a, 1) <= DayNumber(a + n, 1))}
<1>1. SUFFICES S = {}
  <2>1. b - a \in Nat /\ a + (b - a) = b
    OBVIOUS
  <2>2. QED BY <2>1, <1>1
<1>2. SUFFICES ASSUME S # {} PROVE FALSE
  OBVIOUS
<1>3. PICK n \in S : \A m \in S : n <= m
  BY <1>2, LeastNat
<1>4. n # 0
  BY NextMonth
<1>5. n - 1 \in Nat /\ n - 1 \notin S
  BY <1>3, <1>4
<1>6. DayNumber(a, 1) <= DayNumber(a + (n - 1), 1)
  BY <1>5
<1>7. /\ DayNumber(a, 1) \in Int /\ DayNumber(a + (n - 1), 1) \in Int
      /\ DayNumber(a + n, 1) \in Int /\ DayNumber(a + (n - 1), 1) <= DayNumber(a + n, 1)
  <2>1. PICK k \in Int : k = a + (n - 1) /\ k + 1 = a + n
    OBVIOUS
  <2>2. QED BY <2>1, NextMonth
<1>8. QED BY <1>3, <1>6, <1>7
\* A month ends before a later one begins.
LEMMA LaterMonthAhead ==
  ASSUME NEW a \in Int, NEW b \in Int, a < b
  PROVE  DayNumber(a + 1, 1) <= DayNumber(b, 1)
<1>1. PICK c \in Int : c = a + 1 /\ c <= b
  OBVIOUS
<1>2. QED BY <1>1, LaterMonth

\* The day is one of the month.
InMonth(day, n) == DayNumber(n, 1) <= day /\ day < DayNumber(n + 1, 1)

\* A day lies in one month.
LEMMA OneMonth ==
  ASSUME NEW day \in Int, NEW a \in Int, NEW b \in Int, InMonth(day, a), InMonth(day, b)
  PROVE  a = b
<1>1. PICK a1, b1 \in Int : a1 = a + 1 /\ b1 = b + 1
  OBVIOUS
<1>2. /\ DayNumber(a, 1) \in Int /\ DayNumber(b, 1) \in Int
      /\ DayNumber(a1, 1) \in Int /\ DayNumber(b1, 1) \in Int
  BY NextMonth
<1>3. ~(a < b)
  <2>1. a < b => DayNumber(a1, 1) <= DayNumber(b, 1)
    BY <1>1, LaterMonthAhead
  <2>2. QED BY <1>1, <1>2, <2>1 DEF InMonth
<1>4. ~(b < a)
  <2>1. b < a => DayNumber(b1, 1) <= DayNumber(a, 1)
    BY <1>1, LaterMonthAhead
  <2>2. QED BY <1>1, <1>2, <2>1 DEF InMonth
<1>5. QED BY <1>3, <1>4

\* MonthOf finds the month of a day of the model.
LEMMA MonthOfDay ==
  ASSUME NEW day \in Int, Dated(day)
  PROVE  MonthOf(day) \in Months /\ MonthOf(day) \in Int /\ InMonth(day, MonthOf(day))
<1>1. \E n \in Months : InMonth(day, n)
  BY DEF Dated, InMonth
<1>2. MonthOf(day) = CHOOSE n \in Months : InMonth(day, n)
  BY DEF MonthOf, InMonth
<1>3. MonthOf(day) \in Months /\ InMonth(day, MonthOf(day))
  BY <1>1, <1>2
<1>4. QED BY <1>3, MonthsAssumption

\* And no other.
LEMMA MonthIs ==
  ASSUME NEW day \in Int, Dated(day), NEW n \in Int, InMonth(day, n)
  PROVE  MonthOf(day) = n
BY MonthOfDay, OneMonth

\* The months of the model have no gap.
LEMMA DatedBetween ==
  ASSUME NEW a \in Int, NEW b \in Int, Dated(a), Dated(b), NEW day \in a..b
  PROVE  Dated(day)
<1>1. PICK ma, mb \in Int : /\ ma = MonthOf(a) /\ mb = MonthOf(b) /\ ma \in Months /\ mb \in Months
                            /\ InMonth(a, ma) /\ InMonth(b, mb)
  BY MonthOfDay
<1>2. day \in Int /\ a <= day /\ day <= b
  OBVIOUS
<1>3. \A n \in Int : DayNumber(n, 1) \in Int
  BY NextMonth
<1>4. ma <= mb
  <2>1. PICK mb1 \in Int : mb1 = mb + 1
    OBVIOUS
  <2>2. mb < ma => DayNumber(mb1, 1) <= DayNumber(ma, 1)
    BY <2>1, LaterMonthAhead
  <2>3. DayNumber(ma, 1) <= a /\ b < DayNumber(mb1, 1)
    BY <1>1, <2>1 DEF InMonth
  <2>4. QED BY <1>2, <1>3, <2>2, <2>3
<1> DEFINE S == {n \in Nat : day < DayNumber((ma + n) + 1, 1)}
<1>5. mb - ma \in S
  <2>1. PICK n \in Nat : n = mb - ma /\ (ma + n) = mb
    BY <1>4
  <2>2. b < DayNumber((ma + n) + 1, 1)
    BY <1>1, <2>1 DEF InMonth
  <2>3. PICK k \in Int : k = (ma + n) + 1
    OBVIOUS
  <2>4. QED BY <1>2, <1>3, <2>1, <2>2, <2>3
<1>6. PICK n \in S : \A m \in S : n <= m
  BY <1>5, LeastNat
<1>7. DayNumber(ma + n, 1) <= day
  <2>1. CASE n = 0
    BY <1>1, <1>2, <1>3, <2>1 DEF InMonth
  <2>2. CASE n # 0
    <3>1. PICK m \in Nat : m = n - 1 /\ (ma + m) + 1 = ma + n
      BY <2>2
    <3>2. m \notin S
      BY <1>6, <3>1
    <3>3. ma + n \in Int
      OBVIOUS
    <3>4. QED BY <1>2, <1>3, <3>1, <3>2, <3>3
  <2>3. QED BY <2>1, <2>2
<1>8. ma + n \in Months
  <2>1. ma + n \in ma..mb
    BY <1>1, <1>5, <1>6
  <2>2. QED BY <1>1, <2>1, MonthsAssumption
<1>9. day < DayNumber((ma + n) + 1, 1)
  BY <1>6
<1>10. QED BY <1>7, <1>8, <1>9 DEF Dated


----------------------------------------------------------------------------
(* Candidates *)

\* The days of a month are numbered on.
LEMMA DayInMonth ==
  ASSUME NEW n \in Int, NEW d \in Int
  PROVE  DayNumber(n, d) = DayNumber(n, 1) + d - 1
<1>1. PICK y \in Int, m \in 0..11 : n = 12 * y + m /\ n \div 12 = y /\ n % 12 = m
  BY YearAndMonth
<1>2. DaysBeforeMonth[m + 1] \in Int
  BY DaysBeforeType
<1>3. PICK b \in Int : b = DaysBeforeMonth[m + 1]
  BY <1>2
<1>4. PICK leap \in Int : leap = IF m + 1 > 2 /\ IsLeap(y - 1 + 1) THEN 1 ELSE 0
  OBVIOUS
<1>5. YearStart(y - 1) \in Int
  BY YearLength
<1>6. PICK z \in Int : z = YearStart(y - 1)
  BY <1>5
<1>7. /\ DayNumber(n, d) = z + b + leap + d - 1
      /\ DayNumber(n, 1) = z + b + leap + 1 - 1
  BY <1>1, <1>3, <1>4, <1>6 DEF DayNumber, YearStart
<1>8. QED BY <1>7

\* A month has the days from its first to its last.
LEMMA MonthEnds ==
  ASSUME NEW n \in Int
  PROVE  /\ DayNumber(n, 1) \in Int /\ DaysInMonth(n) \in 28..31
         /\ DayNumber(n, DaysInMonth(n)) = DayNumber(n, 1) + DaysInMonth(n) - 1
         /\ \A day \in Int : InMonth(day, n) <=>
              DayNumber(n, 1) <= day /\ day <= DayNumber(n, 1) + DaysInMonth(n) - 1
<1>1. PICK f \in Int, len \in 28..31 : /\ f = DayNumber(n, 1) /\ len = DaysInMonth(n)
                                      /\ DayNumber(n + 1, 1) = f + len
  BY NextMonth
<1>2. DayNumber(n, len) = f + len - 1
  <2>1. len \in Int
    OBVIOUS
  <2>2. QED BY <1>1, <2>1, DayInMonth
<1>3. \A day \in Int : InMonth(day, n) <=> f <= day /\ day <= f + len - 1
  BY <1>1 DEF InMonth
<1>4. QED BY <1>1, <1>2, <1>3

\* The first day of a weekday on or after a day.
LEMMA FirstWeekday ==
  ASSUME NEW day \in Int, NEW weekday \in 0..6
  PROVE  /\ FirstOnWeekday(day, weekday) \in day..(day + 6)
         /\ WeekdayOf(FirstOnWeekday(day, weekday)) = weekday
         /\ \A d \in day..(day + 6) : WeekdayOf(d) = weekday => d = FirstOnWeekday(day, weekday)
  BY SMT DEF FirstOnWeekday, WeekdayOf

\* Weeks later it is the same weekday.
LEMMA SameWeekday ==
  ASSUME NEW day \in Int, NEW n \in Int
  PROVE  WeekdayOf(day + 7 * n) = WeekdayOf(day)
  BY SMT DEF WeekdayOf

NthTest(day, n, nth) ==
  LET d == day - DayNumber(n, 1) + 1
  IN  IF nth = 5 THEN d + 7 > DaysInMonth(n) ELSE (d - 1) \div 7 = nth - 1

\* The n-th weekday of a month is the day the reference means.
LEMMA NthWeekdayIs ==
  ASSUME NEW n \in Int, NEW weekday \in 0..6, NEW nth \in 1..5
  PROVE  /\ \/ NthWeekday(n, weekday, nth) = Null
            \/ NthWeekday(n, weekday, nth) \in Int /\ InMonth(NthWeekday(n, weekday, nth), n)
         /\ \A day \in Int : InMonth(day, n) =>
              (NthWeekday(n, weekday, nth) = day <=> WeekdayOf(day) = weekday /\ NthTest(day, n, nth))
<1>1. PICK f \in Int, len \in 28..31 : f = DayNumber(n, 1) /\ len = DaysInMonth(n)
  BY MonthEnds
<1>2. DayNumber(n, len) = f + len - 1 /\ \A day \in Int : InMonth(day, n) <=> f <= day /\ day <= f + len - 1
  BY <1>1, MonthEnds
<1>3. \A day \in Int : NthTest(day, n, nth) <=> IF nth = 5 THEN day - f + 8 > len ELSE (day - f) \div 7 = nth - 1
  BY <1>1 DEF NthTest
<1>4. CASE nth = 5
  <2>1. PICK last \in Int : last = f + len - 1
    OBVIOUS
  <2>2. NthWeekday(n, weekday, nth) = last - ((WeekdayOf(last) - weekday + 7) % 7)
    BY <1>1, <1>2, <1>4, <2>1 DEF NthWeekday
  <2>3. PICK c \in Int : c = last - ((WeekdayOf(last) - weekday + 7) % 7)
    BY SMT DEF WeekdayOf
  <2>4. /\ c \in (last - 6)..last
        /\ \A day \in (last - 6)..last : day = c <=> WeekdayOf(day) = weekday
    BY <2>3, SMT DEF WeekdayOf
  <2>5. \A day \in Int : InMonth(day, n) => (NthTest(day, n, nth) <=> day \in (last - 6)..last)
    BY <1>2, <1>3, <1>4, <2>1
  <2>6. InMonth(c, n)
    BY <1>2, <2>1, <2>4
  <2>7. QED BY <2>2, <2>3, <2>4, <2>5, <2>6
<1>5. CASE nth # 5
  <2>1. PICK first \in Int : first = FirstOnWeekday(f, weekday) /\ first \in f..(f + 6)
    <3>1. FirstOnWeekday(f, weekday) \in f..(f + 6)
      BY FirstWeekday
    <3>2. FirstOnWeekday(f, weekday) \in Int
      BY <3>1
    <3>3. QED BY <3>1, <3>2
  <2>2. PICK c \in Int : c = first + (7 * (nth - 1))
    OBVIOUS
  <2>3. NthWeekday(n, weekday, nth) = IF c > f + len - 1 THEN Null ELSE c
    BY <1>1, <1>2, <1>5, <2>1, <2>2 DEF NthWeekday
  <2>4. \A day \in Int : day = c <=> WeekdayOf(day) = weekday /\ (day - f) \div 7 = nth - 1
    <3>1. WeekdayOf(first) = weekday
      BY <2>1, FirstWeekday
    <3>2. QED BY <2>1, <2>2, <3>1, SMT DEF WeekdayOf
  <2>5. c >= f
    BY <2>1, <2>2
  <2>6. \A day \in Int : InMonth(day, n) =>
          (day = c <=> WeekdayOf(day) = weekday /\ NthTest(day, n, nth))
    BY <1>3, <1>5, <2>4
  <2>7. CASE c > f + len - 1
    <3>1. \A day \in Int : InMonth(day, n) => day # c /\ day # Null
      BY <1>2, <2>7, MonthsAssumption
    <3>2. QED BY <2>3, <2>6, <2>7, <3>1
  <2>8. CASE ~(c > f + len - 1)
    <3>1. InMonth(c, n)
      BY <1>2, <2>5, <2>8
    <3>2. QED BY <2>3, <2>6, <2>8, <3>1
  <2>9. QED BY <2>7, <2>8
<1>6. QED BY <1>4, <1>5

\* The day of a month is the day the reference means.
LEMMA DayOfMonthIs ==
  ASSUME NEW n \in Int, NEW d \in 1..31
  PROVE  /\ \/ DayOfMonth(n, d) = Null
            \/ DayOfMonth(n, d) \in Int /\ InMonth(DayOfMonth(n, d), n)
         /\ \A day \in Int : InMonth(day, n) => (DayOfMonth(n, d) = day <=> day = DayNumber(n, 1) + d - 1)
<1>1. PICK f \in Int, len \in 28..31 : f = DayNumber(n, 1) /\ len = DaysInMonth(n)
  BY MonthEnds
<1>2. \A day \in Int : InMonth(day, n) <=> f <= day /\ day <= f + len - 1
  BY <1>1, MonthEnds
<1>3. PICK c \in Int : c = f + d - 1
  OBVIOUS
<1>4. DayOfMonth(n, d) = IF d <= len THEN c ELSE Null
  <2>1. d \in Int
    OBVIOUS
  <2>2. QED BY <1>1, <1>3, <2>1, DayInMonth DEF DayOfMonth
<1>5. CASE d <= len
  BY <1>1, <1>2, <1>3, <1>4, <1>5
<1>6. CASE ~(d <= len)
  BY <1>1, <1>2, <1>3, <1>4, <1>6, MonthsAssumption
<1>7. QED BY <1>5, <1>6


\* A rule that is stored: the parser accepted it.
Stored(r) == RuleIsTyped(r) /\ Accepted(r) /\ Dated(r.start_date)

\* The fields an accepted rule has.
LEMMA StoredFacts ==
  ASSUME NEW r, Stored(r)
  PROVE  /\ r.start_date \in Int /\ Dated(r.start_date)
         /\ r.interval \in Int /\ r.interval >= 1
         /\ \/ r.frequency = "weekly" /\ r.weekday \in 0..6
            \/ r.frequency = "monthly_dow" /\ r.weekday \in 0..6 /\ r.week_of_month \in 1..5
            \/ r.frequency = "monthly_dom" /\ r.day_of_month \in 1..31
         /\ \/ r.end_kind = "count" /\ r.end_count \in Int /\ r.end_count >= 1
            \/ r.end_kind = "until" /\ r.end_date \in Int
            \/ r.end_kind = "open"
<1>1. /\ r.start_date \in Int /\ r.interval \in Int
      /\ r.weekday = Null \/ r.weekday \in Int
      /\ r.week_of_month = Null \/ r.week_of_month \in Int
      /\ r.day_of_month = Null \/ r.day_of_month \in Int
      /\ r.end_count = Null \/ r.end_count \in Int
      /\ r.end_date = Null \/ r.end_date \in Int
  BY DEF Stored, RuleIsTyped
<1>2. r.interval >= 1 /\ Dated(r.start_date)
  BY DEF Stored, Accepted
<1>3. \/ r.frequency = "weekly" /\ r.weekday \in 0..6
      \/ r.frequency = "monthly_dow" /\ r.weekday \in 0..6 /\ r.week_of_month \in 1..5
      \/ r.frequency = "monthly_dom" /\ r.day_of_month \in 1..31
  BY <1>1 DEF Stored, Accepted, PatternAccepted, WithinRange
<1>4. \/ r.end_kind = "count" /\ r.end_count \in Int /\ r.end_count >= 1
      \/ r.end_kind = "until" /\ r.end_date \in Int
      \/ r.end_kind = "open"
  BY <1>1 DEF Stored, Accepted, EndAccepted
<1>5. QED BY <1>1, <1>2, <1>3, <1>4

\* A date is one the rule gives after k steps.
Gives(r, k, day) == day \in Int /\ Candidate(r, k) = day

\* A number of intervals leaves no remainder.
LEMMA WholeSteps ==
  ASSUME NEW i \in Int, i >= 1, NEW k \in Nat
  PROVE  (i * k) % i = 0
  BY SMT

\* More steps go further.
LEMMA StepsGrow ==
  ASSUME NEW i \in Int, i >= 1, NEW j \in Nat, NEW k \in Nat, j < k
  PROVE  i * j \in Int /\ i * k \in Int /\ i * j < i * k
<1>1. PICK e \in Nat : k = j + e /\ e >= 1
  <2>1. k - j \in Nat /\ k = j + (k - j) /\ k - j >= 1
    OBVIOUS
  <2>2. QED BY <2>1
<1>2. i * k = i * j + i * e /\ i * e >= 1 /\ i * e \in Int /\ i * j \in Int
  BY <1>1, SMT
<1>3. QED BY <1>2

\* Weekly: the same weekday, every interval weeks from the first.
LEMMA WeeklyCandidates ==
  ASSUME NEW r, Stored(r), r.frequency = "weekly"
  PROVE  /\ \A k \in Nat : Candidate(r, k) \in Int /\ Candidate(r, k) >= r.start_date
         /\ \A j, k \in Nat : j < k => Candidate(r, j) < Candidate(r, k)
         /\ \A day \in Int : FitsPattern(r, day) <=> \E k \in Nat : Candidate(r, k) = day
<1>1. PICK s \in Int, i \in Int, w \in 0..6 : s = r.start_date /\ i = r.interval /\ w = r.weekday /\ i >= 1
  BY StoredFacts
<1>2. PICK first \in Int : first = FirstOnWeekday(s, w) /\ first >= s /\ first <= s + 6 /\ WeekdayOf(first) = w
  <2>1. FirstOnWeekday(s, w) \in s..(s + 6) /\ WeekdayOf(FirstOnWeekday(s, w)) = w
    BY FirstWeekday
  <2>2. PICK x : x = FirstOnWeekday(s, w)
    OBVIOUS
  <2>3. x \in Int /\ x >= s /\ x <= s + 6
    BY <2>1, <2>2
  <2>4. QED BY <2>1, <2>2, <2>3
<1>3. ASSUME NEW k \in Nat PROVE i * k \in Nat /\ Candidate(r, k) = first + 7 * (i * k)
  <2>1. (7 * i) * k = 7 * (i * k) /\ i * k \in Nat
    BY <1>1, SMT
  <2>2. PICK c \in Int : c = first + 7 * (i * k) /\ c >= s
    BY <1>2, <2>1
  <2>3. c # Null
    BY MonthsAssumption
  <2>4. FirstOnWeekday(r.start_date, r.weekday) + ((7 * r.interval) * k) = c
    BY <1>1, <1>2, <2>1, <2>2
  <2>5. QED BY <1>1, <2>1, <2>2, <2>3, <2>4 DEF Candidate
<1>4. ASSUME NEW k \in Nat PROVE Candidate(r, k) \in Int /\ Candidate(r, k) >= r.start_date
  <2>1. PICK p \in Nat : p = i * k /\ Candidate(r, k) = first + 7 * p
    BY <1>3
  <2>2. QED BY <1>1, <1>2, <2>1
<1>5. ASSUME NEW j \in Nat, NEW k \in Nat, j < k PROVE Candidate(r, j) < Candidate(r, k)
  <2>1. PICK a, b \in Int : a = i * j /\ b = i * k /\ a < b
    BY <1>1, <1>5, StepsGrow
  <2>2. Candidate(r, j) = first + 7 * a /\ Candidate(r, k) = first + 7 * b
    BY <1>3, <2>1
  <2>3. QED BY <1>2, <2>1, <2>2
<1>6. ASSUME NEW day \in Int, FitsPattern(r, day) PROVE \E k \in Nat : Candidate(r, k) = day
  <2>1. day >= s /\ WeekdayOf(day) = w /\ ((day - s) \div 7) % i = 0
    BY <1>1, <1>6 DEF FitsPattern
  <2>2. PICK n \in Nat : n = (day - s) \div 7 /\ day = first + 7 * n
    <3>1. (day - s) \div 7 \in Nat /\ day = first + 7 * ((day - s) \div 7)
      BY <1>2, <2>1, SMT DEF WeekdayOf
    <3>2. QED BY <3>1
  <2>3. PICK k \in Nat : n = i * k
    <3>1. n % i = 0
      BY <2>1, <2>2
    <3>2. n = i * (n \div i) /\ n \div i \in Nat
      BY <1>1, <3>1, SMT
    <3>3. QED BY <3>2
  <2>4. Candidate(r, k) = day
    BY <1>3, <2>2, <2>3
  <2>5. QED BY <2>4
<1>7. ASSUME NEW k \in Nat, NEW day \in Int, Candidate(r, k) = day PROVE FitsPattern(r, day)
  <2>1. PICK p \in Nat : p = i * k /\ day = first + 7 * p
    BY <1>3, <1>7
  <2>2. day >= s
    BY <1>2, <2>1
  <2>3. WeekdayOf(day) = w
    BY <1>2, <2>1, SameWeekday
  <2>4. (day - s) \div 7 = p
    BY <1>2, <2>1, SMT
  <2>5. p % i = 0
    BY <1>1, <2>1, WholeSteps
  <2>6. QED BY <1>1, <2>2, <2>3, <2>4, <2>5 DEF FitsPattern
<1>8. QED BY <1>4, <1>5, <1>6, <1>7


MonthlyCandidate(r, n) ==
  IF r.frequency = "monthly_dow" THEN NthWeekday(n, r.weekday, r.week_of_month)
  ELSE DayOfMonth(n, r.day_of_month)

FitsMonth(r, day, n) ==
  IF r.frequency = "monthly_dow" THEN WeekdayOf(day) = r.weekday /\ NthTest(day, n, r.week_of_month)
  ELSE day = DayNumber(n, 1) + r.day_of_month - 1

\* The date of a month is the one day of it that fits.
LEMMA MonthlyCandidateIs ==
  ASSUME NEW r, Stored(r), r.frequency # "weekly", NEW n \in Int
  PROVE  /\ \/ MonthlyCandidate(r, n) = Null
            \/ MonthlyCandidate(r, n) \in Int /\ InMonth(MonthlyCandidate(r, n), n)
         /\ \A day \in Int : InMonth(day, n) => (MonthlyCandidate(r, n) = day <=> FitsMonth(r, day, n))
<1>1. CASE r.frequency = "monthly_dow"
  <2>1. r.weekday \in 0..6 /\ r.week_of_month \in 1..5
    BY <1>1, StoredFacts
  <2>2. PICK w \in 0..6, nth \in 1..5 : w = r.weekday /\ nth = r.week_of_month
    BY <2>1
  <2>3. /\ MonthlyCandidate(r, n) = NthWeekday(n, w, nth)
        /\ \A day : FitsMonth(r, day, n) <=> WeekdayOf(day) = w /\ NthTest(day, n, nth)
    BY <1>1, <2>2 DEF MonthlyCandidate, FitsMonth
  <2>4. QED BY <2>3, NthWeekdayIs
<1>2. CASE r.frequency # "monthly_dow"
  <2>1. r.day_of_month \in 1..31
    BY <1>2, StoredFacts
  <2>2. QED BY <1>2, <2>1, DayOfMonthIs DEF MonthlyCandidate, FitsMonth
<1>3. QED BY <1>1, <1>2

\* Monthly: at most one date in every interval-th month from the first.
LEMMA MonthlyCandidates ==
  ASSUME NEW r, Stored(r), r.frequency # "weekly"
  PROVE  /\ \A k \in Nat : \/ Candidate(r, k) = Null
                           \/ Candidate(r, k) \in Int /\ Candidate(r, k) >= r.start_date
         /\ \A j, k \in Nat : j < k /\ Candidate(r, j) # Null /\ Candidate(r, k) # Null =>
                                Candidate(r, j) < Candidate(r, k)
         /\ \A day \in Int : Dated(day) => (FitsPattern(r, day) <=> \E k \in Nat : Candidate(r, k) = day)
<1>1. PICK s \in Int, i \in Int : s = r.start_date /\ i = r.interval /\ i >= 1 /\ Dated(s)
  BY StoredFacts
<1>2. PICK ms \in Int : ms = MonthOf(s) /\ InMonth(s, ms)
  BY <1>1, MonthOfDay
<1>3. \A n \in Int : DayNumber(n, 1) \in Int
  BY NextMonth
<1>4. ASSUME NEW k \in Nat
      PROVE  /\ i * k \in Int
             /\ \/ Candidate(r, k) = Null
                \/ /\ Candidate(r, k) \in Int /\ Candidate(r, k) >= s
                   /\ InMonth(Candidate(r, k), ms + i * k)
                   /\ MonthlyCandidate(r, ms + i * k) = Candidate(r, k)
             /\ MonthlyCandidate(r, ms + i * k) \in Int /\ MonthlyCandidate(r, ms + i * k) >= s =>
                  Candidate(r, k) = MonthlyCandidate(r, ms + i * k)
  <2>1. PICK p \in Int : p = i * k /\ p = k * i
    BY SMT
  <2>2. PICK n \in Int : n = ms + p
    OBVIOUS
  <2>3. PICK c : c = MonthlyCandidate(r, n)
    OBVIOUS
  <2>4. Candidate(r, k) = IF c # Null /\ c >= s THEN c ELSE Null
    <3>1. n = MonthOf(r.start_date) + (k * r.interval)
      BY <1>1, <1>2, <2>1, <2>2
    <3>2. CASE r.frequency = "monthly_dow"
      BY <1>1, <2>3, <3>1, <3>2 DEF Candidate, MonthlyCandidate
    <3>3. CASE r.frequency # "monthly_dow"
      <4>1. r.frequency = "monthly_dom"
        BY <3>3, StoredFacts
      <4>2. QED BY <1>1, <2>3, <3>1, <4>1 DEF Candidate, MonthlyCandidate
    <3>4. QED BY <3>2, <3>3
  <2>5. c = Null \/ (c \in Int /\ InMonth(c, n))
    BY <2>3, MonthlyCandidateIs
  <2>6. QED BY <2>1, <2>2, <2>3, <2>4, <2>5, MonthsAssumption
<1>5. ASSUME NEW k \in Nat PROVE Candidate(r, k) = Null \/ (Candidate(r, k) \in Int /\ Candidate(r, k) >= r.start_date)
  BY <1>1, <1>4
<1>6. ASSUME NEW j \in Nat, NEW k \in Nat, j < k, Candidate(r, j) # Null, Candidate(r, k) # Null
      PROVE  Candidate(r, j) < Candidate(r, k)
  <2>1. PICK a, b \in Int : a = ms + i * j /\ b = ms + i * k /\ a < b
    <3>1. PICK x, y \in Int : x = i * j /\ y = i * k /\ x < y
      BY <1>1, <1>6, StepsGrow
    <3>2. QED BY <3>1
  <2>2. PICK c, d \in Int : c = Candidate(r, j) /\ d = Candidate(r, k) /\ InMonth(c, a) /\ InMonth(d, b)
    BY <1>4, <1>6, <2>1
  <2>3. DayNumber(a + 1, 1) <= DayNumber(b, 1)
    BY <2>1, LaterMonthAhead
  <2>4. DayNumber(a + 1, 1) \in Int
    <3>1. PICK a1 \in Int : a1 = a + 1
      OBVIOUS
    <3>2. QED BY <1>3, <3>1
  <2>5. c < d
    BY <1>3, <2>2, <2>3, <2>4 DEF InMonth
  <2>6. QED BY <2>2, <2>5
<1>7. ASSUME NEW day \in Int, Dated(day)
      PROVE  FitsPattern(r, day) <=>
               day >= s /\ FitsMonth(r, day, MonthOf(day)) /\ (MonthOf(day) - ms) % i = 0
  <2>1. CASE r.frequency = "monthly_dow"
    BY <1>1, <1>2, <2>1 DEF FitsPattern, FitsMonth, MonthsApart, IsNthWeekday, NthTest
  <2>2. CASE r.frequency # "monthly_dow"
    <3>1. r.frequency = "monthly_dom"
      BY <2>2, StoredFacts
    <3>2. QED BY <1>1, <1>2, <3>1 DEF FitsPattern, FitsMonth, MonthsApart
  <2>3. QED BY <2>1, <2>2
<1>8. ASSUME NEW day \in Int, Dated(day), FitsPattern(r, day) PROVE \E k \in Nat : Candidate(r, k) = day
  <2>1. PICK n \in Int : n = MonthOf(day) /\ InMonth(day, n)
    BY <1>8, MonthOfDay
  <2>2. day >= s /\ FitsMonth(r, day, n) /\ (n - ms) % i = 0
    BY <1>7, <1>8, <2>1
  <2>3. n >= ms
    <3>1. n < ms => DayNumber(n + 1, 1) <= DayNumber(ms, 1)
      BY LaterMonthAhead
    <3>2. PICK n1 \in Int : n1 = n + 1
      OBVIOUS
    <3>3. QED BY <1>2, <1>3, <2>1, <2>2, <3>1, <3>2 DEF InMonth
  <2>4. PICK k \in Nat : n = ms + i * k
    <3>1. PICK m \in Nat : m = n - ms /\ m % i = 0
      BY <2>2, <2>3
    <3>2. m = i * (m \div i) /\ m \div i \in Nat
      BY <1>1, <3>1, SMT
    <3>3. PICK k \in Nat : m = i * k
      BY <3>2
    <3>4. n = ms + i * k
      BY <3>1, <3>3
    <3>5. QED BY <3>4
  <2>5. MonthlyCandidate(r, n) = day
    BY <2>1, <2>2, MonthlyCandidateIs
  <2>6. Candidate(r, k) = day
    BY <1>4, <2>2, <2>4, <2>5
  <2>7. QED BY <2>6
<1>9. ASSUME NEW day \in Int, Dated(day), NEW k \in Nat, Candidate(r, k) = day PROVE FitsPattern(r, day)
  <2>1. PICK p \in Int : p = i * k /\ p % i = 0
    BY <1>1, <1>4, WholeSteps
  <2>2. PICK n \in Int : n = ms + p
    OBVIOUS
  <2>3. day >= s /\ InMonth(day, n) /\ MonthlyCandidate(r, n) = day
    BY <1>4, <1>9, <2>1, <2>2, MonthsAssumption
  <2>4. FitsMonth(r, day, n)
    BY <2>3, MonthlyCandidateIs
  <2>5. MonthOf(day) = n
    BY <1>9, <2>3, MonthIs
  <2>6. n - ms = p
    BY <2>2
  <2>7. QED BY <1>7, <1>9, <2>1, <2>3, <2>4, <2>5, <2>6
<1>10. QED BY <1>5, <1>6, <1>8, <1>9

\* Whatever the pattern, the candidates are the days that fit it, in order.
LEMMA CandidatesFit ==
  ASSUME NEW r, Stored(r)
  PROVE  /\ \A k \in Nat : \/ Candidate(r, k) = Null
                           \/ Candidate(r, k) \in Int /\ Candidate(r, k) >= r.start_date
         /\ \A j, k \in Nat : j < k /\ Candidate(r, j) # Null /\ Candidate(r, k) # Null =>
                                Candidate(r, j) < Candidate(r, k)
         /\ \A day \in Int : Dated(day) => (FitsPattern(r, day) <=> \E k \in Nat : Candidate(r, k) = day)
BY WeeklyCandidates, MonthlyCandidates


----------------------------------------------------------------------------
(* The walk *)

\* The dates of the first k steps.
Given(r, k) == {Candidate(r, j) : j \in 0..(k - 1)} \ {Null}

Within(q, d) == d <= q.to /\ (q.rule.end_kind = "until" => d <= q.rule.end_date)

\* Where a walk has come to: the dates so far are counted, those of the window
\* are in its answer, none of them was to be left out, and it ended over a date that was.
Walked(q, w) ==
  /\ Accepted(q.rule)
  /\ w \in [k : Nat, counted : Nat, out : SUBSET Int, ended : BOOLEAN]
  /\ IsFiniteSet(Given(q.rule, w.k)) /\ w.counted = Cardinality(Given(q.rule, w.k))
  /\ w.out = {d \in Given(q.rule, w.k) : d >= q.from}
  /\ \A d \in Given(q.rule, w.k) : Within(q, d)
  /\ q.rule.end_kind = "count" => w.counted <= q.rule.end_count
  /\ w.ended => Candidate(q.rule, w.k) # Null /\ Past(q.rule, w, Candidate(q.rule, w.k), q.to)

\* A rule that is expanded was accepted.
LEMMA AskedIsStored ==
  ASSUME NEW q \in RuleQuestions, Accepted(q.rule)
  PROVE  Stored(q.rule) /\ q.from \in Int /\ q.to \in Int /\ Dated(q.to) /\ q.kind = "expand"
BY QuestionsAssumption, MonthsAssumption DEF Stored

\* The dates so far come before the next one, which is added to them.
LEMMA GivenFacts ==
  ASSUME NEW r, Stored(r), NEW k \in Nat
  PROVE  /\ \A d \in Given(r, k) : d \in Int /\ d >= r.start_date /\ \E j \in Nat : j < k /\ Candidate(r, j) = d
         /\ \A j \in Nat : j < k /\ Candidate(r, j) # Null => Candidate(r, j) \in Given(r, k)
         /\ Candidate(r, k) # Null => \A d \in Given(r, k) : d < Candidate(r, k)
         /\ Given(r, k + 1) = IF Candidate(r, k) = Null THEN Given(r, k) ELSE Given(r, k) \cup {Candidate(r, k)}
<1>1. ASSUME NEW d \in Given(r, k)
      PROVE  d # Null /\ d \in Int /\ d >= r.start_date /\ \E j \in Nat : j < k /\ Candidate(r, j) = d
  <2>1. PICK j \in 0..(k - 1) : Candidate(r, j) = d /\ d # Null
    BY DEF Given
  <2>2. j \in Nat /\ j < k
    OBVIOUS
  <2>3. QED BY <2>1, <2>2, CandidatesFit
<1>2. ASSUME NEW j \in Nat, j < k, Candidate(r, j) # Null PROVE Candidate(r, j) \in Given(r, k)
  <2>1. j \in 0..(k - 1)
    BY <1>2
  <2>2. QED BY <1>2, <2>1 DEF Given
<1>3. ASSUME Candidate(r, k) # Null, NEW d \in Given(r, k) PROVE d < Candidate(r, k)
  <2>1. PICK j \in Nat : j < k /\ Candidate(r, j) = d /\ d # Null
    BY <1>1
  <2>2. QED BY <1>3, <2>1, CandidatesFit
<1>4. Given(r, k + 1) = IF Candidate(r, k) = Null THEN Given(r, k) ELSE Given(r, k) \cup {Candidate(r, k)}
  <2>1. 0..((k + 1) - 1) = 0..(k - 1) \cup {k}
    OBVIOUS
  <2>2. {Candidate(r, j) : j \in 0..((k + 1) - 1)} = {Candidate(r, j) : j \in 0..(k - 1)} \cup {Candidate(r, k)}
    BY <2>1
  <2>3. CASE Candidate(r, k) = Null
    BY <2>2, <2>3 DEF Given
  <2>4. CASE Candidate(r, k) # Null
    BY <2>2, <2>4 DEF Given
  <2>5. QED BY <2>3, <2>4
<1>5. QED BY <1>1, <1>2, <1>3, <1>4

\* Before the first step there are no dates.
LEMMA WalkBegins ==
  ASSUME NEW q \in RuleQuestions, Accepted(q.rule)
  PROVE  Walked(q, StartWalk)
<1>1. Given(q.rule, 0) = {}
  BY DEF Given
<1>2. IsFiniteSet({}) /\ Cardinality({}) = 0
  BY FS_EmptySet
<1>3. StartWalk.k = 0 /\ StartWalk.counted = 0 /\ StartWalk.out = {} /\ StartWalk.ended = FALSE
  BY DEF StartWalk
<1>4. StartWalk \in [k : Nat, counted : Nat, out : SUBSET Int, ended : BOOLEAN]
  BY DEF StartWalk
<1>5. q.rule.end_kind = "count" => 0 <= q.rule.end_count
  BY AskedIsStored, StoredFacts
<1>6. QED BY <1>1, <1>2, <1>3, <1>4, <1>5 DEF Walked

\* One step of the walk.
LEMMA WalkGoesOn ==
  ASSUME NEW q \in RuleQuestions, NEW w, Walked(q, w), ~w.ended
  PROVE  Walked(q, WalkOn(q.rule, w, q.from, q.to))
<1>1. PICK r : r = q.rule
  OBVIOUS
<1>2. Accepted(r) /\ Stored(r) /\ q.from \in Int /\ q.to \in Int
  BY <1>1, AskedIsStored DEF Walked
<1>3. PICK k \in Nat : k = w.k
  BY DEF Walked
<1>4. PICK c : c = Candidate(r, k)
  OBVIOUS
<1>5. PICK g : g = Given(r, k)
  OBVIOUS
<1>6. /\ w \in [k : Nat, counted : Nat, out : SUBSET Int, ended : BOOLEAN]
      /\ IsFiniteSet(g) /\ w.counted = Cardinality(g) /\ w.counted \in Nat
      /\ w.out = {d \in g : d >= q.from}
      /\ \A d \in g : Within(q, d)
      /\ r.end_kind = "count" => w.counted <= r.end_count
  BY <1>1, <1>3, <1>5 DEF Walked
<1>7. /\ c = Null \/ c \in Int
      /\ \A d \in g : d \in Int
      /\ c # Null => \A d \in g : d < c
      /\ Given(r, k + 1) = IF c = Null THEN g ELSE g \cup {c}
  BY <1>2, <1>4, <1>5, GivenFacts, CandidatesFit
<1>8. CASE c = Null
  <2>1. PICK v : v = [w EXCEPT !.k = k + 1]
    OBVIOUS
  <2>2. WalkOn(q.rule, w, q.from, q.to) = v
    BY <1>1, <1>3, <1>4, <1>8, <2>1 DEF WalkOn
  <2>3. /\ v \in [k : Nat, counted : Nat, out : SUBSET Int, ended : BOOLEAN]
        /\ v.k = k + 1 /\ v.counted = w.counted /\ v.out = w.out /\ v.ended = w.ended
    BY <1>6, <2>1
  <2>4. Given(r, v.k) = g
    BY <1>7, <1>8, <2>3
  <2>5. QED BY <1>1, <1>2, <1>6, <2>2, <2>3, <2>4 DEF Walked
<1>9. CASE c # Null /\ Past(r, w, c, q.to)
  <2>1. PICK v : v = [w EXCEPT !.ended = TRUE]
    OBVIOUS
  <2>2. WalkOn(q.rule, w, q.from, q.to) = v
    BY <1>1, <1>3, <1>4, <1>9, <2>1 DEF WalkOn
  <2>3. /\ v \in [k : Nat, counted : Nat, out : SUBSET Int, ended : BOOLEAN]
        /\ v.k = k /\ v.counted = w.counted /\ v.out = w.out
    BY <1>3, <1>6, <2>1
  <2>4. Past(r, v, c, q.to)
    BY <1>9, <2>3 DEF Past
  <2>5. QED BY <1>1, <1>2, <1>4, <1>5, <1>6, <1>9, <2>2, <2>3, <2>4 DEF Walked
<1>10. CASE c # Null /\ ~Past(r, w, c, q.to)
  <2>0. PICK out : out = IF c >= q.from THEN w.out \cup {c} ELSE w.out
    OBVIOUS
  <2>1. PICK v : v = [w EXCEPT !.k = k + 1, !.counted = w.counted + 1, !.out = out]
    OBVIOUS
  <2>2. WalkOn(q.rule, w, q.from, q.to) = v
    BY <1>1, <1>3, <1>4, <1>10, <2>0, <2>1 DEF WalkOn
  <2>3. c \in Int /\ c \notin g
    BY <1>7, <1>10
  <2>4. /\ v \in [k : Nat, counted : Nat, out : SUBSET Int, ended : BOOLEAN]
        /\ v.k = k + 1 /\ v.counted = w.counted + 1 /\ v.ended = w.ended
        /\ v.out = IF c >= q.from THEN w.out \cup {c} ELSE w.out
    <3>1. out \in SUBSET Int
      <4>1. w.out \in SUBSET Int
        BY <1>6
      <4>2. QED BY <2>0, <2>3, <4>1
    <3>2. k + 1 \in Nat /\ w.counted + 1 \in Nat
      BY <1>6
    <3>3. QED BY <1>6, <2>0, <2>1, <3>1, <3>2
  <2>5. Given(r, v.k) = g \cup {c}
    BY <1>7, <1>10, <2>4
  <2>6. IsFiniteSet(g \cup {c}) /\ Cardinality(g \cup {c}) = w.counted + 1
    BY <1>6, <2>3, FS_AddElement
  <2>7. v.out = {d \in g \cup {c} : d >= q.from}
    BY <1>6, <2>4
  <2>8. Within(q, c) /\ (r.end_kind = "count" => w.counted + 1 <= r.end_count)
    <3>1. ~(c > q.to) /\ ~(r.end_kind = "count" /\ w.counted >= r.end_count)
          /\ ~(r.end_kind = "until" /\ c > r.end_date)
      BY <1>10 DEF Past
    <3>2. /\ r.end_kind = "count" => r.end_count \in Int
          /\ r.end_kind = "until" => r.end_date \in Int
      BY <1>2, StoredFacts
    <3>3. QED BY <1>1, <1>2, <1>6, <2>3, <3>1, <3>2 DEF Within
  <2>9. QED BY <1>1, <1>2, <1>6, <2>2, <2>4, <2>5, <2>6, <2>7, <2>8 DEF Walked
<1>11. QED BY <1>8, <1>9, <1>10

\* A walk that ended has given what the rule means.
LEMMA WalkIsMeaning ==
  ASSUME NEW q \in RuleQuestions, NEW w, Walked(q, w), w.ended
  PROVE  w.out = Meaning(q.rule, q.from, q.to)
<1>1. PICK r : r = q.rule
  OBVIOUS
<1>2. Stored(r) /\ q.from \in Int /\ q.to \in Int /\ Dated(q.to)
  BY <1>1, AskedIsStored DEF Walked
<1>3. PICK k \in Nat : k = w.k
  BY DEF Walked
<1>4. PICK c : c = Candidate(r, k) /\ c # Null /\ Past(r, w, c, q.to)
  BY <1>1, <1>3 DEF Walked
<1>5. PICK g : g = Given(r, k)
  OBVIOUS
<1>6. PICK fits : fits = FittingDays(r, q.to)
  OBVIOUS
<1>7. /\ IsFiniteSet(g) /\ w.counted = Cardinality(g) /\ w.counted \in Nat
      /\ w.out = {d \in g : d >= q.from}
      /\ \A d \in g : Within(q, d)
      /\ r.end_kind = "count" => w.counted <= r.end_count
  BY <1>1, <1>3, <1>5 DEF Walked
<1>8. c \in Int /\ r.start_date \in Int /\ Dated(r.start_date)
      /\ (r.end_kind = "count" => r.end_count \in Int) /\ (r.end_kind = "until" => r.end_date \in Int)
  BY <1>2, <1>4, CandidatesFit, StoredFacts
<1>9. /\ \A d \in g : d \in Int /\ d >= r.start_date /\ d < c /\ d <= q.to
      /\ \A d \in g : \E j \in Nat : Candidate(r, j) = d
  BY <1>2, <1>4, <1>5, <1>7, GivenFacts DEF Within
<1>10. \A d \in r.start_date..q.to : d \in Int /\ Dated(d)
  BY <1>2, <1>8, DatedBetween
<1>11. ASSUME NEW d \in g PROVE d \in fits
  <2>1. d \in r.start_date..q.to
    BY <1>2, <1>8, <1>9
  <2>2. FitsPattern(r, d)
    BY <1>2, <1>9, <1>10, <2>1, CandidatesFit
  <2>3. QED BY <1>6, <2>1, <2>2 DEF FittingDays
<1>12. ASSUME NEW d \in fits, d \notin g PROVE d >= c
  <2>1. d \in r.start_date..q.to /\ FitsPattern(r, d)
    BY <1>6 DEF FittingDays
  <2>2. PICK m \in Nat : Candidate(r, m) = d
    BY <1>2, <1>10, <2>1, CandidatesFit
  <2>3. d \in Int /\ d # Null
    BY <1>10, <2>1, MonthsAssumption
  <2>4. ~(m < k)
    BY <1>2, <1>5, <1>12, <2>2, <2>3, GivenFacts
  <2>5. CASE m = k
    BY <1>4, <1>8, <2>2, <2>5
  <2>6. CASE k < m
    <3>1. c < d
      BY <1>2, <1>4, <2>2, <2>3, <2>6, CandidatesFit
    <3>2. QED BY <1>8, <2>3, <3>1
  <2>7. QED BY <2>4, <2>5, <2>6
<1>13. IsFiniteSet(fits) /\ \A d \in fits : d \in Int /\ d <= q.to
  <2>1. fits \in SUBSET (r.start_date..q.to)
    BY <1>6 DEF FittingDays
  <2>2. IsFiniteSet(r.start_date..q.to)
    BY <1>2, <1>8, FS_Interval
  <2>3. IsFiniteSet(fits)
    BY <2>1, <2>2, FS_Subset
  <2>4. QED BY <1>2, <1>8, <2>1, <2>3
<1>14. ASSUME NEW d \in g, r.end_kind = "count" PROVE Cardinality({x \in fits : x <= d}) <= r.end_count
  <2>1. {x \in fits : x <= d} \in SUBSET g
    BY <1>8, <1>9, <1>12, <1>13
  <2>2. Cardinality({x \in fits : x <= d}) <= w.counted /\ IsFiniteSet({x \in fits : x <= d})
    BY <1>7, <2>1, FS_Subset
  <2>3. Cardinality({x \in fits : x <= d}) \in Nat
    BY <2>2, FS_CardinalityType
  <2>4. QED BY <1>7, <1>8, <1>14, <2>2, <2>3
<1>15. ASSUME NEW d \in fits, d \notin g, r.end_kind = "count", w.counted >= r.end_count
       PROVE  ~(Cardinality({x \in fits : x <= d}) <= r.end_count)
  <2>1. g \cup {d} \in SUBSET {x \in fits : x <= d}
    BY <1>8, <1>9, <1>11, <1>12, <1>13, <1>15
  <2>2. {x \in fits : x <= d} \in SUBSET fits
    OBVIOUS
  <2>3. IsFiniteSet({x \in fits : x <= d})
    BY <1>13, <2>2, FS_Subset
  <2>4. Cardinality(g \cup {d}) <= Cardinality({x \in fits : x <= d})
    BY <2>1, <2>3, FS_Subset
  <2>5. Cardinality(g \cup {d}) = w.counted + 1
    BY <1>7, <1>15, FS_AddElement
  <2>6. Cardinality({x \in fits : x <= d}) \in Nat
    BY <2>3, FS_CardinalityType
  <2>7. QED BY <1>7, <1>8, <1>15, <2>4, <2>5, <2>6
<1>16. ASSUME NEW d \in fits,
              r.end_kind = "count" => Cardinality({x \in fits : x <= d}) <= r.end_count,
              r.end_kind = "until" => d <= r.end_date
       PROVE  d \in g
  <2>1. SUFFICES ASSUME d \notin g PROVE FALSE
    OBVIOUS
  <2>2. d >= c /\ d \in Int /\ d <= q.to
    BY <1>12, <1>13, <2>1
  <2>3. CASE c > q.to
    BY <1>2, <1>8, <2>2, <2>3
  <2>4. CASE r.end_kind = "count" /\ w.counted >= r.end_count
    BY <1>15, <1>16, <2>1, <2>4
  <2>5. CASE r.end_kind = "until" /\ c > r.end_date
    BY <1>8, <1>16, <2>2, <2>5
  <2>6. QED BY <1>4, <2>3, <2>4, <2>5 DEF Past
<1>17. ASSUME NEW d \in g
       PROVE  /\ r.end_kind = "count" => Cardinality({x \in fits : x <= d}) <= r.end_count
              /\ r.end_kind = "until" => d <= r.end_date
  BY <1>1, <1>7, <1>14 DEF Within
<1>18. Meaning(r, q.from, q.to) =
         {d \in fits : /\ d >= q.from
                       /\ r.end_kind = "count" => Cardinality({x \in fits : x <= d}) <= r.end_count
                       /\ r.end_kind = "until" => d <= r.end_date}
  BY <1>6 DEF Meaning
<1>19. QED BY <1>1, <1>7, <1>11, <1>16, <1>17, <1>18

WalkInv ==
  question.kind = "expand" =>
    /\ question \in RuleQuestions
    /\ phase = "answering" => Walked(question, answer)
    /\ phase = "done" => answer = [rejected |-> TRUE] \/ (Walked(question, answer) /\ answer.ended)

\* No walk has begun.
LEMMA WalkInitInv == Init => WalkInv
  BY QuestionsAssumption DEF Init, WalkInv

\* Only the steps of a walk change it.
LEMMA WalkStepInv == WalkInv /\ [Next]_vars => WalkInv'
<1> SUFFICES ASSUME WalkInv, [Next]_vars PROVE WalkInv'
  OBVIOUS
<1>1. CASE RejectRule
  BY <1>1 DEF RejectRule, WalkInv
<1>2. CASE BeginWalk
  BY <1>2, WalkBegins DEF BeginWalk, WalkInv
<1>3. CASE Walk
  BY <1>3, WalkGoesOn DEF Walk, WalkInv
<1>4. CASE EndWalk
  BY <1>4 DEF EndWalk, WalkInv
<1>5. CASE ComputeDay
  BY <1>5 DEF ComputeDay, WalkInv
<1>6. CASE FetchPage
  BY <1>6 DEF FetchPage, WalkInv
<1>7. CASE UNCHANGED vars
  BY <1>7 DEF vars, WalkInv
<1>8. QED BY <1>1, <1>2, <1>3, <1>4, <1>5, <1>6, <1>7 DEF Next

\* The expansion of a stored rule over a window (expandSeries) gives exactly the dates the rule
\* means, read day by day from its start: the steps by week and month miss none and add none,
\* and a count is used up from the start of the rule, not of the window.
THEOREM ExpansionAlwaysExact == Spec => []ExpansionIsExact
<1>1. ASSUME WalkInv PROVE ExpansionIsExact
  <2>1. SUFFICES ASSUME Answered("expand"), "out" \in DOMAIN answer
        PROVE  answer.out = Meaning(question.rule, question.from, question.to)
    BY DEF ExpansionIsExact
  <2>2. answer # [rejected |-> TRUE]
    BY <2>1
  <2>3. question \in RuleQuestions /\ Walked(question, answer) /\ answer.ended
    BY <1>1, <2>1, <2>2 DEF WalkInv, Answered
  <2>4. QED BY <2>3, WalkIsMeaning
<1>2. QED BY <1>1, WalkInitInv, WalkStepInv, PTL DEF Spec


----------------------------------------------------------------------------
(* Rules with no dates *)

\* The calendar repeats after 400 years.
LEMMA CalendarRepeats ==
  ASSUME NEW n \in Int
  PROVE  Cycle \in Nat /\ Cycle > 0 /\ DaysInMonth(n + Cycle) = DaysInMonth(n)
<1>1. PICK y \in Int, m \in 0..11 : n = 12 * y + m
  BY YearAndMonth
<1>2. PICK y4 \in Int : y4 = y + 400
  OBVIOUS
<1>3. Cycle \in Nat /\ Cycle > 0 /\ n + Cycle = 12 * y4 + m
  BY <1>1, <1>2 DEF Cycle
<1>4. IsLeap(y4) <=> IsLeap(y)
  BY <1>2, SMT DEF IsLeap
<1>5. LeapDay(y4) = LeapDay(y)
  BY <1>4 DEF LeapDay
<1>6. /\ DaysInMonth(12 * y4 + m) = IF m = 1 THEN 28 + LeapDay(y4) ELSE IF m \in {3, 5, 8, 10} THEN 30 ELSE 31
      /\ DaysInMonth(12 * y + m) = IF m = 1 THEN 28 + LeapDay(y) ELSE IF m \in {3, 5, 8, 10} THEN 30 ELSE 31
  BY MonthInYear
<1>7. QED BY <1>1, <1>3, <1>5, <1>6

\* And again.
LEMMA CalendarRepeatsOften ==
  ASSUME NEW n \in Int, NEW t \in Nat
  PROVE  DaysInMonth(n + Cycle * t) = DaysInMonth(n)
<1> DEFINE S == {u \in Nat : ~(DaysInMonth(n + Cycle * u) = DaysInMonth(n))}
<1>1. SUFFICES ASSUME S # {} PROVE FALSE
  OBVIOUS
<1>2. PICK u \in S : \A v \in S : u <= v
  BY <1>1, LeastNat
<1>3. Cycle \in Nat
  BY CalendarRepeats
<1>4. u # 0
  BY <1>2, <1>3
<1>5. PICK v \in Nat : v = u - 1 /\ u = v + 1
  BY <1>4
<1>6. DaysInMonth(n + Cycle * v) = DaysInMonth(n)
  BY <1>2, <1>5
<1>7. PICK p \in Int : p = n + Cycle * v /\ p + Cycle = n + Cycle * u
  <2>1. Cycle * u = Cycle * v + Cycle /\ Cycle * v \in Int
    BY <1>3, <1>5, SMT
  <2>2. QED BY <1>3, <2>1
<1>8. DaysInMonth(p + Cycle) = DaysInMonth(p)
  BY CalendarRepeats
<1>9. QED BY <1>2, <1>6, <1>7, <1>8

\* Months have at least four weeks.
LEMMA MonthsPass ==
  ASSUME NEW n \in Int, NEW k \in Nat
  PROVE  DayNumber(n + k, 1) >= DayNumber(n, 1) + 28 * k
<1> DEFINE S == {u \in Nat : ~(DayNumber(n + u, 1) >= DayNumber(n, 1) + 28 * u)}
<1>1. SUFFICES ASSUME S # {} PROVE FALSE
  OBVIOUS
<1>2. PICK u \in S : \A v \in S : u <= v
  BY <1>1, LeastNat
<1>3. u # 0
  BY <1>2, NextMonth
<1>4. PICK v \in Nat : v = u - 1 /\ u = v + 1
  BY <1>3
<1>5. DayNumber(n + v, 1) >= DayNumber(n, 1) + 28 * v
  BY <1>2, <1>4
<1>6. PICK p \in Int : p = n + v /\ p + 1 = n + u
  BY <1>4
<1>7. /\ DayNumber(p, 1) \in Int /\ DayNumber(n, 1) \in Int /\ DaysInMonth(p) \in 28..31
      /\ DayNumber(p + 1, 1) = DayNumber(p, 1) + DaysInMonth(p)
  BY NextMonth
<1>8. DayNumber(p + 1, 1) >= DayNumber(n, 1) + 28 * u
  BY <1>4, <1>5, <1>6, <1>7
<1>9. QED BY <1>2, <1>6, <1>8

\* The month after k steps.
MonthAt(r, k) == MonthOf(r.start_date) + (k * r.interval)

\* A date of a month after the first is a candidate, and lies beyond any day once the steps are many.
LEMMA FarCandidate ==
  ASSUME NEW r, Stored(r), r.frequency # "weekly", NEW k \in Nat, NEW to \in Int,
         MonthlyCandidate(r, MonthAt(r, k)) # Null, k > 0, k > to - DayNumber(MonthOf(r.start_date), 1)
  PROVE  Candidate(r, k) # Null /\ Candidate(r, k) > to
<1>1. PICK s \in Int, i \in Int : s = r.start_date /\ i = r.interval /\ i >= 1 /\ Dated(s)
  BY StoredFacts
<1>2. PICK ms \in Int : ms = MonthOf(s) /\ InMonth(s, ms)
  BY <1>1, MonthOfDay
<1>3. PICK p \in Nat : p = k * i /\ p >= k
  BY <1>1, SMT
<1>4. PICK n \in Int : n = ms + p /\ n = MonthAt(r, k) /\ ms < n
  BY <1>1, <1>2, <1>3 DEF MonthAt
<1>5. PICK c \in Int : c = MonthlyCandidate(r, n) /\ InMonth(c, n)
  BY <1>4, MonthlyCandidateIs
<1>6. /\ DayNumber(ms, 1) \in Int /\ DayNumber(n, 1) \in Int
      /\ DayNumber(n, 1) >= DayNumber(ms, 1) + 28 * p
  BY <1>3, <1>4, NextMonth, MonthsPass
<1>7. c > to
  BY <1>1, <1>2, <1>3, <1>5, <1>6 DEF InMonth
<1>8. c >= s
  <2>1. DayNumber(ms + 1, 1) <= DayNumber(n, 1)
    BY <1>4, LaterMonthAhead
  <2>2. DayNumber(ms + 1, 1) \in Int
    <3>1. PICK m1 \in Int : m1 = ms + 1
      OBVIOUS
    <3>2. QED BY <3>1, NextMonth
  <2>3. QED BY <1>2, <1>5, <1>6, <2>1, <2>2 DEF InMonth
<1>9. c # Null
  BY MonthsAssumption
<1>10. Candidate(r, k) = c
  <2>1. n = MonthOf(r.start_date) + (k * r.interval)
    BY <1>4 DEF MonthAt
  <2>2. CASE r.frequency = "monthly_dow"
    BY <1>1, <1>5, <1>8, <1>9, <2>1, <2>2 DEF Candidate, MonthlyCandidate
  <2>3. CASE r.frequency # "monthly_dow"
    <3>1. r.frequency = "monthly_dom"
      BY <2>3, StoredFacts
    <3>2. QED BY <1>1, <1>5, <1>8, <1>9, <2>1, <3>1 DEF Candidate, MonthlyCandidate
  <2>4. QED BY <2>2, <2>3
<1>11. QED BY <1>7, <1>9, <1>10

\* Every month has the first four of a weekday and the last.
LEMMA EveryMonthHasIt ==
  ASSUME NEW n \in Int, NEW weekday \in 0..6, NEW nth \in 1..5
  PROVE  NthWeekday(n, weekday, nth) # Null
<1>1. PICK f \in Int, len \in 28..31 : f = DayNumber(n, 1) /\ len = DaysInMonth(n)
                                      /\ DayNumber(n, len) = f + len - 1
  BY MonthEnds
<1>2. CASE nth = 5
  <2>1. PICK last \in Int : last = f + len - 1
    OBVIOUS
  <2>2. last - ((WeekdayOf(last) - weekday + 7) % 7) \in Int
    BY SMT DEF WeekdayOf
  <2>3. NthWeekday(n, weekday, nth) \in Int
    BY <1>1, <1>2, <2>1, <2>2 DEF NthWeekday
  <2>4. QED BY <2>3, MonthsAssumption
<1>3. CASE nth # 5
  <2>1. FirstOnWeekday(f, weekday) \in f..(f + 6)
    BY FirstWeekday
  <2>2. PICK c \in Int : c = FirstOnWeekday(f, weekday) + (7 * (nth - 1)) /\ ~(c > f + len - 1)
    BY <1>3, <2>1
  <2>3. NthWeekday(n, weekday, nth) = c
    BY <1>1, <1>3, <2>2 DEF NthWeekday
  <2>4. QED BY <2>3, MonthsAssumption
<1>4. QED BY <1>2, <1>3

\* What the generator of candidate dates (candidateDates) does for ever: for a rule whose months
\* never have its day it yields nothing, so expandSeries never comes to the test that would end
\* it; for any other rule it yields a date past any window, so expandSeries ends.
THEOREM OnlyBarrenRulesRunAway ==
  ASSUME NEW r, Stored(r)
  PROVE  /\ Barren(r) => \A k \in Nat : Candidate(r, k) = Null
         /\ ~Barren(r) => \A to \in Int : \E k \in Nat : Candidate(r, k) # Null /\ Candidate(r, k) > to
<1>1. PICK s \in Int, i \in Int : s = r.start_date /\ i = r.interval /\ i >= 1 /\ Dated(s)
  BY StoredFacts
<1>2. PICK ms \in Int : ms = MonthOf(s)
  BY <1>1, MonthOfDay
<1>3. PICK f \in Int : f = DayNumber(ms, 1)
  BY NextMonth
<1>4. \A k \in Nat : k * i \in Int /\ MonthAt(r, k) = ms + k * i /\ MonthAt(r, k) \in Int
  BY <1>1, <1>2, SMT DEF MonthAt
<1>5. Cycle \in Nat /\ Cycle > 0
  BY <1>1, CalendarRepeats
<1>6. ASSUME NEW k \in Nat, NEW t \in Nat
      PROVE  k + Cycle * t \in Nat /\ DaysInMonth(MonthAt(r, k + Cycle * t)) = DaysInMonth(MonthAt(r, k))
  <2>1. PICK n \in Int, u \in Nat : n = MonthAt(r, k) /\ u = t * i /\ n = ms + k * i
    BY <1>1, <1>4, SMT
  <2>2. (k + Cycle * t) * i = k * i + Cycle * (t * i)
    BY <1>1, <1>5, SMT
  <2>3. k + Cycle * t \in Nat
    BY <1>5
  <2>4. MonthAt(r, k + Cycle * t) = ms + (k + Cycle * t) * i
    BY <1>4, <2>3
  <2>5. MonthAt(r, k + Cycle * t) = n + Cycle * u
    <3>1. PICK x, y \in Int : x = k * i /\ y = Cycle * u
      BY <1>1, <1>5, <2>1
    <3>2. (k + Cycle * t) * i = x + y
      BY <2>1, <2>2, <3>1
    <3>3. QED BY <2>1, <2>4, <3>1, <3>2
  <2>6. QED BY <2>1, <2>3, <2>5, CalendarRepeatsOften
<1>7. ASSUME Barren(r), NEW k \in Nat PROVE Candidate(r, k) = Null
  <2>1. r.frequency = "monthly_dom"
        /\ \A j \in 0..(Cycle - 1) : DaysInMonth(MonthAt(r, j)) < r.day_of_month
    BY <1>7 DEF Barren, MonthAt
  <2>2. PICK j \in 0..(Cycle - 1), t \in Nat : k = j + Cycle * t
    <3>1. k % Cycle \in 0..(Cycle - 1) /\ k \div Cycle \in Nat /\ k = (k % Cycle) + Cycle * (k \div Cycle)
      BY <1>5, SMT
    <3>2. QED BY <3>1
  <2>3. DaysInMonth(MonthAt(r, k)) = DaysInMonth(MonthAt(r, j))
    BY <1>6, <2>2
  <2>4. DaysInMonth(MonthAt(r, k)) < r.day_of_month
    BY <2>1, <2>3
  <2>5. r.day_of_month \in Int /\ DaysInMonth(MonthAt(r, k)) \in Int
    <3>1. r.day_of_month \in 1..31
      BY <2>1, StoredFacts
    <3>2. DaysInMonth(MonthAt(r, k)) \in 28..31
      BY <1>4, MonthEnds
    <3>3. QED BY <3>1, <3>2
  <2>6. DayOfMonth(MonthAt(r, k), r.day_of_month) = Null
    BY <2>4, <2>5 DEF DayOfMonth
  <2>7. QED BY <2>1, <2>6 DEF Candidate, MonthAt
<1>8. ASSUME ~Barren(r), NEW to \in Int PROVE \E k \in Nat : Candidate(r, k) # Null /\ Candidate(r, k) > to
  <2>1. CASE r.frequency = "weekly"
    <3>1. r.weekday \in 0..6
      BY <2>1, StoredFacts
    <3>2. PICK k \in Nat : k > to - s
      <4>1. CASE to >= s
        <5>1. to - s + 1 \in Nat /\ to - s + 1 > to - s
          BY <4>1
        <5>2. QED BY <5>1
      <4>2. CASE to < s
        <5>1. 0 \in Nat /\ 0 > to - s
          BY <4>2
        <5>2. QED BY <5>1
      <4>3. QED BY <4>1, <4>2
    <3>3. PICK p \in Nat : p = (7 * i) * k /\ p >= k
      BY <1>1, SMT
    <3>4. PICK c \in Int : c = FirstOnWeekday(s, r.weekday) + p /\ c >= s /\ c > to
      <4>1. FirstOnWeekday(s, r.weekday) \in s..(s + 6)
        BY <3>1, FirstWeekday
      <4>2. QED BY <3>2, <3>3, <4>1
    <3>5. c # Null
      BY MonthsAssumption
    <3>6. Candidate(r, k) = c
      BY <1>1, <2>1, <3>3, <3>4, <3>5 DEF Candidate
    <3>7. QED BY <3>4, <3>5, <3>6
  <2>2. CASE r.frequency # "weekly"
    <3>1. PICK j \in Nat : \A t \in Nat : MonthlyCandidate(r, MonthAt(r, j + Cycle * t)) # Null
      <4>1. CASE r.frequency = "monthly_dow"
        <5>1. PICK w \in 0..6, nth \in 1..5 : w = r.weekday /\ nth = r.week_of_month
          BY <4>1, StoredFacts
        <5>2. ASSUME NEW t \in Nat PROVE MonthlyCandidate(r, MonthAt(r, 0 + Cycle * t)) # Null
          <6>1. MonthAt(r, 0 + Cycle * t) \in Int
            <7>1. 0 + Cycle * t \in Nat
              BY <1>5
            <7>2. QED BY <1>4, <7>1
          <6>2. MonthlyCandidate(r, MonthAt(r, 0 + Cycle * t)) = NthWeekday(MonthAt(r, 0 + Cycle * t), w, nth)
            BY <4>1, <5>1 DEF MonthlyCandidate
          <6>3. QED BY <6>1, <6>2, EveryMonthHasIt
        <5>3. QED BY <5>2
      <4>2. CASE r.frequency = "monthly_dom"
        <5>1. PICK d \in 1..31 : d = r.day_of_month
          BY <4>2, StoredFacts
        <5>2. PICK j \in 0..(Cycle - 1) : ~(DaysInMonth(MonthAt(r, j)) < d)
          BY <1>8, <4>2, <5>1 DEF Barren, MonthAt
        <5>3. ASSUME NEW t \in Nat PROVE MonthlyCandidate(r, MonthAt(r, j + Cycle * t)) # Null
          <6>1. PICK n \in Int : n = MonthAt(r, j + Cycle * t)
            BY <1>4, <1>6
          <6>2. DaysInMonth(n) = DaysInMonth(MonthAt(r, j))
            BY <1>6, <6>1
          <6>3. DaysInMonth(n) \in 28..31 /\ d <= DaysInMonth(n)
            BY <5>2, <6>2, MonthEnds
          <6>4. DayOfMonth(n, d) = DayNumber(n, 1) + d - 1 /\ DayNumber(n, 1) \in Int
            <7>1. d \in Int
              OBVIOUS
            <7>2. DayNumber(n, d) = DayNumber(n, 1) + d - 1
              BY <7>1, DayInMonth
            <7>3. QED BY <6>3, <7>2, NextMonth DEF DayOfMonth
          <6>5. DayOfMonth(n, d) \in Int
            BY <6>4
          <6>6. MonthlyCandidate(r, n) = DayOfMonth(n, d)
            BY <4>2, <5>1 DEF MonthlyCandidate
          <6>7. QED BY <6>1, <6>5, <6>6, MonthsAssumption
        <5>4. QED BY <5>3
      <4>3. QED BY <2>2, <4>1, <4>2, StoredFacts
    <3>2. PICK t \in Nat : t > 0 /\ t > to - f
      <4>1. CASE to >= f
        <5>1. to - f + 1 \in Nat /\ to - f + 1 > 0 /\ to - f + 1 > to - f
          BY <4>1
        <5>2. QED BY <5>1
      <4>2. CASE to < f
        <5>1. 1 \in Nat /\ 1 > 0 /\ 1 > to - f
          BY <4>2
        <5>2. QED BY <5>1
      <4>3. QED BY <4>1, <4>2
    <3>3. PICK k \in Nat : k = j + Cycle * t /\ k > 0 /\ k > to - f
      <4>1. Cycle * t \in Nat /\ Cycle * t >= t
        BY <1>5, SMT
      <4>2. QED BY <3>2, <4>1
    <3>4. MonthlyCandidate(r, MonthAt(r, k)) # Null
      BY <3>1, <3>3
    <3>5. Candidate(r, k) # Null /\ Candidate(r, k) > to
      BY <1>1, <1>2, <1>3, <2>2, <3>3, <3>4, FarCandidate
    <3>6. QED BY <3>5
  <2>3. QED BY <2>1, <2>2
<1>9. QED BY <1>7, <1>8

=============================================================================
