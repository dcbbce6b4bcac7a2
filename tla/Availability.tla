----------------------------- MODULE Availability -----------------------------
(***************************************************************************)
(* Interval arithmetic over one day, the slots and windows computed from   *)
(* it, and the conflict verdict of a proposed placement.                   *)
(*                                                                         *)
(* A time is a number of model minutes from midnight; intervals are        *)
(* [start, end) and Midnight is 24:00.                                     *)
(***************************************************************************)
EXTENDS Integers, Sequences, FiniteSets

CONSTANTS
  Midnight,   \* minutes in a day
  Tile        \* RESOURCE_SLOT_MINUTES, the step a room's hours are tiled with

ASSUME AvailabilityAssumption == Midnight \in Nat \ {0} /\ Tile \in 1..Midnight

----------------------------------------------------------------------------
(* Intervals *)

Interval(s, e) == [start |-> s, end |-> e]

\* Mutant: ends are inclusive.
DetectOverlap_Touching(a, b) == a.start <= b.end /\ b.start <= a.end

DetectOverlap(a, b) == a.start < b.end /\ b.start < a.end

Covers(a, b) == a.start <= b.start /\ b.end <= a.end

\* to_char of an end at 24:00 gives "00:00"; every other time is itself.
ReadBack(t) == t % Midnight

\* Sorted by start, the next interval is the first of those left.
Earliest(ivs) == CHOOSE iv \in ivs : \A other \in ivs : iv.start <= other.start

\* Mutant: intervals that only touch stay apart.
MergeNext_Touching(s) ==
  LET cur  == Earliest(s.left)
      last == {iv \in s.out : cur.start < iv.end}
  IN  [left |-> s.left \ {cur},
       out  |-> (s.out \ last) \cup
                IF last = {} THEN {cur}
                ELSE {Interval(iv.start, IF cur.end > iv.end THEN cur.end ELSE iv.end) : iv \in last}]

\* One round of mergeIntervals: the next interval stretches the last one put out, the only
\* one that can reach so far, or is put out itself.
MergeNext(s) ==
  LET cur  == Earliest(s.left)
      last == {iv \in s.out : cur.start <= iv.end}
  IN  [left |-> s.left \ {cur},
       out  |-> (s.out \ last) \cup
                IF last = {} THEN {cur}
                ELSE {Interval(iv.start, IF cur.end > iv.end THEN cur.end ELSE iv.end) : iv \in last}]

Merging(kept) ==
  LET round[n \in 0..Cardinality(kept)] ==
        IF n = 0 THEN [left |-> kept, out |-> {}] ELSE MergeNext(round[n - 1])
  IN  round

MergeIntervals(ivs) ==
  LET kept == {iv \in ivs : iv.end > iv.start} IN Merging(kept)[Cardinality(kept)].out

\* What is left of the intervals around one block.
CutOut(ivs, block) ==
       {iv \in ivs : ~DetectOverlap(iv, block)}
  \cup {Interval(iv.start, block.start) : iv \in {i \in ivs : DetectOverlap(i, block) /\ block.start > i.start}}
  \cup {Interval(block.end, iv.end) : iv \in {i \in ivs : DetectOverlap(i, block) /\ block.end < i.end}}

CutNext(s) ==
  LET block == Earliest(s.left) IN [left |-> s.left \ {block}, out |-> CutOut(s.out, block)]

Cutting(base, cuts) ==
  LET round[n \in 0..Cardinality(cuts)] ==
        IF n = 0 THEN [left |-> cuts, out |-> base] ELSE CutNext(round[n - 1])
  IN  round

SubtractIntervals(base, blocks) ==
  LET cuts == MergeIntervals(blocks) IN Cutting(MergeIntervals(base), cuts)[Cardinality(cuts)].out

----------------------------------------------------------------------------
(* Windows and slots of one owner on one day *)

FullDay == [off |-> TRUE, timed |-> FALSE, start |-> 0, end |-> 0]

\* Blocks and extra hours, without the hours off; nothing on a full day off.
AvailableWindows(blocks, exceptions) ==
  IF FullDay \in exceptions THEN {}
  ELSE LET timed(off) == {Interval(e.start, e.end) : e \in {x \in exceptions : x.timed /\ x.off = off}}
           base == {Interval(b.start, b.end) : b \in blocks}
       IN  SubtractIntervals(base \cup timed(FALSE), timed(TRUE))

ComputeFreeWindows(blocks, exceptions, booked) ==
  SubtractIntervals(AvailableWindows(blocks, exceptions), booked)

\* Mutant: the tile that ends with the block is left out.
Tiles_Short(b) == {Interval(b.start + (k * b.slot), b.start + ((k + 1) * b.slot)) :
                     k \in {j \in 0..(Midnight - 1) : b.start + ((j + 1) * b.slot) < b.end}}

\* Back-to-back tiles of a block, from its start.
Tiles(b) == {Interval(b.start + (k * b.slot), b.start + ((k + 1) * b.slot)) :
               k \in {j \in 0..(Midnight - 1) : b.start + ((j + 1) * b.slot) <= b.end}}

ComputeServiceSlots(blocks, exceptions, booked) ==
  {slot \in UNION {Tiles(b) : b \in blocks} :
     /\ \E iv \in AvailableWindows(blocks, exceptions) : Covers(iv, slot)
     /\ \A k \in booked : ~DetectOverlap(slot, k)}

----------------------------------------------------------------------------
(* Booking input *)

\* An appointment may end at 24:00 and not after it.
CrossesMidnight(start, duration) == start + duration > Midnight

\* COALESCE of the override of the block and the default of the service.
SlotMinutes(b, default) == IF b.override = 0 THEN default ELSE b.override

\* resolveBooking: 0 stands for a length nobody set.
ResolveDuration(sobreturno, override, default) ==
  IF sobreturno > 0 THEN sobreturno ELSE IF override > 0 THEN override ELSE default

\* Mutant: the override of the block is not looked up.
EffectiveDurations_Default(blocks, default, start) == {default}

\* getBlockServiceForSlot has a LIMIT 1 and no ORDER BY: any block around the
\* start may answer.  A length a client sends is ignored.
EffectiveDurations(blocks, default, start) ==
  LET around == {b \in blocks : b.start <= start /\ start < b.end} IN
  IF around = {} THEN {ResolveDuration(0, 0, default)}
  ELSE {ResolveDuration(0, b.override, default) : b \in around}

IsOutsideBookingWindow(day, window) ==
  day < window.min \/ (window.max # -1 /\ day > window.max)

----------------------------------------------------------------------------
(* evaluateConflicts *)

\* Rows are read back from the database, virtual occurrences computed.
BookedInterval(b) == Interval(b.start, IF b.virtual THEN b.end ELSE ReadBack(b.end))

OverlapType(b, kind) ==
  IF b.state = "requested" THEN "requested_block"
  ELSE IF kind = "professional" THEN "professional_overlap" ELSE "resource_overlap"

ContainedInGrid(p, slots) == \E iv \in MergeIntervals(slots) : Covers(iv, p)

\* The conflicts of one owner, each with the booking it is about (0: none).
OwnerConflicts(p, kind, slots, booked, exclude) ==
       {[type |-> OverlapType(b, kind), with |-> b.id] :
          b \in {x \in booked : x.id # exclude /\ DetectOverlap(p, BookedInterval(x))}}
  \cup (IF ~ContainedInGrid(p, slots)
        THEN {[type |-> IF kind = "professional" THEN "professional_availability"
                                                  ELSE "resource_availability", with |-> 0]}
        ELSE IF kind = "professional" /\ p \notin slots
        THEN {[type |-> "slot_alignment", with |-> 0]}
        ELSE {})

----------------------------------------------------------------------------
(* Time off: the SQL of the stored flag and of the preview *)

IsOpen(r) == r.state \in {"scheduled", "requested"}

\* Open, still to come and not acknowledged.
ConflictEligible(r, now) == IsOpen(r) /\ r.start >= now /\ ~r.ignored

\* Mutant: a booking that starts when the time off ends is hit.
WallClockOverlap_Touching(r, off) == r.start <= off.end /\ ReadBack(r.end) > off.start

\* Wall-clock times: an end at 24:00 is the time 00:00.
WallClockOverlap(r, off) == r.start < off.end /\ ReadBack(r.end) > off.start

HitByTimeOff(r, off, now) ==
  /\ off.off
  /\ ConflictEligible(r, now)
  /\ off.timed => WallClockOverlap(r, off)

\* The stored flag: closures and exceptions of the professional on the day.
FlaggedByTimeOff(r, exceptions, now) ==
  \E off \in exceptions : HitByTimeOff(r, off, now)

=============================================================================
