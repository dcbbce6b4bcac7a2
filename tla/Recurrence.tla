------------------------------ MODULE Recurrence ------------------------------
(***************************************************************************)
(* Recurrence rules of appointment series: which rules are accepted, and   *)
(* the walk that turns a stored rule into dates.                           *)
(*                                                                         *)
(* A date is its day number from 0001-01-01 in the Gregorian calendar, so  *)
(* ISO strings compare as numbers do.  A month is numbered 12 * year +     *)
(* month - 1.  Weekdays are 0 (sun) to 6 (sat).                            *)
(***************************************************************************)
EXTENDS Integers, Sequences, FiniteSets

CONSTANTS
  Horizon,    \* bound of the model: the steps a walk is followed for
  Months,     \* the months the dates of the model lie in
  Null        \* the SQL NULL

----------------------------------------------------------------------------
(* Calendar *)

IsLeap(y) == y % 4 = 0 /\ (y % 100 # 0 \/ y % 400 = 0)

DaysInMonth(n) ==
  LET y == n \div 12
      m == (n % 12) + 1
  IN  CASE m = 2 -> IF IsLeap(y) THEN 29 ELSE 28
        [] m \in {4, 6, 9, 11} -> 30
        [] OTHER -> 31

DaysBeforeMonth == <<0, 31, 59, 90, 120, 151, 181, 212, 243, 273, 304, 334>>

DayNumber(n, d) ==
  LET m == (n % 12) + 1
      p == n \div 12 - 1
  IN  (365 * p) + (p \div 4) - (p \div 100) + (p \div 400)
      + DaysBeforeMonth[m] + (IF m > 2 /\ IsLeap(p + 1) THEN 1 ELSE 0) + d - 1

WeekdayOf(day) == (day + 1) % 7

MonthOf(day) == CHOOSE n \in Months : DayNumber(n, 1) <= day /\ day < DayNumber(n + 1, 1)

----------------------------------------------------------------------------
(* Accepting a rule *)

WithinRange(v, lo, hi) == v # Null /\ lo <= v /\ v <= hi

\* A pattern names the fields it needs and no other.
PatternAccepted(r) ==
  \/ /\ r.frequency = "weekly"
     /\ WithinRange(r.weekday, 0, 6)
     /\ r.week_of_month = Null /\ r.day_of_month = Null
  \/ /\ r.frequency = "monthly_dow"
     /\ WithinRange(r.weekday, 0, 6) /\ WithinRange(r.week_of_month, 1, 5)
     /\ r.day_of_month = Null
  \/ /\ r.frequency = "monthly_dom"
     /\ WithinRange(r.day_of_month, 1, 31)
     /\ r.weekday = Null /\ r.week_of_month = Null

EndAccepted(r) ==
  \/ /\ r.end_kind = "count"
     /\ r.end_count # Null /\ r.end_count >= 1
     /\ r.end_date = Null
  \/ /\ r.end_kind = "until"
     /\ r.end_date # Null /\ r.end_date >= r.start_date
     /\ r.end_count = Null
  \/ /\ r.end_kind = "open"
     /\ r.end_count = Null /\ r.end_date = Null

Accepted(r) == r.interval >= 1 /\ PatternAccepted(r) /\ EndAccepted(r)

----------------------------------------------------------------------------
(* Candidate dates: Null where a month has none, or before the start *)

FirstOnWeekday(start, weekday) == start + ((weekday - WeekdayOf(start) + 7) % 7)

\* The n-th weekday of a month; the fifth means the last.
NthWeekday(n, weekday, nth) ==
  LET first == FirstOnWeekday(DayNumber(n, 1), weekday)
      last  == DayNumber(n, DaysInMonth(n))
  IN  IF nth = 5 THEN last - ((WeekdayOf(last) - weekday + 7) % 7)
      ELSE IF first + (7 * (nth - 1)) > last THEN Null ELSE first + (7 * (nth - 1))

DayOfMonth(n, d) == IF d <= DaysInMonth(n) THEN DayNumber(n, d) ELSE Null

\* Mutant: the month wraps past December and the year does not move on.
Candidate_SameYear(r, k) ==
  LET first == MonthOf(r.start_date)
      n == first - (first % 12) + ((first + (k * r.interval)) % 12)
      c == CASE r.frequency = "weekly" ->
                  FirstOnWeekday(r.start_date, r.weekday) + (7 * r.interval * k)
             [] r.frequency = "monthly_dow" -> NthWeekday(n, r.weekday, r.week_of_month)
             [] r.frequency = "monthly_dom" -> DayOfMonth(n, r.day_of_month)
  IN  IF c # Null /\ c >= r.start_date THEN c ELSE Null

Candidate(r, k) ==
  LET n == MonthOf(r.start_date) + (k * r.interval)
      c == CASE r.frequency = "weekly" ->
                  FirstOnWeekday(r.start_date, r.weekday) + (7 * r.interval * k)
             [] r.frequency = "monthly_dow" -> NthWeekday(n, r.weekday, r.week_of_month)
             [] r.frequency = "monthly_dom" -> DayOfMonth(n, r.day_of_month)
  IN  IF c # Null /\ c >= r.start_date THEN c ELSE Null

----------------------------------------------------------------------------
(* expandSeries over a window, one candidate at a time *)

StartWalk == [k |-> 0, counted |-> 0, out |-> {}, ended |-> FALSE]

\* Where the loop over the candidates breaks.
Past(r, w, c, to) ==
  \/ c > to
  \/ r.end_kind = "count" /\ w.counted >= r.end_count
  \/ r.end_kind = "until" /\ c > r.end_date

\* Mutant: only the dates inside the window count.
WalkOn_CountsWindow(r, w, from, to) ==
  LET c == Candidate(r, w.k) IN
  IF c = Null THEN [w EXCEPT !.k = @ + 1]
  ELSE IF Past(r, w, c, to) THEN [w EXCEPT !.ended = TRUE]
  ELSE [w EXCEPT !.k = @ + 1,
                 !.counted = IF c >= from THEN @ + 1 ELSE @,
                 !.out = IF c >= from THEN @ \cup {c} ELSE @]

\* The generator looks at no window: a month without the day yields nothing,
\* and nothing then tests whether the walk is over.
WalkOn(r, w, from, to) ==
  LET c == Candidate(r, w.k) IN
  IF c = Null THEN [w EXCEPT !.k = @ + 1]
  ELSE IF Past(r, w, c, to) THEN [w EXCEPT !.ended = TRUE]
  ELSE [w EXCEPT !.k = @ + 1, !.counted = @ + 1,
                 !.out = IF c >= from THEN @ \cup {c} ELSE @]

----------------------------------------------------------------------------
(* Reference: what a rule means, day by day *)

IsNthWeekday(day, nth) ==
  LET n == MonthOf(day)
      d == day - DayNumber(n, 1) + 1
  IN  IF nth = 5 THEN d + 7 > DaysInMonth(n) ELSE (d - 1) \div 7 = nth - 1

MonthsApart(r, day) == MonthOf(day) - MonthOf(r.start_date)

FitsPattern(r, day) ==
  /\ day >= r.start_date
  /\ CASE r.frequency = "weekly" ->
            /\ WeekdayOf(day) = r.weekday
            /\ ((day - r.start_date) \div 7) % r.interval = 0
       [] r.frequency = "monthly_dow" ->
            /\ WeekdayOf(day) = r.weekday
            /\ IsNthWeekday(day, r.week_of_month)
            /\ MonthsApart(r, day) % r.interval = 0
       [] r.frequency = "monthly_dom" ->
            /\ day = DayNumber(MonthOf(day), 1) + r.day_of_month - 1
            /\ MonthsApart(r, day) % r.interval = 0

FittingDays(r, to) == {day \in r.start_date..to : FitsPattern(r, day)}

Meaning(r, from, to) ==
  {day \in FittingDays(r, to) :
     /\ day >= from
     /\ r.end_kind = "count" => Cardinality({d \in FittingDays(r, to) : d <= day}) <= r.end_count
     /\ r.end_kind = "until" => day <= r.end_date}

\* The months after which the calendar repeats.
Cycle == 4800

\* No month the rule steps through ever has the day.
Barren(r) ==
  /\ r.frequency = "monthly_dom"
  /\ \A k \in 0..(Cycle - 1) : DaysInMonth(MonthOf(r.start_date) + (k * r.interval)) < r.day_of_month

=============================================================================
