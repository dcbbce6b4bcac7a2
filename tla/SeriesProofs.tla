----------------------------- MODULE SeriesProofs -----------------------------
(***************************************************************************)
(* Recurring appointments, for every set of requests, stored series, rules *)
(* and days: rules stay well formed, an occurrence has one row, a list     *)
(* shows it once, and no double booking is silent.                         *)
(*                                                                         *)
(* The argument: a row never changes the occurrence it stands for, so the  *)
(* index alone keeps occurrences apart and a list that read rows first and *)
(* overrides last cannot miss one; and whoever is about to insert holds    *)
(* the lock every other placement waits for, so what its recheck found is  *)
(* still so.                                                               *)
(***************************************************************************)
EXTENDS Series, TLAPS

----------------------------------------------------------------------------
(* The inductive invariant *)

\* ValidRule, but for an end before the start, which an end or a split may leave.
ValidFields(r) == r.start \in Int /\ r.interval \in Nat \ {0} /\ r.end \in EndShapes

IsSeries(x) ==
  /\ x = WithStatus(x, x.status)
  /\ x.status \in {"active", "ended"}
  /\ ValidFields(x)

IsRow(r) ==
  /\ r = [state |-> r.state, series |-> r.series, occ |-> r.occ, day |-> r.day,
          time |-> r.time, forced |-> r.forced]
  /\ r.state \in {"scheduled", "canceled"}

SeriesTypes ==
  /\ series = [s \in SeriesIds |-> series[s]]
  /\ \A s \in SeriesIds : series[s] = NoSeries \/ IsSeries(series[s])
  /\ row = [i \in Requests |-> row[i]]
  /\ \A i \in Requests : row[i] = NoRow \/ IsRow(row[i])
  /\ vetted \subseteq Requests
  /\ lock \in Requests \cup {Free}
  /\ pc \in [Requests -> Steps]
  /\ job = [q \in Requests |-> job[q]]
  /\ listed = [q \in Requests |-> listed[q]]

\* What a handler holds of its request: a series that is stored, a date, and fields that were
\* checked.
KnowsItsSeries(q) ==
  pc[q] \in InTx =>
    /\ job[q] = [op |-> job[q].op, series |-> job[q].series, seen |-> job[q].seen,
                 date |-> job[q].date, forced |-> job[q].forced, fields |-> job[q].fields]
    /\ job[q].series \in SeriesIds /\ series[job[q].series] # NoSeries
    /\ job[q].date \in Int
    /\ pc[q] \in {"edit", "split"} => ValidFields(job[q].fields)

\* A request that has not ended has inserted nothing.
InsertsLast(q) == row[q] # NoRow => pc[q] = "done"

\* Who is past the lock holds it, and nobody took the slot since the recheck.
HoldsTheSlot(q) ==
  /\ pc[q] \in {"check", "insert"} => lock = q
  /\ pc[q] = "insert" /\ ~job[q].forced =>
       ~\E j \in Requests \ {q} : IsOpen(row[j]) /\ row[j].day = job[q].date
                                                 /\ row[j].time = job[q].seen.time

\* The rows a list has read are still there, for the same occurrences.
RowsStillThere(q) ==
  /\ pc[q] \in {"listSeries", "listOverrides"} =>
       \A e \in job[q].rows : e.id \in Requests /\ row[e.id] # NoRow /\ e = RowEntry(e.id)
  /\ pc[q] = "listOverrides" => job[q].virtual \subseteq SeriesIds \X Days

SeriesInv ==
  /\ SeriesTypes
  /\ \A q \in Requests : KnowsItsSeries(q) /\ InsertsLast(q) /\ HoldsTheSlot(q) /\ RowsStillThere(q)
  /\ OneRowPerOccurrence
  /\ ListedOnce
  /\ VettedClashIsForced

----------------------------------------------------------------------------
(* What a step of one handler leaves alone *)

\* What a handler knows, apart from the tables.
Keeps(q) == KnowsItsSeries(q) /\ InsertsLast(q) /\ HoldsTheSlot(q) /\ RowsStillThere(q)

\* Only q moves, and it takes no lock that another holds.
OnlyMoves(q) ==
  /\ pc' = [pc EXCEPT ![q] = pc'[q]] /\ pc'[q] \in Steps
  /\ job' = [job EXCEPT ![q] = job'[q]]
  /\ lock' = lock \/ (lock \in {q, Free} /\ lock' \in {q, Free})

\* What others read of the tables stays: rows and series are not removed, a row keeps its
\* occurrence, and a slot is taken by the holder of the lock only.
TablesGrow(q) ==
  /\ \A s \in SeriesIds : series[s] # NoSeries => series'[s] # NoSeries
  /\ \A i \in Requests : row[i] # NoRow =>
       row'[i] # NoRow /\ row'[i].series = row[i].series /\ row'[i].occ = row[i].occ
  /\ \A i \in Requests \ {q} : row'[i] # NoRow => row[i] # NoRow
  /\ \/ lock \in {q, Free}
     \/ \A i \in Requests : IsOpen(row'[i]) =>
          IsOpen(row[i]) /\ row'[i].day = row[i].day /\ row'[i].time = row[i].time

LEMMA OthersKeep ==
  ASSUME SeriesInv, NEW q \in Requests, OnlyMoves(q), TablesGrow(q), NEW r \in Requests \ {q}
  PROVE  Keeps(r)'
<1>1. pc'[r] = pc[r] /\ job'[r] = job[r] /\ Keeps(r)
  BY DEF SeriesInv, SeriesTypes, OnlyMoves, Keeps
<1>2. KnowsItsSeries(r)'
  BY <1>1 DEF Keeps, KnowsItsSeries, TablesGrow
<1>3. InsertsLast(r)'
  BY <1>1 DEF Keeps, InsertsLast, TablesGrow
<1>4. HoldsTheSlot(r)'
  <2>1. pc[r] \in {"check", "insert"} => lock = r /\ lock' = r /\ lock \notin {q, Free}
    BY <1>1, SeriesAssumption DEF Keeps, HoldsTheSlot, OnlyMoves
  <2>2. pc[r] = "insert" =>
          \A i \in Requests : IsOpen(row'[i]) =>
            IsOpen(row[i]) /\ row'[i].day = row[i].day /\ row'[i].time = row[i].time
    BY <2>1 DEF TablesGrow
  <2>3. QED BY <1>1, <2>1, <2>2 DEF Keeps, HoldsTheSlot
<1>5. RowsStillThere(r)'
  BY <1>1 DEF Keeps, RowsStillThere, RowEntry, TablesGrow
<1>6. QED BY <1>2, <1>3, <1>4, <1>5 DEF Keeps

\* A step that changes no table and answers no list.
LEMMA QuietStep ==
  ASSUME SeriesInv, NEW q \in Requests, OnlyMoves(q), UNCHANGED <<tables, listed>>, Keeps(q)'
  PROVE  SeriesInv'
<1>1. TablesGrow(q)
  BY DEF tables, TablesGrow
<1>2. \A r \in Requests : Keeps(r)'
  BY <1>1, OthersKeep
<1>3. SeriesTypes'
  BY DEF SeriesInv, SeriesTypes, OnlyMoves, tables, IsSeries, IsRow
<1>4. OneRowPerOccurrence' /\ ListedOnce' /\ VettedClashIsForced'
  BY DEF SeriesInv, tables, OneRowPerOccurrence, ListedOnce, VettedClashIsForced, VirtualEntry
<1>5. QED BY <1>2, <1>3, <1>4 DEF SeriesInv, Keeps

\* A request that ends knows nothing any more.
LEMMA FinishMoves ==
  ASSUME SeriesInv, NEW q \in Requests, NEW outcome, Finish(q, outcome)
  PROVE  OnlyMoves(q) /\ Keeps(q)'
<1>1. pc'[q] = "done" /\ OnlyMoves(q)
  BY DEF SeriesInv, SeriesTypes, Finish, GoTo, OnlyMoves, Steps, InTx
<1>2. QED
  BY <1>1 DEF Keeps, KnowsItsSeries, InsertsLast, HoldsTheSlot, RowsStillThere, InTx

\* A request begins with what it loaded.
LEMMA BeginMoves ==
  ASSUME SeriesInv, NEW q \in Requests, NEW j, NEW step \in Steps, Begin(q, j, step)
  PROVE  /\ OnlyMoves(q) /\ UNCHANGED <<tables, listed>>
         /\ pc'[q] = step /\ job'[q] = j /\ row[q] = NoRow /\ lock' = lock
  BY DEF SeriesInv, SeriesTypes, Begin, GoTo, OnlyMoves, tables, InsertsLast

\* A handler of one series holds it, the date and the fields it checked.
LEMMA LoadMoves ==
  ASSUME SeriesInv, NEW q \in Requests, NEW s \in SeriesIds, NEW op, NEW date \in Int, NEW fields,
         NEW step \in {"existing", "edit", "split", "end"}, step \in {"edit", "split"} => ValidFields(fields),
         Load(q, s, op, date, fields, step)
  PROVE  SeriesInv'
<1> DEFINE j == [op |-> op, series |-> s, seen |-> series[s], date |-> date, forced |-> FALSE,
                 fields |-> fields]
<1>1. series[s] # NoSeries /\ Begin(q, j, step)
  BY DEF Load
<1>2. step \in Steps
  BY DEF Steps, InTx
<1>3. /\ OnlyMoves(q) /\ UNCHANGED <<tables, listed>>
      /\ pc'[q] = step /\ job'[q] = j /\ row[q] = NoRow /\ lock' = lock
  BY <1>1, <1>2, BeginMoves
<1>4. Keeps(q)'
  BY <1>1, <1>3 DEF Keeps, KnowsItsSeries, InsertsLast, HoldsTheSlot, RowsStillThere, InTx, tables
<1>5. QED BY <1>3, <1>4, QuietStep

----------------------------------------------------------------------------
(* One lemma for each step *)

LEMMA LoadStep ==
  ASSUME SeriesInv, NEW q \in Requests,
         \/ LoadForMaterialize(q) \/ LoadForEdit(q) \/ LoadForSplit(q) \/ LoadForEnd(q)
  PROVE  SeriesInv'
<1>1. Days \subseteq Int
  BY SeriesAssumption
<1>2. CASE LoadForMaterialize(q)
  BY <1>1, <1>2, LoadMoves DEF LoadForMaterialize
<1>3. CASE LoadForEdit(q)
  BY <1>3, LoadMoves DEF LoadForEdit, ValidRule, ValidFields
<1>4. CASE LoadForSplit(q)
  BY <1>1, <1>4, LoadMoves DEF LoadForSplit, ValidRule, ValidFields
<1>5. CASE LoadForEnd(q)
  <2>1. PICK s \in SeriesIds :
          series[s] # NoSeries
          /\ \E from \in Days \cup {series[s].start} : Load(q, s, "end", from, <<>>, "end")
    BY <1>5 DEF LoadForEnd
  <2>2. Days \cup {series[s].start} \subseteq Int
    BY <1>1, <2>1 DEF SeriesInv, SeriesTypes, IsSeries, ValidFields
  <2>3. QED BY <2>1, <2>2, LoadMoves
<1>6. QED BY <1>2, <1>3, <1>4, <1>5

\* A materialization up to its recheck.
LEMMA FindStep ==
  ASSUME SeriesInv, NEW q \in Requests, ReturnExisting(q) \/ FindNone(q) \/ LockOwner(q)
  PROVE  SeriesInv'
<1>1. CASE ReturnExisting(q)
  BY <1>1, FinishMoves, QuietStep DEF ReturnExisting
<1>2. CASE FindNone(q) \/ LockOwner(q)
  <2>1. OnlyMoves(q) /\ UNCHANGED <<tables, listed>>
    BY <1>2 DEF FindNone, LockOwner, GoTo, OnlyMoves, SeriesInv, SeriesTypes, Steps, InTx
  <2>2. Keeps(q)'
    BY <1>2 DEF FindNone, LockOwner, GoTo, SeriesInv, SeriesTypes, Keeps, KnowsItsSeries,
       InsertsLast, HoldsTheSlot, RowsStillThere, InTx, tables
  <2>3. QED BY <2>1, <2>2, QuietStep
<1>3. QED BY <1>1, <1>2

\* What the recheck found is what there is: the lock is held.
LEMMA RecheckStep ==
  ASSUME SeriesInv, NEW q \in Requests, RecheckOccurrence(q)
  PROVE  SeriesInv'
<1>1. /\ pc[q] = "check" /\ pc' = [pc EXCEPT ![q] = "insert"] /\ lock = q
      /\ job' = [job EXCEPT ![q].forced = Taken(q, job[q].date, job[q].seen.time)]
      /\ UNCHANGED <<tables, lock, result, listed>>
  BY DEF RecheckOccurrence, GoTo, SeriesInv, HoldsTheSlot
<1>2. OnlyMoves(q)
  BY <1>1 DEF OnlyMoves, SeriesInv, SeriesTypes, Steps, InTx
<1>3. pc'[q] = "insert" /\ lock' = q /\ row[q] = NoRow
  BY <1>1 DEF SeriesInv, SeriesTypes, InsertsLast
<1> DEFINE found == Taken(q, job[q].date, job[q].seen.time)
<1>4. PICK t : t = found
  OBVIOUS
<1> HIDE DEF found
<1>5. /\ job'[q].op = job[q].op /\ job'[q].series = job[q].series /\ job'[q].date = job[q].date
      /\ job'[q].seen = job[q].seen /\ job'[q].fields = job[q].fields /\ job'[q].forced = t
      /\ job'[q] = [op |-> job'[q].op, series |-> job'[q].series, seen |-> job'[q].seen,
                    date |-> job'[q].date, forced |-> job'[q].forced, fields |-> job'[q].fields]
  <2>1. job'[q] = [job[q] EXCEPT !.forced = t]
    BY <1>1, <1>4 DEF SeriesInv, SeriesTypes, found
  <2>2. job[q] = [op |-> job[q].op, series |-> job[q].series, seen |-> job[q].seen,
                  date |-> job[q].date, forced |-> job[q].forced, fields |-> job[q].fields]
    BY <1>1 DEF SeriesInv, KnowsItsSeries, InTx
  <2>3. QED BY <2>1, <2>2
<1>6. KnowsItsSeries(q)'
  BY <1>1, <1>3, <1>5 DEF SeriesInv, KnowsItsSeries, InTx, tables
<1>7. HoldsTheSlot(q)'
  BY <1>1, <1>3, <1>4, <1>5 DEF HoldsTheSlot, Taken, found, tables
<1>8. Keeps(q)'
  BY <1>1, <1>3, <1>6, <1>7 DEF Keeps, InsertsLast, RowsStillThere, tables
<1>9. QED BY <1>1, <1>2, <1>8, QuietStep

\* A request that ends, having written tables that are sound by themselves.
LEMMA EndingStep ==
  ASSUME SeriesInv, NEW q \in Requests, NEW outcome, Finish(q, outcome), TablesGrow(q),
         SeriesTypes', OneRowPerOccurrence', ListedOnce', VettedClashIsForced'
  PROVE  SeriesInv'
<1>1. OnlyMoves(q) /\ Keeps(q)'
  BY FinishMoves
<1>2. \A r \in Requests : Keeps(r)'
  BY <1>1, OthersKeep
<1>3. QED BY <1>2 DEF SeriesInv, Keeps

\* The types of what a request that ends does not write.
LEMMA EndingTypes ==
  ASSUME SeriesInv, NEW q \in Requests, NEW outcome, Finish(q, outcome),
         UNCHANGED listed, vetted' \subseteq Requests,
         series' = [s \in SeriesIds |-> series'[s]],
         \A s \in SeriesIds : series'[s] = NoSeries \/ IsSeries(series'[s]),
         row' = [i \in Requests |-> row'[i]],
         \A i \in Requests : row'[i] = NoRow \/ IsRow(row'[i])
  PROVE  SeriesTypes'
  BY FinishMoves DEF SeriesInv, SeriesTypes, Finish, GoTo, Steps, InTx, IsSeries, IsRow

\* A request that ends with an answer and nothing written.
LEMMA AnswerStep ==
  ASSUME SeriesInv, NEW q \in Requests, LoseRace(q) \/ Refuse(q)
  PROVE  SeriesInv'
<1>1. PICK outcome : Finish(q, outcome) /\ UNCHANGED <<tables, listed>>
  BY DEF LoseRace, Refuse
<1>2. QED BY <1>1, FinishMoves, QuietStep

\* Writing rules: whoever reads the table next finds rules, as before.
LEMMA RuleStep ==
  ASSUME SeriesInv, NEW q \in Requests, NEW outcome, Finish(q, outcome),
         UNCHANGED <<row, vetted, listed>>,
         series' = [s \in SeriesIds |-> series'[s]],
         \A s \in SeriesIds : series'[s] = series[s] \/ IsSeries(series'[s])
  PROVE  SeriesInv'
<1>1. \A s \in SeriesIds : IsSeries(series'[s]) => series'[s] # NoSeries
  BY DEF IsSeries, NoSeries
<1>2. TablesGrow(q)
  BY <1>1 DEF TablesGrow
<1>3. SeriesTypes'
  BY EndingTypes DEF SeriesInv, SeriesTypes
<1>4. OneRowPerOccurrence' /\ ListedOnce' /\ VettedClashIsForced'
  BY DEF SeriesInv, OneRowPerOccurrence, ListedOnce, VettedClashIsForced, VirtualEntry
<1>5. QED BY <1>2, <1>3, <1>4, EndingStep

LEMMA StatusIsSeries ==
  ASSUME NEW rule, NEW status \in {"active", "ended"}, ValidFields(rule)
  PROVE  IsSeries(WithStatus(rule, status))
  BY DEF IsSeries, WithStatus, ValidFields

\* An end bounds a rule; the end may lie before the start.
LEMMA EndIsSeries ==
  ASSUME NEW x, IsSeries(x), NEW last \in Int
  PROVE  IsSeries(EndAt(x, last))
<1> DEFINE e == [kind |-> "until", count |-> 0, until |-> last]
<1>1. e \in EndShapes
  BY DEF EndShapes
<1>2. EndAt(x, last) = WithStatus([start |-> x.start, interval |-> x.interval, time |-> x.time, end |-> e], "ended")
  <2>1. x = [start |-> x.start, interval |-> x.interval, time |-> x.time, end |-> x.end, status |-> x.status]
    BY DEF IsSeries, WithStatus
  <2>2. EndAt(x, last) = [[x EXCEPT !.end = e] EXCEPT !.status = "ended"]
    BY DEF EndAt
  <2>3. [x EXCEPT !.end = e] = [start |-> x.start, interval |-> x.interval, time |-> x.time, end |-> e, status |-> x.status]
    BY <2>1
  <2>4. QED BY <2>2, <2>3 DEF WithStatus
<1>3. QED BY <1>1, <1>2, StatusIsSeries DEF IsSeries, ValidFields

LEMMA WriteRuleStep ==
  ASSUME SeriesInv, NEW q \in Requests, CreateSeries(q) \/ EditRule(q) \/ SplitSeries(q)
  PROVE  SeriesInv'
<1>1. q \in SeriesIds
  BY DEF SeriesIds
<1>2. CASE CreateSeries(q)
  <2>1. PICK rule \in Rules :
          ValidRule(rule) /\ series' = [series EXCEPT ![q] = WithStatus(rule, "active")]
          /\ Finish(q, "created") /\ UNCHANGED <<row, vetted, listed>>
    BY <1>2 DEF CreateSeries
  <2>2. IsSeries(WithStatus(rule, "active"))
    BY <2>1, StatusIsSeries DEF ValidRule, ValidFields
  <2>3. QED BY <1>1, <2>1, <2>2, RuleStep DEF SeriesInv, SeriesTypes
<1>3. CASE EditRule(q)
  <2> DEFINE s == job[q].series
             x == WithStatus(job[q].fields, series[s].status)
  <2>1. /\ pc[q] = "edit" /\ series' = [series EXCEPT ![s] = x]
        /\ Finish(q, "edited") /\ UNCHANGED <<row, vetted, listed>>
    BY <1>3 DEF EditRule
  <2>2. s \in SeriesIds /\ IsSeries(series[s]) /\ ValidFields(job[q].fields)
    BY <2>1 DEF SeriesInv, SeriesTypes, KnowsItsSeries, InTx
  <2>3. IsSeries(x)
    BY <2>2, StatusIsSeries DEF IsSeries
  <2> HIDE DEF s, x
  <2>4. QED BY <2>1, <2>2, <2>3, RuleStep DEF SeriesInv, SeriesTypes
<1>4. CASE SplitSeries(q)
  <2> DEFINE s == job[q].series
             x == EndAt(series[s], job[q].date - 1)
             y == WithStatus(job[q].fields, "active")
  <2>1. /\ pc[q] = "split" /\ series' = [series EXCEPT ![s] = x, ![q] = y]
        /\ Finish(q, "split") /\ UNCHANGED <<row, vetted, listed>>
    BY <1>4 DEF SplitSeries
  <2>2. /\ s \in SeriesIds /\ IsSeries(series[s]) /\ ValidFields(job[q].fields)
        /\ job[q].date - 1 \in Int
    BY <2>1 DEF SeriesInv, SeriesTypes, KnowsItsSeries, InTx
  <2>3. IsSeries(x) /\ IsSeries(y)
    BY <2>2, StatusIsSeries, EndIsSeries
  <2> HIDE DEF s, x, y
  <2>4. /\ series' = [t \in SeriesIds |-> series'[t]]
        /\ \A t \in SeriesIds : series'[t] = series[t] \/ IsSeries(series'[t])
    BY <1>1, <2>1, <2>2, <2>3 DEF SeriesInv, SeriesTypes
  <2>5. QED BY <2>1, <2>4, RuleStep
<1>5. QED BY <1>2, <1>3, <1>4

\* Canceling rows takes no slot and changes no occurrence.
LEMMA CancelStep ==
  ASSUME SeriesInv, NEW q \in Requests, NEW outcome, Finish(q, outcome), UNCHANGED <<vetted, listed>>,
         series' = [s \in SeriesIds |-> series'[s]],
         \A s \in SeriesIds : series'[s] = series[s] \/ IsSeries(series'[s]),
         row' = [i \in Requests |-> row'[i]],
         \A i \in Requests :
           row'[i] = row[i] \/ (row[i] # NoRow /\ row'[i] = [row[i] EXCEPT !.state = "canceled"])
  PROVE  SeriesInv'
<1>1. \A s \in SeriesIds : IsSeries(series'[s]) => series'[s] # NoSeries
  BY DEF IsSeries, NoSeries
<1>2. ASSUME NEW i \in Requests, row[i] # NoRow, row'[i] = [row[i] EXCEPT !.state = "canceled"]
      PROVE  /\ row'[i] = [state |-> "canceled", series |-> row[i].series, occ |-> row[i].occ,
                           day |-> row[i].day, time |-> row[i].time, forced |-> row[i].forced]
             /\ IsRow(row'[i]) /\ row'[i] # NoRow /\ ~IsOpen(row'[i])
             /\ row'[i].series = row[i].series /\ row'[i].occ = row[i].occ
  BY <1>2 DEF SeriesInv, SeriesTypes, IsRow, IsOpen, NoRow
<1>3. \A i \in Requests :
        /\ row'[i] = NoRow <=> row[i] = NoRow
        /\ row'[i] = NoRow \/ IsRow(row'[i])
        /\ row[i] # NoRow => row'[i].series = row[i].series /\ row'[i].occ = row[i].occ
        /\ IsOpen(row'[i]) => row'[i] = row[i]
  BY <1>2 DEF SeriesInv, SeriesTypes
<1>4. TablesGrow(q)
  BY <1>1, <1>3 DEF TablesGrow
<1>5. SeriesTypes'
  BY <1>3, EndingTypes DEF SeriesInv, SeriesTypes
<1>6. OneRowPerOccurrence' /\ ListedOnce'
  BY <1>3 DEF SeriesInv, OneRowPerOccurrence, ListedOnce, VirtualEntry
<1>7. VettedClashIsForced'
  <2> SUFFICES ASSUME NEW j \in vetted, NEW k \in vetted, j # k, IsOpen(row'[j]), IsOpen(row'[k]),
                      row'[j].day = row'[k].day, row'[j].time = row'[k].time
               PROVE  row'[j].forced \/ row'[k].forced
    BY DEF VettedClashIsForced, IsOpen
  <2>1. row'[j] = row[j] /\ row'[k] = row[k]
    BY <1>3 DEF SeriesInv, SeriesTypes
  <2>2. QED BY <2>1 DEF SeriesInv, VettedClashIsForced, IsOpen
<1>8. QED BY <1>4, <1>5, <1>6, <1>7, EndingStep

LEMMA CancelingStep ==
  ASSUME SeriesInv, NEW q \in Requests, EndSeries(q) \/ CancelRow(q)
  PROVE  SeriesInv'
<1>1. \A i \in Requests : IsOpen(row[i]) => row[i] # NoRow
  BY DEF IsOpen, NoRow
<1>2. CASE EndSeries(q)
  <2> DEFINE s == job[q].series
             x == EndAt(series[s], job[q].date - 1)
  <2>1. /\ pc[q] = "end" /\ series' = [series EXCEPT ![s] = x] /\ row' = CancelFrom(s, job[q].date)
        /\ Finish(q, "ended") /\ UNCHANGED <<vetted, listed>>
    BY <1>2 DEF EndSeries
  <2>2. s \in SeriesIds /\ IsSeries(series[s]) /\ job[q].date - 1 \in Int
    BY <2>1 DEF SeriesInv, SeriesTypes, KnowsItsSeries, InTx
  <2>3. IsSeries(x)
    BY <2>2, EndIsSeries
  <2> HIDE DEF s, x
  <2>4. /\ row' = [i \in Requests |-> row'[i]]
        /\ \A i \in Requests :
             row'[i] = row[i] \/ (row[i] # NoRow /\ row'[i] = [row[i] EXCEPT !.state = "canceled"])
    BY <1>1, <2>1 DEF CancelFrom
  <2>5. QED BY <2>1, <2>2, <2>3, <2>4, CancelStep DEF SeriesInv, SeriesTypes
<1>3. CASE CancelRow(q)
  <2>1. PICK i \in Requests :
          /\ IsOpen(row[i]) /\ row' = [row EXCEPT ![i].state = "canceled"]
          /\ Finish(q, "canceled") /\ UNCHANGED <<series, vetted, listed>>
    BY <1>3 DEF CancelRow
  <2>2. /\ row' = [j \in Requests |-> row'[j]]
        /\ \A j \in Requests :
             row'[j] = row[j] \/ (row[j] # NoRow /\ row'[j] = [row[j] EXCEPT !.state = "canceled"])
    BY <1>1, <2>1 DEF SeriesInv, SeriesTypes
  <2>3. QED BY <2>1, <2>2, CancelStep DEF SeriesInv, SeriesTypes
<1>4. QED BY <1>2, <1>3

\* Placing a row: a new one in the request's own name, or one there is in another slot.
LEMMA PlaceStep ==
  ASSUME SeriesInv, NEW q \in Requests, NEW outcome, Finish(q, outcome), UNCHANGED <<series, listed>>,
         lock \in {q, Free},
         NEW i \in Requests, NEW r, IsRow(r),
         row' = [row EXCEPT ![i] = r], vetted' = vetted \cup {i},
         \/ row[i] # NoRow /\ r.series = row[i].series /\ r.occ = row[i].occ
         \/ row[i] = NoRow /\ i = q
            /\ (r.series = OneOff \/ Materialized(r.series, r.occ) = {}),
         r.forced \/ ~\E j \in Requests \ {i} :
           IsOpen(row[j]) /\ row[j].day = r.day /\ row[j].time = r.time
  PROVE  SeriesInv'
<1>1. r # NoRow
  BY DEF IsRow, NoRow
<1>2. row'[i] = r /\ \A j \in Requests \ {i} : row'[j] = row[j]
  BY DEF SeriesInv, SeriesTypes
<1>3. TablesGrow(q)
  BY <1>1, <1>2 DEF TablesGrow
<1>4. SeriesTypes'
  BY <1>1, <1>2, EndingTypes DEF SeriesInv, SeriesTypes
<1>5. OneRowPerOccurrence'
  <2> SUFFICES ASSUME NEW j \in Requests, NEW k \in Requests, j # k,
                      row'[j] # NoRow, row'[k] # NoRow,
                      row'[j].series = row'[k].series, row'[j].series # OneOff,
                      row'[j].occ = row'[k].occ
               PROVE  FALSE
    BY DEF OneRowPerOccurrence
  <2>1. CASE j # i /\ k # i
    BY <1>2, <2>1 DEF SeriesInv, OneRowPerOccurrence
  <2>2. CASE row[i] # NoRow
    BY <1>2, <2>2 DEF SeriesInv, OneRowPerOccurrence
  <2>3. CASE row[i] = NoRow /\ (j = i \/ k = i)
    BY <1>2, <2>3 DEF Materialized
  <2>4. QED BY <2>1, <2>2, <2>3
<1>6. ListedOnce'
  BY DEF SeriesInv, ListedOnce, VirtualEntry
<1>7. VettedClashIsForced'
  <2> SUFFICES ASSUME NEW j \in vetted \cup {i}, NEW k \in vetted \cup {i}, j # k,
                      IsOpen(row'[j]), IsOpen(row'[k]),
                      row'[j].day = row'[k].day, row'[j].time = row'[k].time
               PROVE  row'[j].forced \/ row'[k].forced
    BY DEF VettedClashIsForced, IsOpen
  <2>1. j \in Requests /\ k \in Requests
    BY DEF SeriesInv, SeriesTypes
  <2>2. CASE j = i
    <3>1. k # i /\ row'[k] = row[k] /\ row'[j] = r
      BY <1>2, <2>1, <2>2
    <3>2. QED BY <2>1, <3>1 DEF IsOpen
  <2>3. CASE k = i
    <3>1. j # i /\ row'[j] = row[j] /\ row'[k] = r
      BY <1>2, <2>1, <2>3
    <3>2. QED BY <2>1, <3>1 DEF IsOpen
  <2>4. CASE j # i /\ k # i
    <3>1. row'[j] = row[j] /\ row'[k] = row[k] /\ j \in vetted /\ k \in vetted
      BY <1>2, <2>1, <2>4
    <3>2. QED BY <3>1 DEF SeriesInv, VettedClashIsForced, IsOpen
  <2>5. QED BY <2>2, <2>3, <2>4
<1>8. QED BY <1>3, <1>4, <1>5, <1>6, <1>7, EndingStep

LEMMA InsertStep ==
  ASSUME SeriesInv, NEW q \in Requests, InsertOccurrence(q)
  PROVE  SeriesInv'
<1> DEFINE r == [state |-> "scheduled", series |-> job[q].series, occ |-> job[q].date,
                 day |-> job[q].date, time |-> job[q].seen.time, forced |-> job[q].forced]
<1>1. /\ pc[q] = "insert" /\ Materialized(r.series, r.occ) = {}
      /\ row' = [row EXCEPT ![q] = r] /\ vetted' = vetted \cup {q}
      /\ Finish(q, "materialized") /\ UNCHANGED <<series, listed>>
  BY DEF InsertOccurrence
<1>2. lock = q /\ row[q] = NoRow
  BY <1>1 DEF SeriesInv, HoldsTheSlot, InsertsLast
<1>3. IsRow(r)
  BY DEF IsRow
<1>4. r.forced \/ ~\E j \in Requests \ {q} :
        IsOpen(row[j]) /\ row[j].day = r.day /\ row[j].time = r.time
  BY <1>1 DEF SeriesInv, HoldsTheSlot
<1> HIDE DEF r
<1>5. QED BY <1>1, <1>2, <1>3, <1>4, PlaceStep

\* The plain booking endpoints, each one step.
LEMMA BookStep ==
  ASSUME SeriesInv, NEW q \in Requests, BookOneOff(q) \/ MoveRow(q)
  PROVE  SeriesInv'
<1>1. ASSUME NEW i \in Requests, NEW d, NEW t, NEW f, f = Taken(i, d, t), ~f,
             NEW j \in Requests \ {i}, IsOpen(row[j]), row[j].day = d, row[j].time = t
      PROVE  FALSE
  BY <1>1 DEF Taken
<1>2. CASE BookOneOff(q)
  <2>1. PICK d \in Days, t \in Times :
          /\ pc[q] = "idle" /\ lock = Free
          /\ row' = [row EXCEPT ![q] = [state |-> "scheduled", series |-> OneOff, occ |-> -1,
                                        day |-> d, time |-> t, forced |-> Taken(q, d, t)]]
          /\ vetted' = vetted \cup {q} /\ Finish(q, "booked") /\ UNCHANGED <<series, listed>>
    BY <1>2 DEF BookOneOff
  <2>2. PICK f : f = Taken(q, d, t)
    OBVIOUS
  <2> DEFINE r == [state |-> "scheduled", series |-> OneOff, occ |-> -1, day |-> d, time |-> t, forced |-> f]
  <2>3. row[q] = NoRow
    BY <2>1 DEF SeriesInv, InsertsLast
  <2>4. IsRow(r) /\ r.series = OneOff /\ r.day = d /\ r.time = t /\ r.forced = f
    BY DEF IsRow
  <2>5. r.forced \/ ~\E j \in Requests \ {q} :
          IsOpen(row[j]) /\ row[j].day = r.day /\ row[j].time = r.time
    BY <1>1, <2>2, <2>4
  <2> HIDE DEF r
  <2>6. row' = [row EXCEPT ![q] = r]
    BY <2>1, <2>2, Zenon DEF r
  <2>7. QED BY <2>1, <2>3, <2>4, <2>5, <2>6, PlaceStep
<1>3. CASE MoveRow(q)
  <2>1. PICK i \in Requests, d \in Days, t \in Times :
          /\ lock = Free /\ IsOpen(row[i])
          /\ row' = [row EXCEPT ![i].day = d, ![i].time = t, ![i].forced = Taken(i, d, t)]
          /\ vetted' = vetted \cup {i} /\ Finish(q, "moved") /\ UNCHANGED <<series, listed>>
    BY <1>3 DEF MoveRow
  <2>2. PICK f : f = Taken(i, d, t)
    OBVIOUS
  <2>3. row' = [row EXCEPT ![i].day = d, ![i].time = t, ![i].forced = f]
    BY <2>1, <2>2, Zenon
  <2> DEFINE r == [state |-> row[i].state, series |-> row[i].series, occ |-> row[i].occ,
                   day |-> d, time |-> t, forced |-> f]
  <2>4. row[i] # NoRow /\ IsRow(row[i])
    BY <2>1 DEF SeriesInv, SeriesTypes, IsOpen, NoRow
  <2>5. /\ IsRow(r) /\ r.series = row[i].series /\ r.occ = row[i].occ
        /\ r.day = d /\ r.time = t /\ r.forced = f
    BY <2>4 DEF IsRow
  <2>6. r.forced \/ ~\E j \in Requests \ {i} :
          IsOpen(row[j]) /\ row[j].day = r.day /\ row[j].time = r.time
    BY <1>1, <2>2, <2>5
  <2>7. PICK x : x = row[i]
    OBVIOUS
  <2>8. row' = [row EXCEPT ![i] = [[[x EXCEPT !.day = d] EXCEPT !.time = t] EXCEPT !.forced = f]]
    BY <2>3, <2>7 DEF SeriesInv, SeriesTypes
  <2>9. x = [state |-> x.state, series |-> x.series, occ |-> x.occ, day |-> x.day,
             time |-> x.time, forced |-> x.forced]
    BY <2>4, <2>7 DEF IsRow
  <2>10. r = [state |-> x.state, series |-> x.series, occ |-> x.occ, day |-> d, time |-> t, forced |-> f]
    BY <2>7
  <2> HIDE DEF r
  <2>11. [[[x EXCEPT !.day = d] EXCEPT !.time = t] EXCEPT !.forced = f] = r
    <3>1. PICK y : y = [x EXCEPT !.day = d]
      OBVIOUS
    <3>2. y = [state |-> x.state, series |-> x.series, occ |-> x.occ, day |-> d, time |-> x.time, forced |-> x.forced]
      BY <2>9, <3>1
    <3>3. PICK z : z = [y EXCEPT !.time = t]
      OBVIOUS
    <3>4. z = [state |-> x.state, series |-> x.series, occ |-> x.occ, day |-> d, time |-> t, forced |-> x.forced]
      BY <3>2, <3>3
    <3>5. [z EXCEPT !.forced = f] = r
      BY <2>10, <3>4
    <3>6. QED BY <3>1, <3>3, <3>5, Zenon
  <2>12. row' = [row EXCEPT ![i] = r]
    BY <2>8, <2>11
  <2>13. QED BY <2>1, <2>4, <2>5, <2>6, <2>12, PlaceStep
<1>4. QED BY <1>2, <1>3

\* A list reads rows, then rules, then which occurrences have a row.
LEMMA ListStep ==
  ASSUME SeriesInv, NEW q \in Requests, ReadRows(q) \/ ReadSeries(q) \/ ReadOverrides(q)
  PROVE  SeriesInv'
<1>1. CASE ReadRows(q)
  <2> DEFINE j == [op |-> "list", rows |-> {RowEntry(i) : i \in {k \in Requests : row[k] # NoRow}}]
  <2>1. Begin(q, j, "listSeries") /\ "listSeries" \in Steps
    BY <1>1 DEF ReadRows, Steps
  <2>2. \A e \in j.rows : e.id \in Requests /\ row[e.id] # NoRow /\ e = RowEntry(e.id)
    BY DEF RowEntry
  <2> HIDE DEF j
  <2>3. /\ OnlyMoves(q) /\ UNCHANGED <<tables, listed>>
        /\ pc'[q] = "listSeries" /\ job'[q] = j /\ row[q] = NoRow /\ lock' = lock
    BY <2>1, BeginMoves
  <2>4. Keeps(q)'
    BY <2>2, <2>3 DEF Keeps, KnowsItsSeries, InsertsLast, HoldsTheSlot, RowsStillThere, InTx, tables, RowEntry
  <2>5. QED BY <2>3, <2>4, QuietStep
<1>2. CASE ReadSeries(q)
  <2>1. PICK virtual \in SUBSET (SeriesIds \X Days) :
          /\ pc[q] = "listSeries" /\ pc' = [pc EXCEPT ![q] = "listOverrides"]
          /\ job' = [job EXCEPT ![q] = [op |-> "list", rows |-> job[q].rows, virtual |-> virtual]]
          /\ UNCHANGED <<tables, lock, result, listed>>
    <3> DEFINE hits == {v \in SeriesIds \X Days :
                          series[v[1]].status = "active" /\ OnPattern(series[v[1]], v[2])}
    <3>1. hits \in SUBSET (SeriesIds \X Days)
      OBVIOUS
    <3>2. /\ pc[q] = "listSeries" /\ pc' = [pc EXCEPT ![q] = "listOverrides"]
          /\ job' = [job EXCEPT ![q] = [op |-> "list", rows |-> job[q].rows, virtual |-> hits]]
          /\ UNCHANGED <<tables, lock, result, listed>>
      BY <1>2 DEF ReadSeries, GoTo, SeriesInv, SeriesTypes
    <3> HIDE DEF hits
    <3>3. QED BY <3>1, <3>2
  <2>2. OnlyMoves(q)
    BY <2>1 DEF OnlyMoves, SeriesInv, SeriesTypes, Steps
  <2>3. Keeps(q)'
    BY <2>1 DEF SeriesInv, SeriesTypes, Keeps, KnowsItsSeries, InsertsLast, HoldsTheSlot,
       RowsStillThere, InTx, tables, RowEntry
  <2>4. QED BY <2>1, <2>2, <2>3, QuietStep
<1>3. CASE ReadOverrides(q)
  <2> DEFINE shown == {VirtualEntry(v[1], v[2]) : v \in {w \in job[q].virtual : Materialized(w[1], w[2]) = {}}}
  <2>1. /\ pc[q] = "listOverrides" /\ listed' = [listed EXCEPT ![q] = job[q].rows \cup shown]
        /\ Finish(q, "listed") /\ UNCHANGED tables
    BY <1>3 DEF ReadOverrides
  <2>2. \A e \in job[q].rows : e.id \in Requests /\ row[e.id] # NoRow /\ e = RowEntry(e.id)
    BY <2>1 DEF SeriesInv, RowsStillThere
  <2>3. ASSUME NEW e \in job[q].rows \cup shown, e.id # NoId,
               VirtualEntry(e.series, e.occ) \in job[q].rows \cup shown
        PROVE  FALSE
    <3>1. e \in job[q].rows
      BY <2>3 DEF VirtualEntry
    <3>2. VirtualEntry(e.series, e.occ) \notin job[q].rows
      BY <2>2, SeriesAssumption DEF VirtualEntry
    <3>3. PICK v : Materialized(v[1], v[2]) = {} /\ VirtualEntry(e.series, e.occ) = VirtualEntry(v[1], v[2])
      BY <2>3, <3>2
    <3>4. v[1] = e.series /\ v[2] = e.occ
      BY <3>3 DEF VirtualEntry
    <3>5. e.id \in Materialized(e.series, e.occ)
      BY <2>2, <3>1 DEF Materialized, RowEntry
    <3>6. QED BY <3>3, <3>4, <3>5
  <2> HIDE DEF shown
  <2>4. ListedOnce'
    BY <2>1, <2>3 DEF SeriesInv, SeriesTypes, ListedOnce, VirtualEntry
  <2>5. TablesGrow(q)
    BY <2>1 DEF tables, TablesGrow
  <2>6. SeriesTypes'
    BY <2>1 DEF SeriesInv, SeriesTypes, Finish, GoTo, Steps, InTx, IsSeries, IsRow, tables
  <2>7. OneRowPerOccurrence' /\ VettedClashIsForced'
    BY <2>1 DEF SeriesInv, tables, OneRowPerOccurrence, VettedClashIsForced
  <2>8. QED BY <2>1, <2>4, <2>5, <2>6, <2>7, EndingStep
<1>4. QED BY <1>1, <1>2, <1>3

----------------------------------------------------------------------------
(* Theorems *)

LEMMA SeriesInitInv == Init => SeriesInv
<1> SUFFICES ASSUME Init PROVE SeriesInv
  OBVIOUS
<1>1. \A s \in SeriesIds : series[s] = NoSeries \/ IsSeries(series[s])
  <2> SUFFICES ASSUME NEW s \in SeriesIds, series[s] # NoSeries
               PROVE  IsSeries(series[s])
    OBVIOUS
  <2>1. PICK rule \in Rules : series[s] = WithStatus(rule, "active")
    BY DEF Init
  <2>2. ValidRule(series[s])
    BY DEF Init
  <2>3. QED BY <2>1, <2>2 DEF IsSeries, WithStatus, ValidRule, ValidFields
<1>2. SeriesTypes
  BY <1>1 DEF Init, SeriesTypes, Steps
<1>3. \A q \in Requests : KnowsItsSeries(q) /\ InsertsLast(q) /\ HoldsTheSlot(q) /\ RowsStillThere(q)
  BY DEF Init, KnowsItsSeries, InsertsLast, HoldsTheSlot, RowsStillThere, InTx
<1>4. OneRowPerOccurrence /\ ListedOnce /\ VettedClashIsForced
  BY DEF Init, OneRowPerOccurrence, ListedOnce, VettedClashIsForced
<1>5. QED BY <1>2, <1>3, <1>4 DEF SeriesInv

LEMMA SeriesStepInv == SeriesInv /\ [Next]_vars => SeriesInv'
<1> SUFFICES ASSUME SeriesInv, [Next]_vars PROVE SeriesInv'
  OBVIOUS
<1>1. CASE UNCHANGED vars
  <2>1. UNCHANGED <<series, row, vetted, lock, pc, job, listed>>
    BY <1>1 DEF vars
  <2>2. SeriesTypes'
    BY <2>1 DEF SeriesInv, SeriesTypes, IsSeries, IsRow
  <2>3. \A q \in Requests : (KnowsItsSeries(q) /\ InsertsLast(q) /\ HoldsTheSlot(q))'
    BY <2>1 DEF SeriesInv, KnowsItsSeries, InsertsLast, HoldsTheSlot, IsOpen
  <2>4. \A q \in Requests : RowsStillThere(q)'
    BY <2>1 DEF SeriesInv, RowsStillThere, RowEntry
  <2>5. OneRowPerOccurrence' /\ ListedOnce' /\ VettedClashIsForced'
    BY <2>1 DEF SeriesInv, OneRowPerOccurrence, ListedOnce, VirtualEntry, VettedClashIsForced
  <2>6. QED BY <2>2, <2>3, <2>4, <2>5 DEF SeriesInv
<1>2. ASSUME NEW q \in Requests, Receive(q) PROVE SeriesInv'
  BY <1>2, WriteRuleStep, LoadStep, ListStep, BookStep, CancelingStep DEF Receive
<1>3. ASSUME NEW q \in Requests, Proceed(q) PROVE SeriesInv'
  BY <1>3, FindStep, RecheckStep, InsertStep, AnswerStep, WriteRuleStep, CancelingStep, ListStep DEF Proceed
<1>4. ASSUME NEW q \in Requests, Refuse(q) PROVE SeriesInv'
  BY <1>4, AnswerStep
<1>5. QED BY <1>1, <1>2, <1>3, <1>4 DEF Next

\* The inductive invariant holds in every reachable state, for any number of requests.
THEOREM SeriesInductive == Spec => []SeriesInv
<1>1. QED BY SeriesInitInv, SeriesStepInv, PTL DEF Spec

\* Rules stay in a shape the CHECK constraints accept, whatever stale rows edits and splits merged
\* and wherever an end put the last day.
THEOREM SeriesRules == Spec => []RulesWellFormed
<1>1. SeriesInv => RulesWellFormed
  BY DEF SeriesInv, SeriesTypes, IsSeries, ValidFields, RulesWellFormed
<1>2. QED BY <1>1, SeriesInductive, PTL

\* An occurrence has one row at most: the unique index refuses a second one whoever races.
THEOREM SeriesOneRow == Spec => []OneRowPerOccurrence
<1>1. SeriesInv => OneRowPerOccurrence
  BY DEF SeriesInv
<1>2. QED BY <1>1, SeriesInductive, PTL

\* A list shows an occurrence once though it is read by three statements: a row that was read
\* keeps its occurrence, so the last statement leaves the virtual one out.
THEOREM SeriesListedOnce == Spec => []ListedOnce
<1>1. SeriesInv => ListedOnce
  BY DEF SeriesInv
<1>2. QED BY <1>1, SeriesInductive, PTL

\* No silent double booking with recurring rows: the lock is held from the recheck to the insert.
THEOREM SeriesVettedClash == Spec => []VettedClashIsForced
<1>1. SeriesInv => VettedClashIsForced
  BY DEF SeriesInv
<1>2. QED BY <1>1, SeriesInductive, PTL

=============================================================================
