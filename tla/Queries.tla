-------------------------------- MODULE Queries --------------------------------
(***************************************************************************)
(* A list request on the generic engine and on the audit log: the grammar  *)
(* of its parameters, the conditions they compile to, the scope of the     *)
(* viewer, the order and the page.                                         *)
(*                                                                         *)
(* Cells are integers, ordered as the database orders the column; a text   *)
(* fragment is the set of the cells that contain it, a date cell is a      *)
(* minute.  A page is one statement, so what it holds is one state of the  *)
(* table; no write comes between the pages.                                *)
(***************************************************************************)
EXTENDS Descriptors, Integers, FiniteSets, FiniteSetsExt

CONSTANTS
  Null,          \* NULL
  Blank,         \* an empty part of a value
  Bad,           \* a part that cannot be read as the type of its column
  Minutes,       \* the length of a day, shortened for checking
  MaxSet,        \* LIST_MAX_FILTER_SET, shortened for checking
  DefaultLimit, MaxLimit, MaxPage,
  ListRequests   \* the requests examined

ASSUME QueriesAssumption ==
  /\ {Minutes, MaxSet, DefaultLimit, MaxLimit, MaxPage} \subseteq Nat \ {0}
  /\ DefaultLimit <= MaxLimit
  /\ Blank # Null /\ Bad # Null /\ Bad # Blank /\ {Null, Blank, Bad} \cap Int = {}

VARIABLES
  request,   \* the table, the viewer, the parameters and the rows there are
  answers,   \* page asked for -> the rows and the total of the answer
  reading    \* the page whose empty answer is still being counted, or Null

listVars == <<request, answers, reading>>

----------------------------------------------------------------------------
(* Parameters *)

ClampListBound(raw, fallback, max) ==
  LET n == IF raw \in {Blank, Bad} THEN fallback ELSE raw
      capped == IF n < max THEN n ELSE max
  IN IF capped < 1 THEN 1 ELSE capped

\* How a filter value is read.
FilterColumnKind(column) ==
  IF column.identity THEN "identity"
  ELSE IF column.type \in {"boolean", "date", "number"} THEN column.type
  ELSE "text"

\* A blank parameter is no filter; `!` is lexed off.
ParseFilters(query) ==
  {[field |-> f.field, values |-> {v \in f.values: v.value # Blank}]: f \in query.filters}

----------------------------------------------------------------------------
(* Conditions: what is true of a cell, NULL as the database has it *)

Differs(negated, b) == IF negated THEN ~b ELSE b

MatchesIdentity(v, cell) ==
  /\ v.value # {} /\ Cardinality(v.value) <= MaxSet
  /\ cell # Null
  /\ Differs(v.negated, cell \in v.value)

MatchesText(v, cell) == cell # Null /\ Differs(v.negated, cell \in v.value)

\* IS [NOT] DISTINCT FROM
MatchesBoolean(v, cell) == v.value \in {0, 1} /\ Differs(v.negated, cell = v.value)

\* dateBoundConditions: a day runs to its last minute, an instant is itself.
FromBound(part, cell) ==
  cell >= (IF part.grain = "day" THEN part.at * Minutes ELSE part.at)
ToBound(part, cell) ==
  IF part.grain = "day" THEN cell < (part.at + 1) * Minutes ELSE cell <= part.at

\* A bare value names one day.
MatchesDate(v, cell) ==
  LET low == v.value.low
      high == IF v.value.comma THEN v.value.high ELSE low
  IN \/ low = Blank /\ high = Blank
     \/ /\ Bad \notin {low, high} /\ cell # Null
        /\ Differs(v.negated, /\ low # Blank => FromBound(low, cell)
                              /\ high # Blank => ToBound(high, cell))

\* Mutant: a negated range excludes both bounds.
MatchesNumber_Bounds(v, cell) ==
  LET low == v.value.low
      high == IF v.value.comma THEN v.value.high ELSE Blank
  IN \/ v.value.comma /\ low = Blank /\ high = Blank
     \/ /\ Bad \notin {low, high} /\ cell # Null
        /\ IF v.negated
           THEN (low # Blank /\ cell <= low) \/ (high # Blank /\ cell > high)
           ELSE (low # Blank => cell >= low) /\ (high # Blank => cell <= high)

\* A bare value is a lower bound, and one that is empty cannot be read.
MatchesNumber(v, cell) ==
  LET low == v.value.low
      high == IF v.value.comma THEN v.value.high ELSE Blank
  IN \/ v.value.comma /\ low = Blank /\ high = Blank
     \/ /\ Bad \notin {low, high} /\ cell # Null
        /\ v.value.comma \/ low # Blank
        /\ IF v.negated
           THEN (low # Blank /\ cell < low) \/ (high # Blank /\ cell > high)
           ELSE (low # Blank => cell >= low) /\ (high # Blank => cell <= high)

Matches(column, v, cell) ==
  CASE FilterColumnKind(column) = "identity" -> MatchesIdentity(v, cell)
    [] FilterColumnKind(column) = "text"     -> MatchesText(v, cell)
    [] FilterColumnKind(column) = "boolean"  -> MatchesBoolean(v, cell)
    [] FilterColumnKind(column) = "date"     -> MatchesDate(v, cell)
    [] FilterColumnKind(column) = "number"   -> MatchesNumber(v, cell)

\* Only a filterable column is compared; a repeated parameter must match each time.
Filtered(table, query, row) ==
  \A f \in ParseFilters(query):
    (f.field \in DOMAIN Columns[table] /\ Columns[table][f.field].filterable) =>
      \A v \in f.values: Matches(Columns[table][f.field], v, row[f.field])

----------------------------------------------------------------------------
(* Scope *)

\* The business a row belongs to: its own, or that of an owner it names.
InTenant(viewer, table, row) ==
  \/ viewer.role = "Admin" /\ viewer.business = Null
  \/ /\ viewer.business # Null
     /\ IF table \in DOMAIN BusinessPaths
        THEN \E c \in BusinessPaths[table]: row[c] # Null /\ row.owners[c] = viewer.business
        ELSE row.business = viewer.business

Owned(viewer, table, row) ==
  (table \in DOMAIN ReadOwner /\ ReadOwner[table].role = viewer.role) =>
    row[ReadOwner[table].column] = viewer.id

Granted(viewer, table, row) ==
  (viewer.role = "Receptionist" /\ table \in DOMAIN ReadGrant) =>
    row[ReadGrant[table]] \in viewer.grants

\* The base of the list and of the single row: declared, not archived, of the right role.
InBase(table, row) ==
  /\ table \in Archived => ~row.archived
  /\ table \in DOMAIN Discriminator => row.role = Discriminator[table]

\* What getRowOfTable answers for its id.
Reachable(viewer, table, row) ==
  /\ viewer.role \in Readers[table]
  /\ InBase(table, row)
  /\ InTenant(viewer, table, row) /\ Owned(viewer, table, row) /\ Granted(viewer, table, row)

\* Staff see the clients they have worked with, unless they ask for the others.
Relevant(viewer, table, query, row) ==
  (/\ table = "clients" /\ ~query.includeUnrelated
   /\ viewer.business # Null /\ viewer.role \in {"Professional", "Receptionist"}) =>
    row.id \in viewer.related

----------------------------------------------------------------------------
(* The audit log: its own fields, one value each, and no descriptor *)

AuditFields == {"entity_type", "actor_user_id", "actor_username", "event_type", "outcome", "created_at"}
AuditSorts == {"created_at", "event_type", "entity_type", "actor_username", "outcome"}
Outcomes == 1..3

AuditFilters(query) ==
  {f \in ParseFilters(query): f.field \in AuditFields /\ f.values # {}}

\* 422: a repeated field, an outcome there is none of, a negated or unreadable range.
AuditRefused(query) ==
  \E f \in AuditFilters(query):
    \/ Cardinality(f.values) > 1
    \/ \E v \in f.values:
         \/ f.field = "outcome" /\ v.value \notin Outcomes
         \/ /\ f.field = "created_at"
            /\ v.negated \/ v.value.low = Bad \/ (v.value.comma /\ v.value.high = Bad)

\* A name that is missing reads as empty, and an actor that is no id is no filter.
AuditMatches(field, v, cell) ==
  CASE field = "created_at" -> MatchesDate(v, cell)
    [] field = "actor_username" -> Differs(v.negated, cell \in v.value)
    [] field = "actor_user_id" -> v.value = Bad \/ Differs(v.negated, cell = v.value)
    [] OTHER -> Differs(v.negated, cell = v.value)

AuditListed(q) ==
  {r \in q.rows: /\ q.viewer.business # Null => r.business = q.viewer.business
                 /\ \A f \in AuditFilters(q.query): \A v \in f.values: AuditMatches(f.field, v, r[f.field])}

----------------------------------------------------------------------------
(* Order and page *)

Sortable(table) ==
  IF table = "audit_events" THEN AuditSorts
  ELSE {c \in DOMAIN Columns[table]: c # "id" /\ Columns[table][c].sortable}

\* Mutant: a chosen column is the whole order.
OrderColumns_NoTiebreak(table, query) ==
  IF query.sort \in Sortable(table) THEN <<query.sort>> ELSE <<"id">>

\* The key closes the order; the newest event is first unless another column is chosen.
OrderColumns(table, query) ==
  IF query.sort \in Sortable(table) THEN <<query.sort, "id">>
  ELSE IF table = "audit_events" THEN <<"created_at", "id">> ELSE <<"id">>

Direction(table, query) ==
  IF table # "audit_events" THEN IF query.dir = "desc" THEN "desc" ELSE "asc"
  ELSE IF query.sort \in Sortable(table) /\ query.dir # Blank THEN query.dir ELSE "desc"

\* Ascending, NULL is last.
Less(a, b) == a # Null /\ (b = Null \/ a < b)

Before(columns, dir, r, s) ==
  \E i \in DOMAIN columns:
    /\ \A j \in 1..(i - 1): r[columns[j]] = s[columns[j]]
    /\ IF dir = "desc" THEN Less(s[columns[i]], r[columns[i]]) ELSE Less(r[columns[i]], s[columns[i]])

Listed(q) ==
  IF q.table = "audit_events" THEN AuditListed(q)
  ELSE {r \in q.rows: /\ Reachable(q.viewer, q.table, r)
                      /\ Relevant(q.viewer, q.table, q.query, r)
                      /\ Filtered(q.table, q.query, r)}

\* What LIMIT and OFFSET may cut from the order: rows it leaves tied come as they please.
Pages(q, page, limit) ==
  LET listed == Listed(q)
      columns == OrderColumns(q.table, q.query)
      Least(n, m) == IF n < m THEN n ELSE m
      skipped == Least((page - 1) * limit, Cardinality(listed))
      Closed(S) == \A r \in S, s \in listed \ S: ~Before(columns, Direction(q.table, q.query), s, r)
  IN {S \in kSubset(Least(limit, Cardinality(listed) - skipped), listed):
        \E L \in kSubset(skipped, listed \ S): Closed(L) /\ Closed(L \cup S)}

----------------------------------------------------------------------------
(* The requests *)

Limit == ClampListBound(request.query.limit, DefaultLimit, MaxLimit)

QueriesInit ==
  /\ request \in ListRequests
  /\ answers = <<>>
  /\ reading = Null

\* 403 and 422 answer nothing.
Answered(q) ==
  IF q.table = "audit_events" THEN q.viewer.role = "Admin" /\ ~AuditRefused(q.query)
  ELSE q.viewer.role \in Readers[q.table]

\* One statement answers the page and the total, when the page is not empty.
GetList ==
  /\ reading = Null /\ Answered(request)
  /\ \E raw \in request.pages:
       LET page == ClampListBound(raw, 1, MaxPage)
       IN /\ page \notin DOMAIN answers
          /\ \E S \in Pages(request, page, Limit):
               IF S = {}
               THEN reading' = page /\ UNCHANGED answers
               ELSE /\ answers' = [p \in DOMAIN answers \cup {page} |->
                                     IF p = page
                                     THEN [rows |-> S, total |-> Cardinality(Listed(request))]
                                     ELSE answers[p]]
                    /\ UNCHANGED reading
  /\ UNCHANGED request

\* An empty page is counted by a statement of its own.
CountList ==
  /\ reading # Null
  /\ answers' = [p \in DOMAIN answers \cup {reading} |->
                   IF p = reading THEN [rows |-> {}, total |-> Cardinality(Listed(request))]
                   ELSE answers[p]]
  /\ reading' = Null
  /\ UNCHANGED request

QueriesNext == GetList \/ CountList

QueriesSpec == QueriesInit /\ [][QueriesNext]_listVars

\* A value is what the parser makes of a parameter, and the cells of a column of numbers are numbers.
WellRead(kind, v) ==
  /\ v = [negated |-> v.negated, value |-> v.value] /\ v.negated \in BOOLEAN
  /\ kind = "identity" => IsFiniteSet(v.value)
  /\ kind = "number" => {v.value.low, v.value.high} \subseteq Int \cup {Blank, Bad}

\* What is asked of what: the tables have a primary key, what a list is ordered by is ordered, and the
\* instant of an audit event is never missing.
ASSUME RequestsAssumption ==
  \A q \in ListRequests:
    /\ q.pages \cup {q.query.limit} \subseteq Int \cup {Blank, Bad}
    /\ IsFiniteSet(q.rows) /\ \A r, s \in q.rows: r.id \in Int /\ (r.id = s.id => r = s)
    /\ \A r \in q.rows, c \in Sortable(q.table): r[c] \in Int \cup {Null}
    /\ q.table = "audit_events" => \A r \in q.rows: r.created_at \in Int
    /\ \A f \in ParseFilters(q.query):
         LET kind == IF q.table # "audit_events" /\ f.field \in DOMAIN Columns[q.table]
                     THEN FilterColumnKind(Columns[q.table][f.field]) ELSE "audit"
         IN /\ \A v \in f.values: WellRead(kind, v)
            /\ kind = "number" => \A r \in q.rows: r[f.field] \in Int \cup {Null}

----------------------------------------------------------------------------
(* Properties *)

FieldOf(field) ==
  IF request.table = "audit_events"
  THEN [kind |-> "audit", read |-> field \in AuditFields]
  ELSE [kind |-> IF field \in DOMAIN Columns[request.table]
                 THEN FilterColumnKind(Columns[request.table][field]) ELSE "unknown",
        read |-> field \in DOMAIN Columns[request.table] /\ Columns[request.table][field].filterable]

MatchesField(field, v, cell) ==
  IF request.table = "audit_events" THEN AuditMatches(field, v, cell)
  ELSE Matches(Columns[request.table][field], v, cell)

Unreadable(field, v) ==
  CASE FieldOf(field).kind = "identity" -> v.value = {} \/ Cardinality(v.value) > MaxSet
    [] FieldOf(field).kind = "boolean"  -> v.value \notin {0, 1}
    [] FieldOf(field).kind \in {"date", "number"} ->
         \/ v.value.low = Bad \/ (v.value.comma /\ v.value.high = Bad)
         \/ (FieldOf(field).kind = "number" /\ ~v.value.comma /\ v.value.low = Blank)
    [] OTHER -> FALSE

\* A value and its negation split the rows that hold something in the column: no row
\* answers both, and none neither.  A yes-or-no column and a field of the audit log split
\* the empty cells too; elsewhere an empty cell answers neither.  A value that cannot be
\* read matches nothing either way, and one that bounds nothing leaves the list as it was.
FilterAndNegationSplit ==
  \A f \in {g \in ParseFilters(request.query): Answered(request) /\ FieldOf(g.field).read}:
    \A v \in f.values:
      LET Both(cell) == <<MatchesField(f.field, [v EXCEPT !.negated = FALSE], cell),
                          MatchesField(f.field, [v EXCEPT !.negated = TRUE], cell)>>
          held == {Both(r[f.field]): r \in {s \in request.rows: s[f.field] # Null}}
          empty == {Both(r[f.field]): r \in {s \in request.rows: s[f.field] = Null}}
          split == {<<TRUE, FALSE>>, <<FALSE, TRUE>>}
      IN \/ /\ held \subseteq split
            /\ empty \subseteq IF FieldOf(f.field).kind \in {"boolean", "audit"} THEN split
                               ELSE {<<FALSE, FALSE>>}
         \/ (Unreadable(f.field, v) /\ held \cup empty \subseteq {<<FALSE, FALSE>>})
         \/ (~Unreadable(f.field, v) /\ held \cup empty \subseteq {<<TRUE, TRUE>>})

\* Once every page is fetched, each row the viewer may open by its id, that the filters
\* match and that is relevant or asked for, is on exactly one of them, each page announces
\* how many there are, and nothing else is on any.
EveryReachableRowIsOnOnePage ==
  LET fetched == UNION {answers[p].rows: p \in DOMAIN answers}
      wanted == {r \in request.rows:
                   IF request.table = "audit_events" THEN r \in AuditListed(request)
                   ELSE /\ Reachable(request.viewer, request.table, r)
                        /\ Filtered(request.table, request.query, r)
                        /\ \/ request.query.includeUnrelated
                           \/ request.table # "clients"
                           \/ request.viewer.role \in {"Admin", "Client"}
                           \/ r.id \in request.viewer.related}
  IN /\ \A p \in DOMAIN answers: answers[p].rows \subseteq wanted /\ answers[p].total = Cardinality(wanted)
     /\ \A p, o \in DOMAIN answers: p # o => answers[p].rows \cap answers[o].rows = {}
     /\ (\E n \in DOMAIN answers: 1..n \subseteq DOMAIN answers /\ answers[n].rows = {}) =>
          wanted = fetched
=============================================================================
