-------------------------------- MODULE MCClient --------------------------------
(***************************************************************************)
(* The screens of the application and the lists they ask for, checked side *)
(* by side: an initial state picks one screen, or one list request.        *)
(***************************************************************************)
EXTENDS Tab, Queries, TLC

VARIABLE world

----------------------------------------------------------------------------
(* How much is done on a screen, by the states it has *)

Largest == {"month", "admin", "professionalDay", "requestFlow", "clients", "closures", "myExceptions",
            "grants", "room", "requests", "profile", "week", "template", "crud"}
Smallest == {"rooms", "prices", "business", "reference", "bookingOptions", "ledgerEntry",
             "series", "rule", "booking"}
SomeMaxEvents ==
  [s \in DOMAIN ViewOf |-> CASE s = "receptionistDay" -> 1  \* as professionalDay, but for the name of a flag
                             [] s \in Largest -> 2
                             [] s \in Smallest -> 4
                             [] OTHER -> 3]

\* Rows differ only by name.
AnyRow == Permutations(Rows)

----------------------------------------------------------------------------
(* Every kind of column under every kind of value; every viewer of rows of the business and not, *)
(* archived, someone else's, tied on what they are sorted by *)

Value(negated, v) == [negated |-> negated, value |-> v]
Span(comma, low, high) == [comma |-> comma, low |-> low, high |-> high]
Day(n) == [grain |-> "day", at |-> n]
Instant(n) == [grain |-> "instant", at |-> n]

ValuesOf(kind) ==
  CASE kind = "identity" -> {{}, {1}, {1, 2}, {0, 1, 2}}
    [] kind = "text" -> {{1}, {0, 1, 2}}
    [] kind = "boolean" -> {0, 1, Bad}
    [] kind = "date" -> [comma : BOOLEAN, low : {Blank, Bad, Day(0), Instant(1)}, high : {Blank, Bad, Day(0), Instant(2)}]
    [] kind = "number" -> [comma : BOOLEAN, low : {Blank, Bad, 1}, high : {Blank, Bad, 0, 1}]

Entry(table, id, cells, facts) ==
  [c \in DOMAIN Columns[table] |->
     IF c = "id" THEN id ELSE IF c \in DOMAIN cells THEN cells[c] ELSE 0]
  @@ [business |-> 1, archived |-> FALSE] @@ facts

Super == [role |-> "Admin", business |-> Null, id |-> 9, related |-> {}, grants |-> {}]
ListRequest(table, viewer, filters, sort, dir, limit, unrelated, rows) ==
  [table |-> table, viewer |-> viewer, rows |-> rows, pages |-> {Bad, 2, 3},
   query |-> [filters |-> filters, sort |-> sort, dir |-> dir, limit |-> limit, includeUnrelated |-> unrelated]]

Row(table, id, cells) == Entry(table, id, cells, "role" :> "Client" @@ "owners" :> [c \in {} |-> 0])

FilterRequests ==
  {ListRequest(t, Super, {[field |-> c, values |-> {Value(TRUE, v)}]}, Null, Blank, Blank, FALSE,
       {Row(t, 1, c :> 1), Row(t, 2, c :> 2), Row(t, 3, c :> IF Columns[t][c].nullable THEN Null ELSE 0)}) :
     <<t, c, v>> \in UNION {{t} \X {c} \X ValuesOf(FilterColumnKind(Columns[t][c])) :
       <<t, c>> \in {tc \in {"users", "clients", "services", "schedule_blocks", "schedule_exceptions"}
                     \X {"id", "username", "is_active", "dni", "default_duration_minutes", "resource_id", "is_unavailable", "notes"} :
                       tc[2] \in DOMAIN Columns[tc[1]]}}}

Logged(id, c, v, business) ==
  [f \in AuditFields |-> IF f # c THEN 1 ELSE IF c = "created_at" /\ v = Null THEN 3 ELSE v] @@ [id |-> id, business |-> business]
AuditRequests ==
  {ListRequest("audit_events", w, {[field |-> c[1], values |-> {Value(n, c[2]), Value(n, d)}]}, s, Blank, 2, FALSE,
       {Logged(1, c[1], 1, 1), Logged(2, c[1], 2, 1), Logged(3, c[1], Null, Null), Logged(4, c[1], 1, 2)}) :
     <<c, d>> \in {<<<<"entity_type", 1>>, 1>>, <<<<"entity_type", 1>>, 2>>, <<<<"actor_username", {1}>>, {1}>>,
                  <<<<"actor_user_id", Bad>>, Blank>>, <<<<"actor_user_id", 2>>, Blank>>,
                  <<<<"outcome", 1>>, Blank>>, <<<<"outcome", 4>>, Blank>>, <<<<"ip", 1>>, Blank>>,
                  <<<<"created_at", Span(FALSE, Day(0), Blank)>>, Blank>>,
                  <<<<"created_at", Span(TRUE, Instant(1), Bad)>>, Blank>>},
     n \in BOOLEAN, s \in {Null, "outcome"},
     w \in {Super, [Super EXCEPT !.business = 1], [Super EXCEPT !.business = 1, !.role = "Receptionist"]}}

NoValue == Value(FALSE, Blank)
Viewer(role, business) == [role |-> role, business |-> business, id |-> 3, related |-> {1, 5}, grants |-> {2, 3}]
Viewers == {Super} \cup {Viewer(r, 1): r \in {"Admin", "Professional", "Receptionist", "Client"}}

\* Of the business and not, archived, someone else's, tied on what they are sorted by.
ScopeRows(t) ==
  {Entry(t, i, [c \in DOMAIN Columns[t] \ {"id"} |-> IF Columns[t][c].nullable /\ i = 4 THEN Null ELSE IF Columns[t][c].identity THEN i ELSE i % 2],
         "business" :> (IF i = 2 THEN 2 ELSE 1) @@ "archived" :> (i = 4) @@ "role" :> (IF i = 6 THEN "Professional" ELSE "Client")
         @@ "owners" :> [c \in DOMAIN Columns[t] |-> IF i = 2 THEN 2 ELSE 1]): i \in 1..6}
ScopeRequests ==
  {ListRequest(t, w, f, s, d, l, u, ScopeRows(t)) :
     t \in {"clients", "professionals", "schedule_blocks", "services", "professional_services"}, w \in Viewers,
     f \in {{}, {[field |-> "id", values |-> {Value(FALSE, {1, 3}), Value(TRUE, {1})}], [field |-> "name", values |-> {NoValue}]}},
     s \in {Null, "display_name", "default_price_ars", "start_time", "id"}, d \in {"desc", Blank}, l \in {2, 9, -1}, u \in BOOLEAN}
SomeListRequests == FilterRequests \cup AuditRequests \cup ScopeRequests

----------------------------------------------------------------------------

\* What the part that does not move stands at.
FirstSubject == CHOOSE s \in Subjects: TRUE
FirstQuery == <<CHOOSE t \in Terms: TRUE, 1>>
IdleRequest == ListRequest("clients", Super, {}, Null, Blank, Blank, FALSE, {})

\* Subjects differ only by name, and so do terms: one of each is there first.
ClientInit ==
  \/ world = "tab" /\ TabInit /\ tab.subject = FirstSubject /\ tab.query = FirstQuery
     /\ request = IdleRequest /\ answers = <<>> /\ reading = Null
  \/ world = "list" /\ QueriesInit /\ screen = "admin" /\ events = 0
     /\ tab = Fresh(FirstSubject, FirstQuery)

ClientNext ==
  /\ world' = world
  /\ \/ world = "tab" /\ TabNext /\ UNCHANGED listVars
     \/ world = "list" /\ QueriesNext /\ UNCHANGED tabVars

ClientSpec == ClientInit /\ [][ClientNext]_<<world, tabVars, listVars>>

=============================================================================
