------------------------------- MODULE Entities -------------------------------
(***************************************************************************)
(* The generic create, update and delete of configuration rows, the        *)
(* business closures, and the calendar grants that widen what a            *)
(* receptionist may write.  A request runs its checks as queries of their  *)
(* own on the pool and ends in one autocommitted statement, so what it     *)
(* checked may have changed by then; only what the statement itself says   *)
(* in its WHERE, and the constraints of the database, are certain.         *)
(*                                                                         *)
(* Columns that are not references are left out: an update that changes    *)
(* them shows as the number of the request in rev.  People, services and   *)
(* rooms are rows like the others; their tenant never changes.             *)
(***************************************************************************)
EXTENDS Server

CONSTANTS
  Actors,        \* who asks
  Actor,         \* the id, role and business of each; a super-admin has no business
  Lasting,       \* the people, services and rooms there are, by id
  FirstRows,     \* the other rows at the start, by id
  FirstGrants,   \* <<professional, receptionist>>
  References,    \* the values offered for each reference column
  EntityMenus,   \* the <<table, operation>> pairs that arrive together
  MaxAsked       \* bound of the model

ASSUME EntitiesAssumption ==
  /\ \A id \in DOMAIN FirstRows \cup DOMAIN Lasting: id \in Int /\ id < 0
  /\ DOMAIN FirstRows \cap DOMAIN Lasting = {}
  /\ FirstRows = [id \in DOMAIN FirstRows |-> FirstRows[id]]
  /\ MaxAsked \in Nat /\ Null \notin Int
  /\ \A a \in Actors: Actor[a].business = Null => Actor[a].role = "Admin"

VARIABLES
  rows,      \* the stored rows that may be removed or come later, by id
  gone,      \* the ids of the archived rows
  grants,    \* calendar_grants
  asked,     \* the request of each handler
  askedNo,   \* requests so far
  entityMenu

entityVars == <<rows, gone, grants, asked, askedNo, entityMenu>>

NoRequest == [op |-> "none"]

----------------------------------------------------------------------------
(* The table descriptors *)

Tables == {"schedule_blocks", "schedule_block_services", "schedule_exceptions",
           "client_professional_services", "professional_services",
           "services", "resources", "professionals", "clients"}

ForeignKeys(table) ==
  CASE table = "schedule_blocks" -> {"prof", "room"}
    [] table = "schedule_block_services" -> {"prof", "block", "service"}
    [] table = "schedule_exceptions" -> {"prof", "room"}
    [] table = "client_professional_services" -> {"client", "prof", "service"}
    [] table = "professional_services" -> {"prof", "service"}
    [] OTHER -> {}

\* readonlyOnEdit freezes a link.
UpdatableKeys(table) == IF table = "professional_services" THEN {} ELSE ForeignKeys(table)

NullableKeys(table) ==
  IF table \in {"schedule_blocks", "schedule_exceptions"} THEN {"prof", "room"} ELSE {}

Target == [prof |-> "professionals", client |-> "clients", room |-> "resources",
           service |-> "services", block |-> "schedule_blocks"]

BusinessScoped == {"services", "resources", "professionals", "clients"}
SoftDeletable == BusinessScoped
NotCreatable == {"professionals", "clients"}
NotDeletable == {"client_professional_services"}

\* The references through which a row reaches its business.
JoinKeys(table) ==
  CASE table \in {"schedule_blocks", "schedule_exceptions"} -> {"prof", "room"}
    [] table \in {"schedule_block_services", "professional_services"} -> {"prof"}
    [] table = "client_professional_services" -> {"client"}
    [] OTHER -> {}

\* Own rows only for a Professional, granted ones only for a Receptionist.
OwnedTables == {"schedule_blocks", "schedule_block_services", "professionals"}

UniqueKeys(table) ==
  CASE table = "schedule_block_services" -> {"block", "service"}
    [] table = "client_professional_services" -> {"client", "prof", "service"}
    [] table = "professional_services" -> {"prof", "service"}
    [] OTHER -> {}

Staffed == {"Admin", "Professional", "Receptionist"}

RoleRequired(table, op) ==
  CASE table \in {"schedule_blocks", "schedule_block_services", "schedule_exceptions"} -> Staffed
    [] table \in {"client_professional_services", "resources"} -> {"Admin", "Receptionist"}
    [] table = "services" -> {"Admin"}
    [] table = "professional_services" -> IF op = "update" THEN Staffed ELSE {"Admin"}
    [] table = "professionals" -> IF op = "update" THEN Staffed ELSE {"Admin"}
    [] table = "clients" ->
         IF op = "update" THEN {"Admin", "Receptionist", "Client"} ELSE {"Admin"}

CrudAllowed(a, table, op) ==
  /\ op = "create" => table \notin NotCreatable
  /\ op = "delete" => table \notin NotDeletable
  /\ Actor[a].role \in RoleRequired(table, op)

ScheduleGuarded(table, op) ==
  \/ table \in {"schedule_blocks", "schedule_block_services", "schedule_exceptions"}
  \/ table = "professional_services" /\ op = "update"

----------------------------------------------------------------------------
(* Tenants *)

\* In a state rs of the rows.
RowOf(rs, id) == IF id \in DOMAIN rs THEN rs[id] ELSE Lasting[id]

\* The joins lead to tables that hold their business themselves.
BusinessOf(rs, id) ==
  LET row == RowOf(rs, id)
      owner == CHOOSE k \in JoinKeys(row.table): row[k] # Null
  IN IF row.business # Null THEN row.business ELSE RowOf(rs, row[owner]).business

Ids == DOMAIN Lasting \cup DOMAIN rows
Kept(id) == id \in Ids
Row(id) == RowOf(rows, id)
OwnBusiness(id) == BusinessOf(rows, id)
SuperAdmin(a) == Actor[a].business = Null

InBusiness(a, id) == SuperAdmin(a) \/ OwnBusiness(id) = Actor[a].business

\* Mutant: each reference is compared with the caller's tenant only.
ReferencesAllowed_CallerOnly(a, body) ==
  LET used == {k \in DOMAIN body: body[k] # Null}
  IN \A k \in used:
       /\ Kept(body[k]) /\ Row(body[k]).table = Target[k]
       /\ k \in {"prof", "client"} => body[k] \notin gone
       /\ InBusiness(a, body[k])

\* assertRoleCheckedReferences: the references of a row resolve to one tenant, the caller's.
ReferencesAllowed(a, body) ==
  LET used == {k \in DOMAIN body: body[k] # Null}
  IN /\ \A k \in used:
          /\ Kept(body[k]) /\ Row(body[k]).table = Target[k]
          /\ k \in {"prof", "client"} => body[k] \notin gone
          /\ InBusiness(a, body[k])
     /\ \A j, k \in used: OwnBusiness(body[j]) = OwnBusiness(body[k])

\* assertOwnScheduleAllowed
OwnScheduleAllowed(a, prof, room) ==
  /\ Actor[a].role # "Client"
  /\ IF prof # Null
     THEN /\ Kept(prof) /\ prof \notin gone /\ InBusiness(a, prof)
          /\ \/ Actor[a].role = "Admin"
             \/ Actor[a].role = "Professional" /\ prof = Actor[a].id
             \/ Actor[a].role = "Receptionist" /\ <<prof, Actor[a].id>> \in grants
     ELSE /\ room # Null
          /\ Kept(room) /\ room \notin gone /\ InBusiness(a, room)
          /\ Actor[a].role = "Admin"

\* What a statement adds to its WHERE, on the row as it is by then.
\* Mutant: without the grant.
WriteScope_NoGrant(a, table, id) ==
  LET ownerId == IF table \in {"professionals", "clients"} THEN id ELSE Row(id).prof
  IN /\ InBusiness(a, id)
     /\ (Actor[a].role = "Professional" /\ table \in OwnedTables) => ownerId = Actor[a].id
     /\ (Actor[a].role = "Client" /\ table = "clients") => ownerId = Actor[a].id

WriteScope(a, table, id) ==
  LET ownerId == IF table \in {"professionals", "clients"} THEN id ELSE Row(id).prof
  IN /\ InBusiness(a, id)
     /\ (Actor[a].role = "Professional" /\ table \in OwnedTables) => ownerId = Actor[a].id
     /\ (Actor[a].role = "Client" /\ table = "clients") => ownerId = Actor[a].id
     /\ (Actor[a].role = "Receptionist" /\ table \in OwnedTables) =>
          <<ownerId, Actor[a].id>> \in grants

----------------------------------------------------------------------------
(* What the database refuses *)

\* Mutant: no trigger compares an offer with its block.
Constraints_NoTrigger(table, row, id) ==
  /\ \A k \in ForeignKeys(table): row[k] # Null => Kept(row[k])
  /\ table = "schedule_blocks" => (row.prof = Null) # (row.room = Null)
  /\ table = "schedule_exceptions" =>
       \E k \in {"prof", "room", "business"}:
         row[k] # Null /\ \A j \in {"prof", "room", "business"} \ {k}: row[j] = Null
  /\ table \in BusinessScoped => row.business # Null
  /\ \A other \in DOMAIN rows \ {id}:
       (rows[other].table = table /\ UniqueKeys(table) # {}) =>
         \E k \in UniqueKeys(table): rows[other][k] # row[k]

Constraints(table, row, id) ==
  /\ \A k \in ForeignKeys(table): row[k] # Null => Kept(row[k])
  /\ table = "schedule_blocks" => (row.prof = Null) # (row.room = Null)
  /\ table = "schedule_exceptions" =>
       \E k \in {"prof", "room", "business"}:
         row[k] # Null /\ \A j \in {"prof", "room", "business"} \ {k}: row[j] = Null
  /\ table \in BusinessScoped => row.business # Null
  /\ table = "schedule_block_services" => Row(row.block).prof = row.prof
  /\ \A other \in DOMAIN rows \ {id}:
       (rows[other].table = table /\ UniqueKeys(table) # {}) =>
         \E k \in UniqueKeys(table): rows[other][k] # row[k]

----------------------------------------------------------------------------
(* What the rows satisfy, at the start and always (ServerProofs) *)

Links == {"prof", "client", "room", "service", "block"}
Columns == {"table", "rev", "business"} \cup Links

\* A column that is not of the table is null; a row has one owner, or itself says whose it is.
WellOwned(row) ==
  /\ DOMAIN row = Columns /\ row.table \in Tables
  /\ \A k \in Links \ ForeignKeys(row.table): row[k] = Null
  /\ \A k \in ForeignKeys(row.table) \ NullableKeys(row.table): row[k] # Null
  /\ row.table = "schedule_blocks" => (row.prof = Null) # (row.room = Null)
  /\ row.table = "schedule_exceptions" =>
       \E k \in {"prof", "room", "business"}:
         row[k] # Null /\ \A j \in {"prof", "room", "business"} \ {k}: row[j] = Null
  /\ row.table \in BusinessScoped => row.business # Null
  /\ row.business # Null => row.table \in BusinessScoped \cup {"schedule_exceptions"}

\* What it refers to is stored, in the right table, and of one business.
RowSound(rs, row) ==
  /\ WellOwned(row)
  /\ \A k \in ForeignKeys(row.table):
       row[k] # Null => /\ row[k] \in DOMAIN rs \cup DOMAIN Lasting
                        /\ RowOf(rs, row[k]).table = Target[k]
  /\ row.table = "schedule_block_services" => RowOf(rs, row.block).prof = row.prof
  /\ \A j, k \in ForeignKeys(row.table):
       row[j] # Null /\ row[k] # Null => BusinessOf(rs, row[j]) = BusinessOf(rs, row[k])

RowsSound(rs) == \A id \in DOMAIN rs: RowSound(rs, rs[id])

ASSUME FirstRowsAssumption ==
  /\ \A id \in DOMAIN Lasting: Lasting[id].table \in BusinessScoped /\ Lasting[id].business # Null
  /\ RowsSound(FirstRows)
  /\ \A k \in Links: Null \notin References[k]

----------------------------------------------------------------------------
(* One request *)

Pending(p, step) == asked[p] # NoRequest /\ asked[p].at = step
Proceed(p, step) == asked' = [asked EXCEPT ![p].at = step]
Answer(p) == asked' = [asked EXCEPT ![p] = NoRequest]

Free(p) == asked[p] = NoRequest /\ askedNo < MaxAsked

Receive(p, request) ==
  /\ askedNo' = askedNo + 1
  /\ asked' = [asked EXCEPT ![p] = request]
  /\ UNCHANGED <<rows, gone, grants, entityMenu>>

\* A body holds exactly the columns of its operation; only an owner may be null.
Bodies(keys, nullable) ==
  {b \in [keys -> {Null} \cup UNION {References[k]: k \in keys}]:
     \A k \in keys: b[k] \in References[k] \cup (IF k \in nullable THEN {Null} ELSE {})}

CreateBodies == [t \in Tables |-> Bodies(ForeignKeys(t), NullableKeys(t))]
UpdateBodies == [t \in Tables |-> Bodies(UpdatableKeys(t), NullableKeys(t))]

\* Mutant: a body may name another owner.
KeepsOwner_Any(body, id) == TRUE

\* A body may repeat the owner or leave it out, never name another.
KeepsOwner(body, id) ==
  \A k \in DOMAIN body \cap {"prof", "room"}: body[k] \in {Null, Row(id)[k]}

Room(body) == IF "room" \in DOMAIN body THEN body.room ELSE Null

\* A request is received with its first check; one that fails it changes nothing.
PostRow(p) ==
  /\ Free(p)
  /\ \E a \in Actors, t \in Tables:
       /\ <<t, "create">> \in entityMenu /\ CrudAllowed(a, t, "create")
       /\ \E body \in CreateBodies[t]:
            /\ ReferencesAllowed(a, body)
            /\ Receive(p, [op |-> "create", table |-> t, actor |-> a, id |-> askedNo + 1, body |-> body,
                           no |-> askedNo + 1,
                           at |-> IF ScheduleGuarded(t, "create") THEN "owner" ELSE "write"])

\* assertOwnScheduleAllowed with the owner in the body
CheckOwner(p) ==
  /\ Pending(p, "owner")
  /\ LET r == asked[p]
     IN IF OwnScheduleAllowed(r.actor, r.body.prof, Room(r.body)) THEN Proceed(p, "write")
        ELSE Answer(p)
  /\ UNCHANGED <<rows, gone, grants, askedNo, entityMenu>>

\* The owner is the one of the stored row.
PutRow(p) ==
  /\ Free(p)
  /\ \E a \in Actors, id \in Ids:
       LET t == Row(id).table
           guarded == ScheduleGuarded(t, "update")
       IN /\ <<t, "update">> \in entityMenu /\ CrudAllowed(a, t, "update")
          /\ \E body \in UpdateBodies[t]:
               /\ IF guarded
                  THEN KeepsOwner(body, id) /\ OwnScheduleAllowed(a, Row(id).prof, Row(id).room)
                  ELSE ReferencesAllowed(a, body)
               /\ Receive(p, [op |-> "update", table |-> t, actor |-> a, id |-> id, body |-> body,
                              no |-> askedNo + 1, at |-> IF guarded THEN "references" ELSE "write"])

CheckReferences(p) ==
  /\ Pending(p, "references")
  /\ IF ReferencesAllowed(asked[p].actor, asked[p].body) THEN Proceed(p, "write") ELSE Answer(p)
  /\ UNCHANGED <<rows, gone, grants, askedNo, entityMenu>>

DeleteRow(p) ==
  /\ Free(p)
  /\ \E a \in Actors, id \in Ids:
       LET t == Row(id).table
       IN /\ <<t, "delete">> \in entityMenu /\ CrudAllowed(a, t, "delete")
          /\ ScheduleGuarded(t, "delete") => OwnScheduleAllowed(a, Row(id).prof, Row(id).room)
          /\ Receive(p, [op |-> "delete", table |-> t, actor |-> a, id |-> id, no |-> askedNo + 1,
                         at |-> "write"])

With(row, body) == [k \in DOMAIN row |-> IF k \in DOMAIN body THEN body[k] ELSE row[k]]

Blank(table, business, no) ==
  [table |-> table, rev |-> no, business |-> business, prof |-> Null, client |-> Null,
   room |-> Null, service |-> Null, block |-> Null]

Store(id, row) == rows' = [i \in DOMAIN rows \cup {id} |-> IF i = id THEN row ELSE rows[i]]

\* The business is stamped from the session, if there is one.
Insert(p) ==
  /\ Pending(p, "write") /\ asked[p].op = "create"
  /\ LET r == asked[p]
         stamp == IF r.table \in BusinessScoped THEN Actor[r.actor].business ELSE Null
         row == With(Blank(r.table, stamp, r.no), r.body)
     IN IF Constraints(r.table, row, r.id) THEN Store(r.id, row) ELSE UNCHANGED rows
  /\ Answer(p)
  /\ UNCHANGED <<gone, grants, askedNo, entityMenu>>

\* An update writes archived rows too; of a lasting row it changes nothing that is kept here.
UpdateRow(p) ==
  /\ Pending(p, "write") /\ asked[p].op = "update"
  /\ LET r == asked[p]
         row == [With(rows[r.id], r.body) EXCEPT !.rev = r.no]
     IN IF /\ r.id \in DOMAIN rows /\ WriteScope(r.actor, r.table, r.id)
           /\ Constraints(r.table, row, r.id)
        THEN Store(r.id, row)
        ELSE UNCHANGED rows
  /\ Answer(p)
  /\ UNCHANGED <<gone, grants, askedNo, entityMenu>>

\* People, services and rooms are archived; a block takes its offers with it.
Remove(p) ==
  /\ Pending(p, "write") /\ asked[p].op = "delete"
  /\ LET r == asked[p]
     IN CASE ~(Kept(r.id) /\ WriteScope(r.actor, r.table, r.id)) -> UNCHANGED <<rows, gone>>
          [] OTHER -> IF r.table \in SoftDeletable
                      THEN gone' = gone \cup {r.id} /\ UNCHANGED rows
                      ELSE /\ rows' = [i \in {j \in DOMAIN rows \ {r.id}: rows[j].block # r.id}
                                         |-> rows[i]]
                           /\ UNCHANGED gone
  /\ Answer(p)
  /\ UNCHANGED <<grants, askedNo, entityMenu>>

----------------------------------------------------------------------------
(* Closures of a whole business: found by id, then written by id *)

Closure(id) == Kept(id) /\ Row(id).table = "schedule_exceptions" /\ Row(id).business # Null

\* A super-admin names the business, an Admin has one.
PostClosure(p) ==
  /\ Free(p)
  /\ \E a \in Actors, b \in {Row(i).business: i \in Ids} \ {Null}:
       /\ <<"closures", "create">> \in entityMenu
       /\ Actor[a].role = "Admin" /\ (SuperAdmin(a) \/ b = Actor[a].business)
       /\ Receive(p, [op |-> "close", business |-> b, id |-> askedNo + 1, no |-> askedNo + 1,
                      at |-> "write"])

PutOrDeleteClosure(p) ==
  /\ Free(p)
  /\ \E a \in Actors, id \in Ids, op \in {"change", "reopen"}:
       /\ <<"closures", op>> \in entityMenu
       /\ Actor[a].role = "Admin" /\ Closure(id) /\ InBusiness(a, id)
       /\ Receive(p, [op |-> op, id |-> id, no |-> askedNo + 1, at |-> "write"])

WriteClosure(p) ==
  /\ Pending(p, "write") /\ asked[p].op \in {"close", "change", "reopen"}
  /\ LET r == asked[p]
     IN CASE r.op = "close" ->
               Store(r.id, Blank("schedule_exceptions", r.business, r.no))
          [] r.op = "change" ->
               IF Closure(r.id) THEN Store(r.id, [rows[r.id] EXCEPT !.rev = r.no])
               ELSE UNCHANGED rows
          [] r.op = "reopen" ->
               rows' = [i \in {j \in DOMAIN rows: j # r.id \/ ~Closure(j)} |-> rows[i]]
  /\ Answer(p)
  /\ UNCHANGED <<gone, grants, askedNo, entityMenu>>

----------------------------------------------------------------------------
(* POST and DELETE /grants: what they read before their statement, only archiving changes *)

ManagesCalendar(a, prof) ==
  /\ InBusiness(a, prof)
  /\ Actor[a].role = "Admin" \/ (Actor[a].role = "Professional" /\ prof = Actor[a].id)

GrantCalendar ==
  \E a, g \in Actors, prof \in DOMAIN Lasting:
    /\ <<"grants", "create">> \in entityMenu
    /\ Row(prof).table = "professionals" /\ prof \notin gone
    /\ ManagesCalendar(a, prof)
    /\ Actor[g].role \in {"Receptionist", "Professional"}
    /\ Actor[g].business = Row(prof).business
    /\ <<prof, Actor[g].id>> \notin grants
    /\ grants' = grants \cup {<<prof, Actor[g].id>>}
    /\ UNCHANGED <<rows, gone, asked, askedNo, entityMenu>>

RevokeCalendar ==
  \E a \in Actors, g \in grants:
    /\ <<"grants", "delete">> \in entityMenu
    /\ ManagesCalendar(a, g[1])
    /\ grants' = grants \ {g}
    /\ UNCHANGED <<rows, gone, asked, askedNo, entityMenu>>

EntitiesInit ==
  /\ entityMenu \in EntityMenus
  /\ rows = FirstRows /\ gone = {}
  /\ grants = FirstGrants
  /\ asked = [p \in Handlers |-> NoRequest]
  /\ askedNo = 0

EntitiesStep(p) ==
  \/ PostRow(p) \/ PutRow(p) \/ DeleteRow(p)
  \/ CheckReferences(p) \/ CheckOwner(p) \/ Insert(p) \/ UpdateRow(p) \/ Remove(p)
  \/ PostClosure(p) \/ PutOrDeleteClosure(p) \/ WriteClosure(p)

EntitiesNext == (\E p \in Handlers: EntitiesStep(p)) \/ GrantCalendar \/ RevokeCalendar

EntitiesSpec == EntitiesInit /\ [][EntitiesNext]_entityVars

----------------------------------------------------------------------------
(* Properties *)

\* Whatever a row refers to belongs to one business, also when a super-admin writes it and when
\* what its checks read changed before its statement ran.
RowsStayInOneTenant ==
  \A id \in DOMAIN rows:
    LET tenants == {OwnBusiness(rows[id][k]):
                      k \in {f \in ForeignKeys(rows[id].table): rows[id][f] # Null}}
                   \cup ({rows[id].business} \ {Null})
    IN \A b, c \in tenants: b = c

\* A service is offered in a block of the professional it is said to be offered by, and goes with
\* the block.
OffersMatchTheirBlock ==
  \A id \in DOMAIN rows:
    rows[id].table = "schedule_block_services" =>
      Kept(rows[id].block) /\ rows[rows[id].block].prof = rows[id].prof

\* No sequence of requests hands a working block, an offer or time off to another owner, turns an
\* owner's time off into a closure of the business or a closure into time off.
OwnersStick ==
  [][\A id \in DOMAIN rows \cap DOMAIN rows':
       rows[id].table # "client_professional_services" =>
         \A k \in {"prof", "room", "business"}: rows'[id][k] = rows[id][k]]_entityVars

\* A receptionist whose grant is revoked after the checks of a request does not change or remove
\* the block or offer any more: the grant is there when the statement runs.
GrantAtWrite ==
  [][\A p \in Handlers:
       (/\ Pending(p, "write") /\ asked[p].op \in {"update", "delete"} /\ rows' # rows
        /\ asked'[p] = NoRequest
        /\ asked[p].table \in {"schedule_blocks", "schedule_block_services"}
        /\ Actor[asked[p].actor].role = "Receptionist") =>
          <<rows[asked[p].id].prof, Actor[asked[p].actor].id>> \in grants]_entityVars

=============================================================================
