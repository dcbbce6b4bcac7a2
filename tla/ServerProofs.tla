------------------------------ MODULE ServerProofs ------------------------------
(***************************************************************************)
(* What holds of the server beside the calendar, for every set of rows,    *)
(* actors, references, handlers, runners, day counts and directories.      *)
(*                                                                         *)
(* Generic rows stay within one business and with their owner, an offer    *)
(* with its block, and a receptionist writes with the grant in hand.  An   *)
(* id is never given twice, so what a check found about an id is true of   *)
(* the row of that id for as long as there is one.  The owner and the      *)
(* business of a row never change, hence neither does the business a       *)
(* reference resolves to, and the check a request made before its statement *)
(* still stands when the statement runs.                                   *)
(*                                                                         *)
(* The booking window of a business is never inverted.  The check and the  *)
(* write of a request are apart, and others write in between; it is enough *)
(* that both ends are written together, as they were checked.              *)
(*                                                                         *)
(* The migration runner keeps the schema and its record in step.  Who has  *)
(* read the record holds the lock, so what is not in its copy and not      *)
(* behind it is not in the record; a file that is recorded committed its   *)
(* work in the same transaction, and a file that fails left nothing.       *)
(***************************************************************************)
EXTENDS Entities, Settings, Operations, TLAPS

----------------------------------------------------------------------------
(* What a handler knows of the ids it was sent *)

Creating(p) == asked[p] # NoRequest /\ asked[p].op \in {"create", "close"}

\* No row to come will have this id.
Settled(id) == id \in Int /\ id <= askedNo /\ \A p \in Handlers: Creating(p) => asked[p].id # id

\* What assertRoleCheckedReferences found, of the references that are still there.
Agreed(body) ==
  LET used == {k \in DOMAIN body: body[k] # Null}
  IN /\ \A k \in used: Settled(body[k]) /\ (Kept(body[k]) => Row(body[k]).table = Target[k])
     /\ \A j, k \in used: Kept(body[j]) /\ Kept(body[k]) => OwnBusiness(body[j]) = OwnBusiness(body[k])

BodyOf(keys, table, body) ==
  DOMAIN body = keys /\ \A k \in keys \ NullableKeys(table): body[k] # Null

Request == {"op", "table", "actor", "id", "body", "no", "at"}

CreateKnown(r) ==
  /\ DOMAIN r = Request /\ r.op = "create" /\ r.at \in {"owner", "write"} /\ r.table \in Tables
  /\ BodyOf(ForeignKeys(r.table), r.table, r.body) /\ Agreed(r.body)

TargetKnown(r) ==
  r.table \in Tables /\ Settled(r.id) /\ (Kept(r.id) => Row(r.id).table = r.table)

UpdateKnown(r) ==
  /\ DOMAIN r = Request /\ r.op = "update" /\ r.at \in {"references", "write"} /\ TargetKnown(r)
  /\ BodyOf(UpdatableKeys(r.table), r.table, r.body)
  /\ ScheduleGuarded(r.table, "update") /\ Kept(r.id) => KeepsOwner(r.body, r.id)
  /\ r.at = "write" => Agreed(r.body)

DeleteKnown(r) == r.op = "delete" /\ r.at = "write" /\ TargetKnown(r)
CloseKnown(r) == r.op = "close" /\ r.at = "write" /\ r.business # Null
ChangeKnown(r) == r.op \in {"change", "reopen"} /\ r.at = "write"

Knows(r) ==
  r = NoRequest \/ CreateKnown(r) \/ UpdateKnown(r) \/ DeleteKnown(r) \/ CloseKnown(r) \/ ChangeKnown(r)

----------------------------------------------------------------------------
(* The inductive invariant *)

IdsFresh ==
  /\ askedNo \in Nat
  /\ DOMAIN rows \cap DOMAIN Lasting = {}
  /\ \A id \in Ids: id \in Int /\ id <= askedNo
  /\ \A p \in Handlers: Creating(p) =>
       /\ asked[p].id \in 1..askedNo /\ ~Kept(asked[p].id)
       /\ \A q \in Handlers \ {p}: Creating(q) => asked[q].id # asked[p].id

EntitiesInv ==
  /\ rows = [id \in DOMAIN rows |-> rows[id]] /\ asked = [p \in Handlers |-> asked[p]]
  /\ IdsFresh
  /\ RowsSound(rows)
  /\ \A p \in Handlers: Knows(asked[p])

----------------------------------------------------------------------------
(* The tables *)

LEMMA TableFacts ==
  /\ \A t \in Tables : ForeignKeys(t) \subseteq Links /\ UpdatableKeys(t) \subseteq ForeignKeys(t)
  /\ \A t \in BusinessScoped : t \in Tables /\ ForeignKeys(t) = {}
  /\ \A k \in Links : /\ k = "block" \/ Target[k] \in BusinessScoped
                      /\ Target[k] # "client_professional_services"
  /\ \A t \in Tables : "block" \in ForeignKeys(t) <=> t = "schedule_block_services"
  BY DEF Tables, ForeignKeys, UpdatableKeys, Links, BusinessScoped, Target

\* A row that does not say whose it is has exactly one owner among the columns it is joined on.
LEMMA OneOwner ==
  ASSUME NEW row, WellOwned(row), row.business = Null, row.table # "client_professional_services"
  PROVE  \E k \in {"prof", "room"} \cap ForeignKeys(row.table) :
           /\ k \in JoinKeys(row.table) /\ JoinKeys(row.table) \subseteq {"prof", "room"}
           /\ row[k] # Null /\ \A j \in JoinKeys(row.table) : row[j] # Null => j = k
<1>1. row.table \notin BusinessScoped
  BY DEF WellOwned
<1>2. CASE row.table = "schedule_blocks"
  BY <1>2 DEF WellOwned, JoinKeys, ForeignKeys
<1>3. CASE row.table = "schedule_exceptions"
  BY <1>3 DEF WellOwned, JoinKeys, ForeignKeys
<1>4. CASE row.table \in {"schedule_block_services", "professional_services"}
  <2>1. row.prof # Null
    BY <1>4 DEF WellOwned, ForeignKeys, NullableKeys
  <2>2. QED BY <1>4, <2>1 DEF JoinKeys, ForeignKeys
<1>5. QED BY <1>1, <1>2, <1>3, <1>4 DEF WellOwned, Tables, BusinessScoped

\* The business of such a row is the one its owner holds.
LEMMA BusinessIsOwners ==
  ASSUME NEW rs, NEW i, NEW k \in JoinKeys(RowOf(rs, i).table), RowOf(rs, i).business = Null,
         RowOf(rs, i)[k] # Null, \A j \in JoinKeys(RowOf(rs, i).table) : RowOf(rs, i)[j] # Null => j = k
  PROVE  BusinessOf(rs, i) = RowOf(rs, RowOf(rs, i)[k]).business
<1>1. (CHOOSE j \in JoinKeys(RowOf(rs, i).table) : RowOf(rs, i)[j] # Null) = k
  OBVIOUS
<1>2. QED BY <1>1, Zenon DEF BusinessOf

----------------------------------------------------------------------------
(* What every step leaves: an id once settled has the row it had, or none *)

SameOwner(old, new) ==
  /\ new.table = old.table
  /\ old.table # "client_professional_services" =>
       new.prof = old.prof /\ new.room = old.room /\ new.business = old.business

Stays ==
  /\ \A i : Settled(i) => Settled(i)'
  /\ \A i : Settled(i) /\ Kept(i)' => Kept(i) /\ (Row(i)' = Row(i) \/ SameOwner(Row(i), Row(i)'))
  /\ \A i : Kept(i) /\ Row(i).table \in BusinessScoped => Kept(i)'

LEMMA KeptIsSettled ==
  ASSUME EntitiesInv, NEW i, Kept(i)
  PROVE  Settled(i)
  BY DEF EntitiesInv, IdsFresh, Settled, Kept

\* A row kept by an id is sound, or one of the lasting ones.
LEMMA KeptIsSound ==
  ASSUME EntitiesInv, NEW i, Kept(i)
  PROVE  \/ Row(i).table \in BusinessScoped /\ Row(i).business # Null
         \/ RowSound(rows, Row(i))
<1>1. CASE i \in DOMAIN rows
  BY <1>1 DEF EntitiesInv, RowsSound, Row, RowOf
<1>2. CASE i \notin DOMAIN rows
  BY <1>2, FirstRowsAssumption DEF Row, RowOf, Kept, Ids
<1>3. QED BY <1>1, <1>2

LEMMA OwnersStay ==
  ASSUME EntitiesInv, Stays, NEW i, Kept(i), Kept(i)'
  PROVE  Row(i)' = Row(i) \/ SameOwner(Row(i), Row(i)')
  BY KeptIsSettled DEF Stays

LEMMA BusinessStays ==
  ASSUME EntitiesInv, Stays, NEW i, Kept(i), Kept(i)', Row(i).table # "client_professional_services"
  PROVE  OwnBusiness(i)' = OwnBusiness(i)
<1>1. /\ Row(i)'.table = Row(i).table /\ Row(i)'.prof = Row(i).prof /\ Row(i)'.room = Row(i).room
      /\ Row(i)'.business = Row(i).business
  BY OwnersStay DEF SameOwner
<1>2. Row(i) = RowOf(rows, i) /\ Row(i)' = RowOf(rows', i)
  BY DEF Row
<1>3. CASE Row(i).business # Null
  BY <1>1, <1>2, <1>3, Zenon DEF OwnBusiness, BusinessOf
<1>4. CASE Row(i).business = Null
  <2>1. RowSound(rows, Row(i))
    BY <1>4, KeptIsSound
  <2>2. PICK k \in {"prof", "room"} \cap ForeignKeys(Row(i).table) :
          /\ k \in JoinKeys(Row(i).table) /\ JoinKeys(Row(i).table) \subseteq {"prof", "room"}
          /\ Row(i)[k] # Null /\ \A j \in JoinKeys(Row(i).table) : Row(i)[j] # Null => j = k
    BY <1>4, <2>1, OneOwner DEF RowSound
  <2>3. PICK o : o = Row(i)[k]
    OBVIOUS
  <2>4. Kept(o) /\ Row(o).table = Target[k]
    BY <2>1, <2>2, <2>3 DEF RowSound, Kept, Ids, Row
  <2>5. Row(o).table \in BusinessScoped
    BY <2>2, <2>4 DEF Target, BusinessScoped
  <2>6. Kept(o)' /\ Row(o)'.business = Row(o).business
    BY <2>4, <2>5, OwnersStay DEF Stays, SameOwner, BusinessScoped
  <2>7. OwnBusiness(i) = Row(o).business
    BY <1>2, <1>4, <2>2, <2>3, BusinessIsOwners DEF OwnBusiness, Row
  <2>8. Row(i)'[k] = o /\ \A j \in JoinKeys(Row(i)'.table) : Row(i)'[j] # Null => j = k
    BY <1>1, <2>2, <2>3
  <2>9. OwnBusiness(i)' = Row(o)'.business
    BY <1>1, <1>2, <1>4, <2>2, <2>3, <2>8, BusinessIsOwners DEF OwnBusiness, Row
  <2>10. QED BY <2>6, <2>7, <2>9
<1>5. QED BY <1>3, <1>4

\* A sound row stays sound, with the block it names.
LEMMA RowStays ==
  ASSUME EntitiesInv, Stays, NEW row, RowSound(rows, row),
         row.table = "schedule_block_services" => Kept(row.block)'
  PROVE  RowSound(rows', row)
<1>1. row.table \in Tables /\ ForeignKeys(row.table) \subseteq Links /\ WellOwned(row)
  BY TableFacts DEF RowSound, WellOwned
<1>2. ASSUME NEW k \in ForeignKeys(row.table), row[k] # Null
      PROVE  /\ Kept(row[k]) /\ Kept(row[k])' /\ Row(row[k]).table = Target[k]
             /\ RowOf(rows', row[k]).table = Target[k]
             /\ BusinessOf(rows', row[k]) = BusinessOf(rows, row[k])
  <2>1. PICK o : o = row[k]
    OBVIOUS
  <2>2. Kept(o) /\ Row(o).table = Target[k]
    BY <1>2, <2>1 DEF RowSound, Kept, Ids, Row
  <2>3. Kept(o)'
    <3>1. CASE k = "block"
      <4>1. row.table = "schedule_block_services" /\ o = row.block
        BY <1>1, <2>1, <3>1, TableFacts
      <4>2. QED BY <4>1 DEF Kept
    <3>2. CASE k # "block"
      <4>1. Row(o).table \in BusinessScoped
        BY <1>1, <2>2, <3>2, TableFacts
      <4>2. QED BY <2>2, <4>1 DEF Stays
    <3>3. QED BY <3>1, <3>2
  <2>4. Row(o).table # "client_professional_services"
    BY <1>1, <2>2, TableFacts
  <2>5. Row(o)'.table = Target[k]
    BY <2>2, <2>3, OwnersStay DEF SameOwner
  <2>6. OwnBusiness(o)' = OwnBusiness(o)
    BY <2>2, <2>3, <2>4, BusinessStays
  <2>7. QED BY <2>1, <2>2, <2>3, <2>5, <2>6 DEF Row, OwnBusiness, Kept
<1>3. ASSUME row.table = "schedule_block_services"
      PROVE  RowOf(rows', row.block).prof = row.prof
  <2>1. "block" \in ForeignKeys(row.table) /\ row.block # Null
    BY <1>1, <1>3 DEF WellOwned, ForeignKeys, NullableKeys
  <2>2. PICK o : o = row.block
    OBVIOUS
  <2>3. Kept(o) /\ Kept(o)' /\ Row(o).table = "schedule_blocks" /\ Row(o).prof = row.prof
    BY <1>2, <1>3, <2>1, <2>2 DEF Target, RowSound, Row
  <2>4. Row(o)'.prof = row.prof
    BY <2>3, OwnersStay DEF SameOwner
  <2>5. QED BY <2>2, <2>4 DEF Row
<1>4. \A j, k \in ForeignKeys(row.table) :
        row[j] # Null /\ row[k] # Null => BusinessOf(rows', row[j]) = BusinessOf(rows', row[k])
  BY <1>2 DEF RowSound
<1>5. QED BY <1>1, <1>2, <1>3, <1>4 DEF RowSound, Kept, Ids

\* What a check found stays true.
LEMMA AgreedStays ==
  ASSUME EntitiesInv, Stays, NEW body, DOMAIN body \subseteq Links, Agreed(body)
  PROVE  Agreed(body)'
<1>1. ASSUME NEW k \in DOMAIN body, body[k] # Null
      PROVE  /\ Settled(body[k])'
             /\ Kept(body[k])' => /\ Kept(body[k]) /\ Row(body[k])'.table = Target[k]
                                  /\ OwnBusiness(body[k])' = OwnBusiness(body[k])
  <2>1. PICK o : o = body[k]
    OBVIOUS
  <2>2. Settled(o) /\ (Kept(o) => Row(o).table = Target[k])
    BY <1>1, <2>1 DEF Agreed
  <2>3. Settled(o)' /\ (Kept(o)' => Kept(o))
    BY <2>2 DEF Stays
  <2>4. Kept(o)' => Row(o)'.table = Target[k]
    BY <2>2, <2>3, OwnersStay DEF SameOwner
  <2>5. Target[k] # "client_professional_services"
    BY TableFacts
  <2>6. Kept(o)' => OwnBusiness(o)' = OwnBusiness(o)
    BY <2>2, <2>3, <2>5, BusinessStays
  <2>7. QED BY <2>1, <2>3, <2>4, <2>6 DEF Settled, Kept, Row, OwnBusiness
<1>2. QED BY <1>1 DEF Agreed

LEMMA KnowsStays ==
  ASSUME EntitiesInv, Stays, NEW r, Knows(r)
  PROVE  Knows(r)'
<1>1. ASSUME TargetKnown(r) PROVE TargetKnown(r)'
  <2>1. PICK i : i = r.id
    OBVIOUS
  <2>2. Settled(i)' /\ (Kept(i)' => Kept(i) /\ Row(i)'.table = r.table)
    BY <1>1, <2>1, OwnersStay DEF TargetKnown, Stays, SameOwner
  <2>3. QED BY <1>1, <2>1, <2>2 DEF TargetKnown, Settled, Kept, Row
<1>2. CASE CreateKnown(r)
  <2>1. DOMAIN r.body \subseteq Links
    BY <1>2, TableFacts DEF CreateKnown, BodyOf
  <2>2. QED BY <1>2, <2>1, AgreedStays DEF CreateKnown, Knows, BodyOf
<1>3. CASE UpdateKnown(r)
  <2>1. DOMAIN r.body \subseteq Links
    BY <1>3, TableFacts DEF UpdateKnown, TargetKnown, BodyOf
  <2>2. PICK i : i = r.id
    OBVIOUS
  <2>3. ScheduleGuarded(r.table, "update") /\ Kept(i)' => KeepsOwner(r.body, i)'
    <3> SUFFICES ASSUME ScheduleGuarded(r.table, "update"), Kept(i)' PROVE KeepsOwner(r.body, i)'
      OBVIOUS
    <3>1. Settled(i) /\ Kept(i) /\ Row(i).table = r.table /\ KeepsOwner(r.body, i)
      BY <1>3, <2>2 DEF UpdateKnown, TargetKnown, Stays
    <3>2. r.table # "client_professional_services"
      BY DEF ScheduleGuarded
    <3>3. Row(i)' = Row(i) \/ (Row(i)'.prof = Row(i).prof /\ Row(i)'.room = Row(i).room)
      BY <3>1, <3>2, OwnersStay DEF SameOwner
    <3>4. QED BY <3>1, <3>3 DEF KeepsOwner
  <2>4. TargetKnown(r)' /\ (r.at = "write" => Agreed(r.body)')
    BY <1>1, <1>3, <2>1, AgreedStays DEF UpdateKnown
  <2>5. UpdateKnown(r)'
    BY <1>3, <2>2, <2>3, <2>4 DEF UpdateKnown, Kept, KeepsOwner, BodyOf
  <2>6. QED BY <2>5 DEF Knows
<1>4. CASE DeleteKnown(r)
  BY <1>1, <1>4 DEF DeleteKnown, Knows
<1>5. CASE r = NoRequest \/ CloseKnown(r) \/ ChangeKnown(r)
  BY <1>5 DEF Knows, CloseKnown, ChangeKnown
<1>6. QED BY <1>2, <1>3, <1>4, <1>5 DEF Knows

----------------------------------------------------------------------------
(* The three kinds of step: a request moves on, a row is stored, rows go *)

OnlyAsked(p) == asked' = [asked EXCEPT ![p] = asked'[p]]

\* The handlers that do not step know what they knew.
LEMMA Conclude ==
  ASSUME EntitiesInv, NEW p \in Handlers, OnlyAsked(p), Stays, IdsFresh', RowsSound(rows'),
         rows' = [id \in DOMAIN rows' |-> rows'[id]], NEW r, r = asked'[p], Knows(r)'
  PROVE  EntitiesInv'
<1>1. ASSUME NEW q \in Handlers PROVE Knows(asked[q])'
  <2>1. PICK x : x = asked'[q]
    OBVIOUS
  <2>2. CASE q = p
    BY <2>2
  <2>3. CASE q # p
    <3>1. x = asked[q]
      BY <2>1, <2>3 DEF OnlyAsked, EntitiesInv
    <3>2. Knows(x)'
      BY <3>1, KnowsStays DEF EntitiesInv
    <3>3. QED BY <2>1, <3>2
  <2>4. QED BY <2>2, <2>3
<1>2. asked' = [q \in Handlers |-> asked'[q]]
  BY DEF OnlyAsked, EntitiesInv
<1>3. QED BY <1>1, <1>2 DEF EntitiesInv

\* A request arrives.
LEMMA AskStep ==
  ASSUME EntitiesInv, NEW p \in Handlers, Free(p), NEW r, Receive(p, r), r # NoRequest, Knows(r),
         r.op \in {"create", "close"} => r.id = askedNo + 1
  PROVE  EntitiesInv' /\ Stays
<1>1. /\ asked'[p] = r /\ OnlyAsked(p) /\ askedNo \in Nat /\ askedNo' = askedNo + 1 /\ rows' = rows
      /\ asked[p] = NoRequest /\ \A q \in Handlers \ {p} : asked'[q] = asked[q]
  BY DEF EntitiesInv, Receive, OnlyAsked, IdsFresh, Free
<1>2. Creating(p)' => asked'[p].id = askedNo + 1
  BY <1>1 DEF Creating
<1>3. \A q \in Handlers \ {p} : Creating(q)' <=> Creating(q)
  BY <1>1 DEF Creating
<1>4. Stays
  <2>1. ASSUME NEW i, Settled(i) PROVE Settled(i)'
    BY <1>1, <1>2, <1>3, <2>1 DEF Settled
  <2>2. QED BY <1>1, <2>1 DEF Stays, Kept, Ids, Row, RowOf
<1>5. IdsFresh'
  <2>1. \A i \in Ids : i \in Int /\ i <= askedNo + 1 /\ i # askedNo + 1
    BY <1>1 DEF EntitiesInv, IdsFresh
  <2>2. Ids' = Ids
    BY <1>1 DEF Ids
  <2>3. ASSUME NEW q \in Handlers, Creating(q)'
        PROVE  /\ asked'[q].id \in 1..(askedNo + 1) /\ ~Kept(asked'[q].id)
               /\ \A o \in Handlers \ {q}: Creating(o)' => asked'[o].id # asked'[q].id
    <3>1. CASE q = p
      BY <1>1, <1>2, <1>3, <2>1, <2>3, <3>1 DEF EntitiesInv, IdsFresh, Kept
    <3>2. CASE q # p
      BY <1>1, <1>2, <1>3, <2>3, <3>2 DEF EntitiesInv, IdsFresh
    <3>3. QED BY <3>1, <3>2
  <2>4. \A i : Kept(i)' <=> Kept(i)
    BY <2>2 DEF Kept
  <2>5. QED BY <1>1, <2>1, <2>2, <2>3, <2>4 DEF EntitiesInv, IdsFresh, Kept, Creating
<1>6. Knows(r)'
  BY <1>4, KnowsStays
<1>7. RowsSound(rows') /\ rows' = [id \in DOMAIN rows' |-> rows'[id]]
  BY <1>1 DEF EntitiesInv
<1>8. QED BY <1>1, <1>4, <1>5, <1>6, <1>7, Conclude

\* The rows of a request that ends, or goes on, with the same id.
LEMMA IdsStayFresh ==
  ASSUME EntitiesInv, NEW p \in Handlers, OnlyAsked(p), askedNo' = askedNo,
         Creating(p)' => Creating(p) /\ asked'[p].id = asked[p].id
  PROVE  /\ \A i : Settled(i) => Settled(i)'
         /\ \A q \in Handlers : Creating(q)' => Creating(q) /\ asked'[q].id = asked[q].id
<1>1. \A q \in Handlers \ {p} : asked'[q] = asked[q]
  BY DEF EntitiesInv, OnlyAsked
<1>2. \A q \in Handlers : Creating(q)' => Creating(q) /\ asked'[q].id = asked[q].id
  BY <1>1 DEF Creating
<1>3. QED BY <1>2 DEF Settled

\* A request passes a check or ends without a write.
LEMMA MoveStep ==
  ASSUME EntitiesInv, NEW p \in Handlers, OnlyAsked(p), UNCHANGED <<rows, askedNo>>,
         NEW r, r = asked'[p], Knows(r), Creating(p)' => Creating(p) /\ r.id = asked[p].id
  PROVE  EntitiesInv' /\ Stays
<1>1. Stays
  BY IdsStayFresh DEF Stays, Kept, Ids, Row, RowOf
<1>2. Knows(r)'
  BY <1>1, KnowsStays
<1>3. IdsFresh'
  <2>1. \A i : Kept(i)' <=> Kept(i)
    BY DEF Kept, Ids
  <2>2. QED BY <2>1, IdsStayFresh DEF EntitiesInv, IdsFresh, Ids
<1>4. QED BY <1>1, <1>2, <1>3, Conclude DEF EntitiesInv

LEMMA AnswerMoves ==
  ASSUME EntitiesInv, NEW p \in Handlers, Answer(p)
  PROVE  OnlyAsked(p) /\ asked'[p] = NoRequest /\ ~Creating(p)' /\ Knows(NoRequest) /\ Knows(NoRequest)'
  BY DEF EntitiesInv, Answer, OnlyAsked, Creating, Knows

\* A row is stored: a new one under the id that was set aside for it, or over the row there was.
LEMMA StoreStep ==
  ASSUME EntitiesInv, NEW p \in Handlers, Answer(p), askedNo' = askedNo,
         NEW id, NEW row, Store(id, row), RowSound(rows, row),
         \/ Creating(p) /\ id = asked[p].id
         \/ id \in DOMAIN rows /\ SameOwner(rows[id], row)
  PROVE  EntitiesInv' /\ Stays
<1>1. /\ DOMAIN rows' = DOMAIN rows \cup {id} /\ rows'[id] = row
      /\ \A i \in DOMAIN rows \ {id} : rows'[i] = rows[i]
      /\ rows' = [i \in DOMAIN rows' |-> rows'[i]]
  BY DEF Store
<1>2. /\ \A i : Settled(i) => Settled(i)'
      /\ \A q \in Handlers : Creating(q)' => q # p /\ Creating(q) /\ asked'[q].id = asked[q].id
  BY IdsStayFresh, AnswerMoves
<1>3. id \notin DOMAIN Lasting /\ id \in Int /\ id <= askedNo
  BY DEF EntitiesInv, IdsFresh, Kept, Ids
<1>4. Stays
  <2>1. ASSUME NEW i, Settled(i), Kept(i)'
        PROVE  Kept(i) /\ (Row(i)' = Row(i) \/ SameOwner(Row(i), Row(i)'))
    <3>1. CASE i # id
      BY <1>1, <2>1, <3>1 DEF Kept, Ids, Row, RowOf
    <3>2. CASE i = id
      <4>1. ~(Creating(p) /\ id = asked[p].id)
        BY <2>1, <3>2 DEF Settled
      <4>2. QED BY <1>1, <3>2, <4>1 DEF Kept, Ids, Row, RowOf
    <3>3. QED BY <3>1, <3>2
  <2>2. \A i : Kept(i) => Kept(i)'
    BY <1>1 DEF Kept, Ids
  <2>3. QED BY <1>2, <2>1, <2>2 DEF Stays
<1>5. IdsFresh'
  <2>1. \A q \in Handlers : Creating(q)' => asked[q].id # id
    BY <1>2 DEF EntitiesInv, IdsFresh, Kept, Ids
  <2>2. QED BY <1>1, <1>2, <1>3, <2>1 DEF EntitiesInv, IdsFresh, Kept, Ids, Creating
<1>6. RowsSound(rows')
  <2>1. ASSUME NEW sound, RowSound(rows, sound) PROVE RowSound(rows', sound)
    <3>1. ASSUME sound.table = "schedule_block_services" PROVE Kept(sound.block)'
      <4>1. sound.block # Null /\ "block" \in ForeignKeys(sound.table)
        BY <2>1, <3>1 DEF RowSound, WellOwned, ForeignKeys, NullableKeys
      <4>2. sound.block \in DOMAIN rows \cup DOMAIN Lasting
        BY <2>1, <4>1 DEF RowSound
      <4>3. QED BY <1>1, <4>2 DEF Kept, Ids
    <3>2. QED BY <1>4, <2>1, <3>1, RowStays
  <2>2. ASSUME NEW i \in DOMAIN rows' PROVE RowSound(rows, rows'[i])
    BY <1>1 DEF EntitiesInv, RowsSound
  <2>3. QED BY <2>1, <2>2 DEF RowsSound
<1>7. QED BY <1>1, <1>4, <1>5, <1>6, AnswerMoves, Conclude

\* Rows are removed: none that says itself whose it is, and no block without its offers.
LEMMA DropStep ==
  ASSUME EntitiesInv, NEW p \in Handlers, Answer(p), askedNo' = askedNo,
         NEW left, left \subseteq DOMAIN rows, rows' = [i \in left |-> rows[i]],
         \A i \in DOMAIN rows \ left : rows[i].table \notin BusinessScoped,
         \A i \in left : rows[i].table = "schedule_block_services" =>
                          rows[i].block \in left \cup DOMAIN Lasting
  PROVE  EntitiesInv' /\ Stays
<1>1. DOMAIN rows' = left /\ \A i \in left : rows'[i] = rows[i]
  OBVIOUS
<1>2. /\ \A i : Settled(i) => Settled(i)'
      /\ \A q \in Handlers : Creating(q)' => Creating(q) /\ asked'[q].id = asked[q].id
  BY IdsStayFresh, AnswerMoves
<1>3. Stays
  <2>1. \A i : Kept(i)' => Kept(i) /\ Row(i)' = Row(i)
    BY <1>1 DEF Kept, Ids, Row, RowOf, EntitiesInv, IdsFresh
  <2>2. \A i : Kept(i) /\ Row(i).table \in BusinessScoped => Kept(i)'
    BY <1>1 DEF Kept, Ids, Row, RowOf
  <2>3. QED BY <1>2, <2>1, <2>2 DEF Stays
<1>4. IdsFresh'
  BY <1>1, <1>2 DEF EntitiesInv, IdsFresh, Kept, Ids
<1>5. RowsSound(rows')
  <2>1. ASSUME NEW i \in left PROVE RowSound(rows', rows'[i])
    <3>1. RowSound(rows, rows[i])
      BY DEF EntitiesInv, RowsSound
    <3>2. rows[i].table = "schedule_block_services" => Kept(rows[i].block)'
      BY <1>1 DEF Kept, Ids
    <3>3. PICK row : row = rows[i]
      OBVIOUS
    <3>4. row.table = "schedule_block_services" => Kept(row.block)'
      BY <1>1, <3>3 DEF Kept, Ids
    <3>5. RowSound(rows', row)
      BY <1>3, <3>1, <3>3, <3>4, RowStays
    <3>6. QED BY <1>1, <3>3, <3>5
  <2>2. QED BY <1>1, <2>1 DEF RowsSound
<1>6. QED BY <1>1, <1>3, <1>4, <1>5, AnswerMoves, Conclude

----------------------------------------------------------------------------
(* One lemma for each kind of request *)

LEMMA TableOfKept ==
  ASSUME EntitiesInv, NEW i, Kept(i)
  PROVE  Row(i).table \in Tables /\ Settled(i)
  BY KeptIsSound, KeptIsSettled, TableFacts DEF RowSound, WellOwned

LEMMA AllowedIsAgreed ==
  ASSUME EntitiesInv, NEW a, NEW body, ReferencesAllowed(a, body)
  PROVE  Agreed(body)
<1>1. \A k \in DOMAIN body : body[k] # Null =>
        Kept(body[k]) /\ Row(body[k]).table = Target[k] /\ Settled(body[k])
  BY KeptIsSettled DEF ReferencesAllowed
<1>2. QED BY <1>1 DEF Agreed, ReferencesAllowed

LEMMA BodiesHold ==
  ASSUME NEW table \in Tables, NEW keys, keys \subseteq Links, NEW body \in Bodies(keys, NullableKeys(table))
  PROVE  BodyOf(keys, table, body)
<1>1. DOMAIN body = keys /\ \A k \in keys : body[k] \in References[k] \/ k \in NullableKeys(table)
  BY DEF Bodies
<1>2. QED BY <1>1, FirstRowsAssumption DEF BodyOf

LEMMA PostStep ==
  ASSUME EntitiesInv, NEW p \in Handlers, PostRow(p)
  PROVE  EntitiesInv' /\ Stays
<1>1. PICK a \in Actors, t \in Tables : \E body \in CreateBodies[t] :
        /\ ReferencesAllowed(a, body)
        /\ Receive(p, [op |-> "create", table |-> t, actor |-> a, id |-> askedNo + 1, body |-> body,
                       no |-> askedNo + 1,
                       at |-> IF ScheduleGuarded(t, "create") THEN "owner" ELSE "write"])
  BY DEF PostRow
<1>2. PICK body \in CreateBodies[t] :
        /\ ReferencesAllowed(a, body)
        /\ Receive(p, [op |-> "create", table |-> t, actor |-> a, id |-> askedNo + 1, body |-> body,
                       no |-> askedNo + 1,
                       at |-> IF ScheduleGuarded(t, "create") THEN "owner" ELSE "write"])
  BY <1>1
<1>3. PICK r : r = [op |-> "create", table |-> t, actor |-> a, id |-> askedNo + 1, body |-> body,
                    no |-> askedNo + 1,
                    at |-> IF ScheduleGuarded(t, "create") THEN "owner" ELSE "write"]
  OBVIOUS
<1>4. Receive(p, r)
  BY <1>2, <1>3, Zenon
<1>5. BodyOf(ForeignKeys(t), t, body) /\ Agreed(body)
  BY <1>2, TableFacts, BodiesHold, AllowedIsAgreed DEF CreateBodies
<1>6. /\ r.op = "create" /\ r.table = t /\ r.body = body /\ r.id = askedNo + 1
      /\ r.at \in {"owner", "write"} /\ DOMAIN r = Request
  BY <1>3 DEF Request
<1>7. r # NoRequest /\ Knows(r)
  BY <1>5, <1>6 DEF NoRequest, Knows, CreateKnown
<1>8. QED BY <1>4, <1>6, <1>7, AskStep DEF PostRow

LEMMA PutStep ==
  ASSUME EntitiesInv, NEW p \in Handlers, PutRow(p)
  PROVE  EntitiesInv' /\ Stays
<1>1. PICK a \in Actors, id \in Ids :
        \E body \in UpdateBodies[Row(id).table] :
          /\ IF ScheduleGuarded(Row(id).table, "update")
             THEN KeepsOwner(body, id) /\ OwnScheduleAllowed(a, Row(id).prof, Row(id).room)
             ELSE ReferencesAllowed(a, body)
          /\ Receive(p, [op |-> "update", table |-> Row(id).table, actor |-> a, id |-> id, body |-> body,
                         no |-> askedNo + 1,
                         at |-> IF ScheduleGuarded(Row(id).table, "update") THEN "references" ELSE "write"])
  BY Zenon DEF PutRow
<1>2. PICK t : t = Row(id).table
  OBVIOUS
<1>3. PICK body \in UpdateBodies[t] :
          /\ IF ScheduleGuarded(t, "update") THEN KeepsOwner(body, id) ELSE ReferencesAllowed(a, body)
          /\ Receive(p, [op |-> "update", table |-> t, actor |-> a, id |-> id, body |-> body,
                         no |-> askedNo + 1,
                         at |-> IF ScheduleGuarded(t, "update") THEN "references" ELSE "write"])
  BY <1>1, <1>2
<1>4. PICK r : r = [op |-> "update", table |-> t, actor |-> a, id |-> id, body |-> body,
                    no |-> askedNo + 1,
                    at |-> IF ScheduleGuarded(t, "update") THEN "references" ELSE "write"]
  OBVIOUS
<1>5. Receive(p, r)
  BY <1>3, <1>4, Zenon
<1>6. t \in Tables /\ Settled(id) /\ Kept(id)
  BY <1>2, TableOfKept DEF Kept
<1>7. BodyOf(UpdatableKeys(t), t, body)
  BY <1>3, <1>6, TableFacts, BodiesHold DEF UpdateBodies
<1>8. /\ r.op = "update" /\ r.table = t /\ r.body = body /\ r.id = id
      /\ r.at = IF ScheduleGuarded(t, "update") THEN "references" ELSE "write"
      /\ DOMAIN r = Request
  BY <1>4 DEF Request
<1>9. r.at = "write" => Agreed(body)
  BY <1>3, <1>8, AllowedIsAgreed
<1>10. r # NoRequest /\ Knows(r)
  BY <1>2, <1>3, <1>6, <1>7, <1>8, <1>9 DEF NoRequest, Knows, UpdateKnown, TargetKnown
<1>11. QED BY <1>5, <1>8, <1>10, AskStep DEF PutRow

LEMMA AskDeleteStep ==
  ASSUME EntitiesInv, NEW p \in Handlers, DeleteRow(p)
  PROVE  EntitiesInv' /\ Stays
<1>1. PICK a \in Actors, id \in Ids :
        Receive(p, [op |-> "delete", table |-> Row(id).table, actor |-> a, id |-> id, no |-> askedNo + 1,
                    at |-> "write"])
  BY Zenon DEF DeleteRow
<1>2. PICK r : r = [op |-> "delete", table |-> Row(id).table, actor |-> a, id |-> id, no |-> askedNo + 1,
                    at |-> "write"]
  OBVIOUS
<1>3. Receive(p, r) /\ r.op = "delete" /\ r.table = Row(id).table /\ r.id = id /\ r.at = "write"
  BY <1>1, <1>2, Zenon
<1>4. r # NoRequest /\ Knows(r)
  BY <1>3, TableOfKept DEF NoRequest, Knows, DeleteKnown, TargetKnown, Kept
<1>5. QED BY <1>3, <1>4, AskStep DEF DeleteRow

LEMMA AskClosureStep ==
  ASSUME EntitiesInv, NEW p \in Handlers, PostClosure(p) \/ PutOrDeleteClosure(p)
  PROVE  EntitiesInv' /\ Stays
<1>1. CASE PostClosure(p)
  <2>1. PICK b : b # Null /\ Receive(p, [op |-> "close", business |-> b, id |-> askedNo + 1,
                                         no |-> askedNo + 1, at |-> "write"])
    BY <1>1 DEF PostClosure
  <2>2. PICK r : r = [op |-> "close", business |-> b, id |-> askedNo + 1, no |-> askedNo + 1, at |-> "write"]
    OBVIOUS
  <2>3. Receive(p, r) /\ r.op = "close" /\ r.business = b /\ r.id = askedNo + 1 /\ r.at = "write"
    BY <2>1, <2>2, Zenon
  <2>4. r # NoRequest /\ Knows(r)
    BY <2>1, <2>3 DEF NoRequest, Knows, CloseKnown
  <2>5. QED BY <1>1, <2>3, <2>4, AskStep DEF PostClosure
<1>2. CASE PutOrDeleteClosure(p)
  <2>1. PICK id \in Ids, op \in {"change", "reopen"} :
          Receive(p, [op |-> op, id |-> id, no |-> askedNo + 1, at |-> "write"])
    BY <1>2 DEF PutOrDeleteClosure
  <2>2. PICK r : r = [op |-> op, id |-> id, no |-> askedNo + 1, at |-> "write"]
    OBVIOUS
  <2>3. Receive(p, r) /\ r.op = op /\ r.at = "write"
    BY <2>1, <2>2, Zenon
  <2>4. r # NoRequest /\ Knows(r) /\ r.op \notin {"create", "close"}
    BY <2>1, <2>3 DEF NoRequest, Knows, ChangeKnown
  <2>5. QED BY <1>2, <2>3, <2>4, AskStep DEF PutOrDeleteClosure
<1>3. QED BY <1>1, <1>2

\* A check of its own passes, or ends the request.
LEMMA CheckStep ==
  ASSUME EntitiesInv, NEW p \in Handlers, CheckOwner(p) \/ CheckReferences(p)
  PROVE  EntitiesInv' /\ Stays
<1>1. PICK q : q = asked[p]
  OBVIOUS
<1>2. UNCHANGED <<rows, askedNo>> /\ Knows(q) /\ q # NoRequest
  BY <1>1 DEF CheckOwner, CheckReferences, EntitiesInv, Pending
<1>3. CASE Answer(p)
  BY <1>2, <1>3, AnswerMoves, MoveStep
<1>4. ASSUME Proceed(p, "write"), (CreateKnown(q) /\ q.at = "owner") \/ (UpdateKnown(q) /\ Agreed(q.body))
      PROVE  EntitiesInv' /\ Stays
  <2>1. PICK r : r = [q EXCEPT !.at = "write"]
    OBVIOUS
  <2>2. OnlyAsked(p) /\ asked'[p] = r
    BY <1>1, <1>4, <2>1 DEF Proceed, OnlyAsked, EntitiesInv
  <2>3. /\ DOMAIN q = Request /\ DOMAIN r = Request /\ r.op = q.op /\ r.table = q.table
        /\ r.id = q.id /\ r.body = q.body /\ r.at = "write"
    BY <1>4, <2>1 DEF CreateKnown, UpdateKnown, Request
  <2>4. Knows(r)
    BY <1>4, <2>3 DEF Knows, CreateKnown, UpdateKnown, TargetKnown
  <2>5. Creating(p)' => Creating(p) /\ r.id = asked[p].id
    BY <1>1, <1>2, <2>2, <2>3 DEF Creating
  <2>6. QED BY <1>2, <2>2, <2>4, <2>5, MoveStep
<1>5. CASE CheckOwner(p)
  <2>1. CreateKnown(q) /\ q.at = "owner"
    BY <1>1, <1>2, <1>5 DEF CheckOwner, Pending, Knows, UpdateKnown, DeleteKnown, CloseKnown, ChangeKnown
  <2>2. QED BY <1>3, <1>4, <1>5, <2>1 DEF CheckOwner
<1>6. CASE CheckReferences(p)
  <2>1. UpdateKnown(q)
    BY <1>1, <1>2, <1>6 DEF CheckReferences, Pending, Knows, CreateKnown, DeleteKnown, CloseKnown, ChangeKnown
  <2>2. CASE ReferencesAllowed(q.actor, q.body)
    BY <1>1, <1>4, <1>6, <2>1, <2>2, AllowedIsAgreed DEF CheckReferences
  <2>3. CASE ~ReferencesAllowed(q.actor, q.body)
    BY <1>1, <1>3, <1>6, <2>3 DEF CheckReferences
  <2>4. QED BY <2>2, <2>3
<1>7. QED BY <1>5, <1>6

\* What is written: a row whose references were agreed on and which the constraints let through.
LEMMA WrittenIsSound ==
  ASSUME EntitiesInv, NEW t \in Tables, NEW body, NEW row, NEW id,
         BodyOf(ForeignKeys(t), t, body), Agreed(body), Constraints(t, row, id),
         DOMAIN row = Columns, row.table = t, \A k \in ForeignKeys(t) : row[k] = body[k],
         \A k \in Links \ ForeignKeys(t) : row[k] = Null,
         row.business # Null => t \in BusinessScoped \cup {"schedule_exceptions"}
  PROVE  RowSound(rows, row)
<1>1. WellOwned(row)
  BY DEF WellOwned, Constraints, BodyOf
<1>2. \A k \in ForeignKeys(t) : row[k] # Null => Kept(row[k]) /\ Row(row[k]).table = Target[k]
  BY DEF Constraints, Agreed, BodyOf
<1>3. t = "schedule_block_services" => Row(row.block).prof = row.prof
  BY DEF Constraints
<1>4. \A j, k \in ForeignKeys(t) :
        row[j] # Null /\ row[k] # Null => OwnBusiness(row[j]) = OwnBusiness(row[k])
  BY <1>2 DEF Agreed, BodyOf
<1>5. QED BY <1>1, <1>2, <1>3, <1>4 DEF RowSound, Kept, Ids, Row, OwnBusiness

LEMMA InsertStep ==
  ASSUME EntitiesInv, NEW p \in Handlers, Insert(p)
  PROVE  EntitiesInv' /\ Stays
<1>1. PICK r : r = asked[p]
  OBVIOUS
<1>2. CreateKnown(r) /\ Creating(p) /\ Answer(p) /\ askedNo' = askedNo
  BY <1>1 DEF Insert, Pending, EntitiesInv, Knows, UpdateKnown, DeleteKnown, CloseKnown, ChangeKnown,
     Creating
<1>3. CASE rows' = rows
  BY <1>2, <1>3, AnswerMoves, MoveStep
<1>4. CASE rows' # rows
  <2>1. PICK stamp : stamp = IF r.table \in BusinessScoped THEN Actor[r.actor].business ELSE Null
    OBVIOUS
  <2>2. PICK row : row = With(Blank(r.table, stamp, r.no), r.body)
    OBVIOUS
  <2>3. Constraints(r.table, row, r.id) /\ Store(r.id, row)
    BY <1>1, <1>4, <2>1, <2>2, Zenon DEF Insert
  <2>4. DOMAIN r.body = ForeignKeys(r.table) /\ DOMAIN r.body \subseteq Links /\ r.table \in Tables
    BY <1>2, TableFacts DEF CreateKnown, BodyOf
  <2>5. DOMAIN row = Columns /\ row.table = r.table /\ row.business = stamp
    BY <2>2, <2>4 DEF With, Blank, Columns, Links
  <2>6. \A k \in Links : row[k] = IF k \in DOMAIN r.body THEN r.body[k] ELSE Null
    BY <2>2, <2>4 DEF With, Blank, Links
  <2>7. RowSound(rows, row)
    BY <1>2, <2>1, <2>3, <2>4, <2>5, <2>6, WrittenIsSound DEF CreateKnown
  <2>8. QED BY <1>1, <1>2, <2>3, <2>7, StoreStep
<1>5. QED BY <1>3, <1>4


\* A body that keeps the owner, in a row the constraints let through, leaves the owner as it was.
LEMMA OwnerKept ==
  ASSUME NEW t \in Tables, NEW old, NEW new, NEW id, WellOwned(old), old.table = t, new.table = t,
         t # "client_professional_services", new.business = old.business,
         \A k \in {"prof", "room"} : new[k] \in {Null, old[k]},
         t = "schedule_block_services" => new.prof # Null,
         t = "professional_services" => new.prof = old.prof,
         Constraints(t, new, id)
  PROVE  SameOwner(old, new)
<1>1. CASE t = "schedule_blocks"
  BY <1>1 DEF WellOwned, Constraints, SameOwner
<1>2. CASE t = "schedule_exceptions"
  <2>1. \E k \in {"prof", "room", "business"} :
          old[k] # Null /\ \A j \in {"prof", "room", "business"} \ {k} : old[j] = Null
    BY <1>2 DEF WellOwned
  <2>2. \E k \in {"prof", "room", "business"} :
          new[k] # Null /\ \A j \in {"prof", "room", "business"} \ {k} : new[j] = Null
    BY <1>2 DEF Constraints
  <2>3. new.prof \in {Null, old.prof} /\ new.room \in {Null, old.room}
    OBVIOUS
  <2>4. CASE old.business # Null
    BY <2>1, <2>3, <2>4 DEF SameOwner
  <2>5. CASE old.business = Null
    BY <2>1, <2>2, <2>3, <2>5 DEF SameOwner
  <2>6. QED BY <2>4, <2>5
<1>3. CASE t \notin {"schedule_blocks", "schedule_exceptions"}
  <2>1. old.room = Null
    BY <1>3 DEF WellOwned, Links, ForeignKeys
  <2>2. t \notin {"schedule_block_services", "professional_services"} => old.prof = Null
    BY <1>3 DEF WellOwned, Links, ForeignKeys
  <2>3. new.room = Null /\ new.prof = old.prof
    BY <2>1, <2>2
  <2>4. QED BY <2>1, <2>3 DEF SameOwner
<1>4. QED BY <1>1, <1>2, <1>3

LEMMA UpdateStep ==
  ASSUME EntitiesInv, NEW p \in Handlers, UpdateRow(p)
  PROVE  EntitiesInv' /\ Stays
<1>1. PICK r : r = asked[p]
  OBVIOUS
<1>2. UpdateKnown(r) /\ r.at = "write" /\ Answer(p) /\ askedNo' = askedNo
  BY <1>1 DEF UpdateRow, Pending, EntitiesInv, Knows, CreateKnown, DeleteKnown, CloseKnown, ChangeKnown
<1>3. CASE rows' = rows
  BY <1>2, <1>3, AnswerMoves, MoveStep
<1>4. CASE rows' # rows
  <2>1. PICK old : old = rows[r.id]
    OBVIOUS
  <2>2. PICK row : row = [With(old, r.body) EXCEPT !.rev = r.no]
    OBVIOUS
  <2>3. r.id \in DOMAIN rows /\ Constraints(r.table, row, r.id) /\ Store(r.id, row)
    BY <1>1, <1>4, <2>1, <2>2, Zenon DEF UpdateRow
  <2>4. Kept(r.id) /\ Row(r.id) = old /\ RowSound(rows, old) /\ WellOwned(old)
    BY <2>1, <2>3 DEF EntitiesInv, RowsSound, RowSound, Kept, Ids, Row, RowOf
  <2>5. /\ DOMAIN r.body = UpdatableKeys(r.table) /\ DOMAIN r.body \subseteq Links
        /\ r.table \in Tables /\ old.table = r.table /\ DOMAIN old = Columns
    BY <1>2, <2>4, TableFacts DEF UpdateKnown, TargetKnown, BodyOf, WellOwned
  <2>6. DOMAIN row = Columns /\ row.table = r.table /\ row.business = old.business
    BY <2>2, <2>5 DEF With, Columns, Links
  <2>7. \A k \in Links : row[k] = IF k \in DOMAIN r.body THEN r.body[k] ELSE old[k]
    BY <2>2, <2>5 DEF With, Columns, Links
  <2>8. RowSound(rows, row)
    <3>1. CASE UpdatableKeys(r.table) = ForeignKeys(r.table)
      <4>1. \A k \in Links \ ForeignKeys(r.table) : row[k] = Null
        BY <2>4, <2>5, <2>7, <3>1 DEF WellOwned
      <4>2. row.business # Null => r.table \in BusinessScoped \cup {"schedule_exceptions"}
        BY <2>4, <2>5, <2>6 DEF WellOwned
      <4>3. \A k \in ForeignKeys(r.table) : row[k] = r.body[k]
        BY <2>5, <2>7, <3>1
      <4>4. BodyOf(ForeignKeys(r.table), r.table, r.body) /\ Agreed(r.body)
        BY <1>2, <3>1 DEF UpdateKnown
      <4>5. QED BY <2>3, <2>5, <2>6, <4>1, <4>2, <4>3, <4>4, WrittenIsSound
    <3>2. CASE UpdatableKeys(r.table) = {}
      <4>1. \A k \in Links : row[k] = old[k]
        BY <2>5, <2>7, <3>2
      <4>2. row.table = old.table /\ row.business = old.business /\ DOMAIN row = DOMAIN old
        BY <2>5, <2>6
      <4>3. /\ ForeignKeys(old.table) \subseteq Links
            /\ row.prof = old.prof /\ row.room = old.room /\ row.block = old.block
        BY <2>5, <4>1, TableFacts DEF Links
      <4>4. WellOwned(row)
        BY <2>4, <4>1, <4>2, <4>3 DEF WellOwned
      <4>5. QED BY <2>4, <4>1, <4>2, <4>3, <4>4 DEF RowSound
    <3>3. QED BY <3>1, <3>2 DEF UpdatableKeys
  <2>9. SameOwner(old, row)
    <3> SUFFICES ASSUME r.table # "client_professional_services" PROVE SameOwner(old, row)
      BY <2>5, <2>6 DEF SameOwner
    <3>1. \A k \in {"prof", "room"} : row[k] \in {Null, old[k]}
      <4>1. CASE ScheduleGuarded(r.table, "update")
        <5>1. KeepsOwner(r.body, r.id)
          BY <1>2, <2>4, <4>1 DEF UpdateKnown
        <5>2. QED BY <2>4, <2>7, <5>1 DEF KeepsOwner, Links
      <4>2. CASE ~ScheduleGuarded(r.table, "update")
        <5>1. DOMAIN r.body = {}
          BY <2>5, <4>2 DEF ScheduleGuarded, UpdatableKeys, ForeignKeys, Tables
        <5>2. QED BY <2>7, <5>1 DEF Links
      <4>3. QED BY <4>1, <4>2
    <3>2. r.table = "schedule_block_services" => row.prof # Null
      BY <2>6, <2>8 DEF RowSound, WellOwned, ForeignKeys, NullableKeys
    <3>3. r.table = "professional_services" => row.prof = old.prof
      BY <2>5, <2>7 DEF UpdatableKeys, Links
    <3>4. QED BY <2>3, <2>4, <2>5, <2>6, <3>1, <3>2, <3>3, OwnerKept
  <2>10. QED BY <1>2, <2>1, <2>3, <2>8, <2>9, StoreStep
<1>5. QED BY <1>3, <1>4

\* Archiving leaves the rows; what is removed says nowhere whose it is, and takes its offers along.
LEMMA RemoveStep ==
  ASSUME EntitiesInv, NEW p \in Handlers, Remove(p)
  PROVE  EntitiesInv' /\ Stays
<1>1. PICK r : r = asked[p]
  OBVIOUS
<1>2. DeleteKnown(r) /\ Answer(p) /\ askedNo' = askedNo
  BY <1>1 DEF Remove, Pending, EntitiesInv, Knows, CreateKnown, UpdateKnown, CloseKnown, ChangeKnown
<1>3. CASE rows' = rows
  BY <1>2, <1>3, AnswerMoves, MoveStep
<1>4. CASE rows' # rows
  <2>1. PICK left : left = {j \in DOMAIN rows \ {r.id} : rows[j].block # r.id}
    OBVIOUS
  <2>2. Kept(r.id) /\ r.table \notin SoftDeletable /\ rows' = [i \in left |-> rows[i]]
    BY <1>1, <1>4, <2>1 DEF Remove
  <2>3. Row(r.id).table = r.table /\ r.table \notin BusinessScoped
    BY <1>2, <2>2 DEF DeleteKnown, TargetKnown, SoftDeletable
  <2>4. r.id \in DOMAIN rows /\ rows[r.id].table = r.table /\ r.id # Null /\ r.id \notin DOMAIN Lasting
    BY <2>2, <2>3, FirstRowsAssumption, EntitiesAssumption DEF Kept, Ids, Row, RowOf, EntitiesInv, IdsFresh
  <2>5. ASSUME NEW i \in DOMAIN rows \ left PROVE rows[i].table \notin BusinessScoped
    <3>1. CASE i = r.id
      BY <2>3, <2>4, <3>1
    <3>2. CASE rows[i].block = r.id
      <4>1. WellOwned(rows[i])
        BY DEF EntitiesInv, RowsSound, RowSound
      <4>2. rows[i].block # Null
        BY <2>4, <3>2
      <4>3. "block" \in ForeignKeys(rows[i].table)
        BY <4>1, <4>2 DEF WellOwned, Links
      <4>4. QED BY <4>3, TableFacts
    <3>3. QED BY <2>1, <3>1, <3>2
  <2>6. ASSUME NEW i \in left, rows[i].table = "schedule_block_services"
        PROVE  rows[i].block \in left \cup DOMAIN Lasting
    <3>1. PICK o : o = rows[i].block
      OBVIOUS
    <3>2. /\ WellOwned(rows[i]) /\ "block" \in ForeignKeys(rows[i].table) /\ o # Null
          /\ o \in DOMAIN rows \cup DOMAIN Lasting /\ RowOf(rows, o).table = "schedule_blocks"
      <4>1. RowSound(rows, rows[i])
        BY <2>1 DEF EntitiesInv, RowsSound
      <4>2. "block" \in ForeignKeys(rows[i].table) \ NullableKeys(rows[i].table)
        BY <2>6 DEF ForeignKeys, NullableKeys
      <4>3. QED BY <3>1, <4>1, <4>2 DEF RowSound, WellOwned, Target
    <3>3. CASE o \in DOMAIN rows
      <4>1. WellOwned(rows[o]) /\ rows[o].table = "schedule_blocks"
        BY <3>2, <3>3 DEF EntitiesInv, RowsSound, RowSound, RowOf
      <4>2. rows[o].block = Null
        BY <4>1 DEF WellOwned, ForeignKeys, Links
      <4>3. QED BY <2>1, <2>4, <3>1, <3>3, <4>2
    <3>4. QED BY <3>1, <3>2, <3>3
  <2>7. QED BY <1>2, <2>1, <2>2, <2>5, <2>6, DropStep
<1>5. QED BY <1>3, <1>4


LEMMA WriteClosureStep ==
  ASSUME EntitiesInv, NEW p \in Handlers, WriteClosure(p)
  PROVE  EntitiesInv' /\ Stays
<1>1. PICK r : r = asked[p]
  OBVIOUS
<1>2. Answer(p) /\ askedNo' = askedNo /\ r.op \in {"close", "change", "reopen"} /\ Knows(r) /\ r # NoRequest
  BY <1>1 DEF WriteClosure, Pending, EntitiesInv
<1>3. CASE rows' = rows
  BY <1>2, <1>3, AnswerMoves, MoveStep
<1>4. CASE r.op = "close"
  <2>1. PICK row : row = Blank("schedule_exceptions", r.business, r.no)
    OBVIOUS
  <2>2. Store(r.id, row)
    BY <1>1, <1>4, <2>1, Zenon DEF WriteClosure
  <2>3. r.business # Null /\ Creating(p)
    BY <1>1, <1>2, <1>4 DEF Knows, CreateKnown, UpdateKnown, DeleteKnown, CloseKnown, ChangeKnown, Creating
  <2>4. RowSound(rows, row)
    BY <2>1, <2>3 DEF RowSound, WellOwned, Blank, Columns, Links, Tables, ForeignKeys, NullableKeys,
       BusinessScoped
  <2>5. QED BY <1>1, <1>2, <2>2, <2>3, <2>4, StoreStep
<1>5. CASE r.op = "change" /\ rows' # rows
  <2>1. PICK old : old = rows[r.id]
    OBVIOUS
  <2>2. PICK row : row = [old EXCEPT !.rev = r.no]
    OBVIOUS
  <2>3. Closure(r.id) /\ Store(r.id, row)
    BY <1>1, <1>5, <2>1, <2>2, Zenon DEF WriteClosure
  <2>4. r.id \in DOMAIN rows
    BY <2>3, FirstRowsAssumption DEF Closure, Kept, Ids, Row, RowOf, BusinessScoped
  <2>5. RowSound(rows, old) /\ WellOwned(old)
    BY <2>1, <2>4 DEF EntitiesInv, RowsSound, RowSound
  <2>6. /\ DOMAIN row = DOMAIN old /\ row.table = old.table /\ row.business = old.business
        /\ \A k \in Links : row[k] = old[k]
    BY <2>2, <2>5 DEF WellOwned, Columns, Links
  <2>7. /\ ForeignKeys(old.table) \subseteq Links
        /\ row.prof = old.prof /\ row.room = old.room /\ row.block = old.block
    BY <2>5, <2>6, TableFacts DEF WellOwned, Links
  <2>8. WellOwned(row)
    BY <2>5, <2>6, <2>7 DEF WellOwned
  <2>9. RowSound(rows, row)
    BY <2>5, <2>6, <2>7, <2>8 DEF RowSound
  <2>10. SameOwner(old, row)
    BY <2>6, <2>7 DEF SameOwner
  <2>11. QED BY <1>2, <2>1, <2>3, <2>4, <2>9, <2>10, StoreStep
<1>6. CASE r.op = "reopen"
  <2>1. PICK left : left = {j \in DOMAIN rows : j # r.id \/ ~Closure(j)}
    OBVIOUS
  <2>2. rows' = [i \in left |-> rows[i]]
    BY <1>1, <1>6, <2>1 DEF WriteClosure
  <2>3. \A i \in DOMAIN rows \ left : rows[i].table = "schedule_exceptions"
    BY <2>1 DEF Closure, Row, RowOf
  <2>4. ASSUME NEW i \in left, rows[i].table = "schedule_block_services"
        PROVE  rows[i].block \in left \cup DOMAIN Lasting
    <3>1. PICK o : o = rows[i].block
      OBVIOUS
    <3>2. o \in DOMAIN rows \cup DOMAIN Lasting /\ RowOf(rows, o).table = "schedule_blocks"
      <4>1. RowSound(rows, rows[i])
        BY <2>1 DEF EntitiesInv, RowsSound
      <4>2. "block" \in ForeignKeys(rows[i].table) \ NullableKeys(rows[i].table)
        BY <2>4 DEF ForeignKeys, NullableKeys
      <4>3. QED BY <3>1, <4>1, <4>2 DEF RowSound, WellOwned, Target
    <3>3. QED BY <2>3, <3>1, <3>2 DEF RowOf
  <2>5. QED BY <1>2, <2>1, <2>2, <2>3, <2>4, DropStep DEF BusinessScoped
<1>7. QED BY <1>2, <1>3, <1>4, <1>5, <1>6

\* A grant touches no row and no request.
LEMMA IdleStep ==
  ASSUME EntitiesInv, UNCHANGED <<rows, asked, askedNo>>
  PROVE  EntitiesInv' /\ Stays
<1>1. Stays
  BY DEF Stays, Settled, Creating, Kept, Ids, Row, RowOf
<1>2. IdsFresh'
  BY DEF EntitiesInv, IdsFresh, Creating, Kept, Ids
<1>3. ASSUME NEW q \in Handlers PROVE Knows(asked[q])'
  <2>1. PICK x : x = asked[q]
    OBVIOUS
  <2>2. Knows(x)'
    BY <1>1, <2>1, KnowsStays DEF EntitiesInv
  <2>3. QED BY <2>1, <2>2
<1>4. QED BY <1>1, <1>2, <1>3 DEF EntitiesInv

----------------------------------------------------------------------------
(* The invariant holds, and with it what every step leaves *)

LEMMA EntitiesInitInv ==
  ASSUME EntitiesInit
  PROVE  EntitiesInv
<1>1. rows = FirstRows /\ asked = [p \in Handlers |-> NoRequest] /\ askedNo = 0
  BY DEF EntitiesInit
<1>2. RowsSound(rows)
  BY <1>1, FirstRowsAssumption
<1>3. rows = [id \in DOMAIN rows |-> rows[id]]
  BY <1>1, EntitiesAssumption
<1>4. \A p \in Handlers : asked[p] = NoRequest /\ ~Creating(p) /\ Knows(asked[p])
  BY <1>1 DEF Creating, Knows
<1>5. IdsFresh
  BY <1>1, <1>4, EntitiesAssumption DEF IdsFresh, Ids, Kept
<1>6. QED BY <1>1, <1>2, <1>3, <1>4, <1>5 DEF EntitiesInv

LEMMA EntitiesStepInv ==
  ASSUME EntitiesInv, [EntitiesNext]_entityVars
  PROVE  EntitiesInv' /\ Stays
<1>1. ASSUME NEW p \in Handlers, EntitiesStep(p) PROVE EntitiesInv' /\ Stays
  BY <1>1, PostStep, PutStep, AskDeleteStep, AskClosureStep, CheckStep, InsertStep, UpdateStep,
     RemoveStep, WriteClosureStep DEF EntitiesStep
<1>2. CASE GrantCalendar \/ RevokeCalendar \/ UNCHANGED entityVars
  BY <1>2, IdleStep DEF GrantCalendar, RevokeCalendar, entityVars
<1>3. QED BY <1>1, <1>2 DEF EntitiesNext

\* The rows are sound, an id to come is nobody's, and every handler knows what it checked, always.
THEOREM EntitiesInductive == EntitiesSpec => []EntitiesInv
<1>1. EntitiesInit => EntitiesInv
  BY EntitiesInitInv
<1>2. EntitiesInv /\ [EntitiesNext]_entityVars => EntitiesInv'
  BY EntitiesStepInv
<1>3. QED BY <1>1, <1>2, PTL DEF EntitiesSpec

\* Whatever a row refers to belongs to one business, whoever wrote it and whatever changed between
\* the checks of the request (assertRoleCheckedReferences) and its statement.
THEOREM OneTenantPerRow == EntitiesSpec => []RowsStayInOneTenant
<1>1. EntitiesInv => RowsStayInOneTenant
  <2> SUFFICES ASSUME EntitiesInv, NEW id \in DOMAIN rows,
                      NEW b \in {OwnBusiness(rows[id][k]) :
                                   k \in {f \in ForeignKeys(rows[id].table) : rows[id][f] # Null}}
                                \cup ({rows[id].business} \ {Null}),
                      NEW c \in {OwnBusiness(rows[id][k]) :
                                   k \in {f \in ForeignKeys(rows[id].table) : rows[id][f] # Null}}
                                \cup ({rows[id].business} \ {Null})
               PROVE  b = c
    BY DEF RowsStayInOneTenant
  <2>1. PICK row : row = rows[id]
    OBVIOUS
  <2>2. RowSound(rows, row) /\ WellOwned(row)
    BY <2>1 DEF EntitiesInv, RowsSound, RowSound
  <2>3. CASE row.business # Null
    <3>1. \A k \in ForeignKeys(row.table) : row[k] = Null
      <4>1. CASE row.table \in BusinessScoped
        BY <4>1, TableFacts
      <4>2. CASE row.table = "schedule_exceptions"
        BY <2>2, <2>3, <4>2 DEF WellOwned, ForeignKeys
      <4>3. QED BY <2>2, <2>3, <4>1, <4>2 DEF WellOwned
    <3>2. QED BY <2>1, <3>1
  <2>4. CASE row.business = Null
    <3>1. PICK j \in ForeignKeys(row.table) : row[j] # Null /\ b = OwnBusiness(row[j])
      BY <2>1, <2>4
    <3>2. PICK k \in ForeignKeys(row.table) : row[k] # Null /\ c = OwnBusiness(row[k])
      BY <2>1, <2>4
    <3>3. QED BY <2>2, <3>1, <3>2 DEF RowSound, OwnBusiness
  <2>5. QED BY <2>3, <2>4
<1>2. QED BY <1>1, EntitiesInductive, PTL

\* A service is offered in a block that is there, of the professional it is said to be offered by:
\* trg_schedule_block_services_prof_match holds of what is stored, not only when it is written.
THEOREM OffersFollowTheirBlock == EntitiesSpec => []OffersMatchTheirBlock
<1>1. EntitiesInv => OffersMatchTheirBlock
  <2> SUFFICES ASSUME EntitiesInv, NEW id \in DOMAIN rows, rows[id].table = "schedule_block_services"
               PROVE  Kept(rows[id].block) /\ rows[rows[id].block].prof = rows[id].prof
    BY DEF OffersMatchTheirBlock
  <2>1. PICK row : row = rows[id]
    OBVIOUS
  <2>2. RowSound(rows, row)
    BY <2>1 DEF EntitiesInv, RowsSound
  <2>3. "block" \in ForeignKeys(row.table) \ NullableKeys(row.table)
    BY <2>1 DEF ForeignKeys, NullableKeys
  <2>4. Kept(row.block) /\ RowOf(rows, row.block).table = "schedule_blocks"
    BY <2>2, <2>3 DEF RowSound, WellOwned, Target, Kept, Ids
  <2>5. row.block \in DOMAIN rows
    BY <2>4, FirstRowsAssumption DEF Kept, Ids, RowOf, BusinessScoped
  <2>6. QED BY <2>1, <2>2, <2>4, <2>5 DEF RowSound, RowOf
<1>2. QED BY <1>1, EntitiesInductive, PTL

\* No request hands a block, an offer, time off or a service of a professional to another owner:
\* assertScheduleWriteAllowed and the constraints of the tables together, at every step.
THEOREM OwnersStickAlways == EntitiesSpec => OwnersStick
<1> DEFINE Same == \A id \in DOMAIN rows \cap DOMAIN rows':
                     rows[id].table # "client_professional_services" =>
                       \A k \in {"prof", "room", "business"}: rows'[id][k] = rows[id][k]
<1>1. EntitiesInv /\ [EntitiesNext]_entityVars => [Same]_entityVars
  <2> SUFFICES ASSUME EntitiesInv, [EntitiesNext]_entityVars PROVE Same
    OBVIOUS
  <2> SUFFICES ASSUME NEW id \in DOMAIN rows \cap DOMAIN rows',
                      rows[id].table # "client_professional_services",
                      NEW k \in {"prof", "room", "business"}
               PROVE  rows'[id][k] = rows[id][k]
    OBVIOUS
  <2>1. Kept(id) /\ Kept(id)' /\ Row(id) = rows[id] /\ Row(id)' = rows'[id]
    BY DEF Kept, Ids, Row, RowOf
  <2>2. rows'[id] = rows[id] \/ SameOwner(rows[id], rows'[id])
    BY <2>1, EntitiesStepInv, OwnersStay
  <2>3. QED BY <2>2 DEF SameOwner
<1>2. EntitiesSpec => [][Same]_entityVars
  BY <1>1, EntitiesInductive, PTL DEF EntitiesSpec
<1>3. QED BY <1>2 DEF OwnersStick


\* A step of another handler leaves a request where it is.
LEMMA OthersLeaveIt ==
  ASSUME EntitiesInv, NEW p \in Handlers, NEW q \in Handlers, q # p, EntitiesStep(q)
  PROVE  asked'[p] = asked[p]
<1>1. CASE CheckReferences(q) \/ CheckOwner(q) \/ Insert(q) \/ UpdateRow(q) \/ Remove(q) \/ WriteClosure(q)
  <2>1. Proceed(q, "write") \/ Answer(q)
    BY <1>1 DEF CheckReferences, CheckOwner, Insert, UpdateRow, Remove, WriteClosure
  <2>2. QED BY <2>1 DEF Proceed, Answer, EntitiesInv
<1>2. CASE PostRow(q) \/ PutRow(q) \/ DeleteRow(q) \/ PostClosure(q) \/ PutOrDeleteClosure(q)
  <2>1. \E request : Receive(q, request)
    BY <1>2, Zenon DEF PostRow, PutRow, DeleteRow, PostClosure, PutOrDeleteClosure
  <2>2. QED BY <2>1 DEF Receive, EntitiesInv
<1>3. QED BY <1>1, <1>2 DEF EntitiesStep

\* A receptionist changes or removes a block or an offer with the grant in hand: the WHERE of
\* buildUpdateRow and buildDeleteRow, not the check before it, is what holds.
THEOREM GrantsAreInHand == EntitiesSpec => GrantAtWrite
<1> DEFINE Granted == \A p \in Handlers:
                        (/\ Pending(p, "write") /\ asked[p].op \in {"update", "delete"} /\ rows' # rows
                         /\ asked'[p] = NoRequest
                         /\ asked[p].table \in {"schedule_blocks", "schedule_block_services"}
                         /\ Actor[asked[p].actor].role = "Receptionist") =>
                           <<rows[asked[p].id].prof, Actor[asked[p].actor].id>> \in grants
<1>1. EntitiesInv /\ [EntitiesNext]_entityVars => [Granted]_entityVars
  <2> SUFFICES ASSUME EntitiesInv, [EntitiesNext]_entityVars, NEW p \in Handlers,
                      Pending(p, "write"), asked[p].op \in {"update", "delete"}, rows' # rows,
                      asked'[p] = NoRequest,
                      asked[p].table \in {"schedule_blocks", "schedule_block_services"},
                      Actor[asked[p].actor].role = "Receptionist"
               PROVE  <<rows[asked[p].id].prof, Actor[asked[p].actor].id>> \in grants
    BY Zenon
  <2>1. PICK r : r = asked[p]
    OBVIOUS
  <2>2. /\ TargetKnown(r) /\ r # NoRequest /\ r.at = "write" /\ r.op \in {"update", "delete"}
        /\ r.table \in {"schedule_blocks", "schedule_block_services"}
        /\ Actor[r.actor].role = "Receptionist"
    BY <2>1 DEF EntitiesInv, Pending, Knows, CreateKnown, UpdateKnown, DeleteKnown, CloseKnown, ChangeKnown
  <2>3. EntitiesStep(p)
    <3>1. PICK q \in Handlers : EntitiesStep(q)
      BY DEF EntitiesNext, GrantCalendar, RevokeCalendar, entityVars
    <3>2. q = p
      BY <2>1, <2>2, <3>1, OthersLeaveIt
    <3>3. QED BY <3>1, <3>2
  <2>4. UpdateRow(p) \/ Remove(p)
    BY <2>1, <2>2, <2>3 DEF EntitiesStep, PostRow, PutRow, DeleteRow, PostClosure, PutOrDeleteClosure, Free,
       CheckReferences, CheckOwner, Insert, WriteClosure, Pending
  <2>5. Kept(r.id) /\ WriteScope(r.actor, r.table, r.id)
    <3>1. CASE UpdateRow(p)
      <4>1. r.id \in DOMAIN rows /\ WriteScope(r.actor, r.table, r.id)
        BY <2>1, <3>1, Zenon DEF UpdateRow
      <4>2. QED BY <4>1 DEF Kept, Ids
    <3>2. CASE Remove(p)
      BY <2>1, <3>2 DEF Remove
    <3>3. QED BY <2>4, <3>1, <3>2
  <2>6. Row(r.id) = rows[r.id]
    BY <2>2, <2>5, FirstRowsAssumption DEF TargetKnown, Kept, Ids, Row, RowOf, BusinessScoped
  <2>7. QED BY <2>1, <2>2, <2>5, <2>6 DEF WriteScope, OwnedTables
<1>2. EntitiesSpec => [][Granted]_entityVars
  BY <1>1, EntitiesInductive, PTL DEF EntitiesSpec
<1>3. QED BY <1>2 DEF GrantAtWrite

----------------------------------------------------------------------------
(* Settings *)

\* A business starts with no last day, and nothing is under way.
LEMMA SettingsInitInv == SettingsInit => SettingsInv
  BY DEF SettingsInit, SettingsInv, NoPatch, WindowNeverInverted, Inverted

\* Arriving, reading and writing keep the invariant, in whatever order the handlers take turns.
LEMMA SettingsStepInv == SettingsInv /\ [SettingsNext]_settingsVars => SettingsInv'
<1> SUFFICES ASSUME SettingsInv, [SettingsNext]_settingsVars PROVE SettingsInv'
  OBVIOUS
<1>1. CASE UNCHANGED settingsVars
  BY <1>1 DEF settingsVars, SettingsInv, WindowNeverInverted
<1>2. ASSUME NEW p \in Handlers, SettingsArrive(p) PROVE SettingsInv'
  BY <1>2 DEF SettingsArrive, SettingsInv, WindowNeverInverted, Written
<1>3. ASSUME NEW p \in Handlers, SettingsRead(p) PROVE SettingsInv'
  BY <1>3 DEF SettingsRead, SettingsInv, WindowNeverInverted, Written, NoPatch
<1>4. ASSUME NEW p \in Handlers, SettingsWrite(p) PROVE SettingsInv'
  BY <1>4 DEF SettingsWrite, SettingsInv, WindowNeverInverted, Written, NoPatch
<1>5. QED BY <1>1, <1>2, <1>3, <1>4 DEF SettingsNext, SettingsStep

\* However the requests of two admins interleave, the last day of the booking window never
\* comes before its first (PATCH of the business settings).
THEOREM SettingsWindow == SettingsSpec => []WindowNeverInverted
<1>1. SettingsInv => WindowNeverInverted
  BY DEF SettingsInv
<1>2. QED BY <1>1, SettingsInitInv, SettingsStepInv, PTL DEF SettingsSpec
----------------------------------------------------------------------------
(* Operations: files *)

\* A file that does not end its transaction keeps nothing by itself, and leaves all of its work to
\* the COMMIT of the runner, unless it fails.
LEMMA FileFacts ==
  ASSUME NEW f, NEW v
  PROVE  LET s == Executable(Content[<<f, v>>])
         IN /\ ~Escapes(f, v) => KeptWork(s) = {}
            /\ Failing(s) = {} => (Enders(s) = {} <=> ~Escapes(f, v))
            /\ Enders(s) = {} /\ Failing(s) = {} => OpenWork(s) = Work(f, v)
            /\ Failing(s) # {} \/ Enders(s) # {} =>
                 \E i \in DOMAIN Content[<<f, v>>] : Content[<<f, v>>][i] \in {"abort", "fail"}
<1>1. PICK file : file = Content[<<f, v>>]
  OBVIOUS
<1>2. PICK s : s = Executable(file)
  OBVIOUS
<1>3. /\ DOMAIN s = DOMAIN file
      /\ \A i \in DOMAIN file : /\ s[i] # "commit"
                                /\ \A what \in {"work", "abort", "fail"} : s[i] = what <=> file[i] = what
  BY <1>2 DEF Executable
<1>4. \A i \in Enders(s) : i \in DOMAIN file /\ file[i] = "abort"
  BY <1>3 DEF Enders, Reached
<1>5. Escapes(f, v) <=> \E i \in DOMAIN file : file[i] = "abort"
  BY <1>1 DEF Escapes
<1>6. Failing(s) = {} => Enders(s) = {i \in DOMAIN file : file[i] = "abort"}
  BY <1>3 DEF Enders, Reached
<1>7. ~Escapes(f, v) => KeptWork(s) = {}
  BY <1>4, <1>5 DEF KeptWork
<1>8. Failing(s) = {} => (Enders(s) = {} <=> ~Escapes(f, v))
  BY <1>5, <1>6
<1>9. Enders(s) = {} /\ Failing(s) = {} => OpenWork(s) = Work(f, v)
  BY <1>1, <1>3 DEF OpenWork, Work
<1>10. \A i \in Failing(s) : i \in DOMAIN file /\ file[i] = "fail"
  BY <1>3 DEF Failing
<1>11. QED BY <1>1, <1>2, <1>4, <1>7, <1>8, <1>9, <1>10

----------------------------------------------------------------------------
(* Operations: the runners *)

RunFields == {"at", "dir", "file", "applied", "no"}

\* What a runner knows: of the record, all but what it has passed since it read it; of the file at
\* hand, that it is in its directory and not recorded.
RunnerKnows(r) ==
  /\ DOMAIN run[r] = RunFields /\ run[r].dir \in Directories /\ run[r].file \in Nat
  /\ run[r].at \in {"lock", "read", "next", "execute", "record"}
  /\ run[r].at # "lock" => lock = r
  /\ run[r].at \in {"next", "execute", "record"} =>
       /\ run[r].applied \subseteq recorded
       /\ \A m \in recorded : m \in run[r].applied \/ m.file <= run[r].file
  /\ run[r].at \in {"execute", "record"} =>
       /\ run[r].file \in DOMAIN run[r].dir
       /\ \A m \in recorded : m.file # run[r].file
  /\ run[r].at = "record" => Failing(Sent(r)) = {}

OperationsInv ==
  /\ run = [r \in Runners |-> run[r]] /\ ended = [r \in Runners |-> ended[r]]
  /\ \A m \in recorded : m.file \in Nat
  /\ \A r \in Runners : run[r] = NotRunning \/ RunnerKnows(r)
  /\ \A f : RecordIsTrue(f)
  /\ OnlyBadFilesFail

LEMMA RunningFacts ==
  ASSUME OperationsInv, NEW r \in Runners, run[r].at # "stopped" \/ run[r] # NotRunning
  PROVE  RunnerKnows(r) /\ run[r] # NotRunning
  BY DEF OperationsInv, NotRunning, RunnerKnows

\* The other runners know what they knew, if the lock they hold is theirs still and the record they
\* read was not written, which takes the lock.
LEMMA OthersKnow ==
  ASSUME OperationsInv, NEW r \in Runners, NEW q \in Runners, q # r, run[q] # NotRunning,
         run' = [run EXCEPT ![r] = run'[r]], lock' = lock \/ lock \in {Null, r},
         recorded' = recorded \/ lock = r
  PROVE  RunnerKnows(q)'
<1>1. run'[q] = run[q] /\ RunnerKnows(q) /\ Null \notin Runners
  BY OperationsAssumption DEF OperationsInv
<1>2. run[q].at # "lock" => lock = q /\ lock' = lock /\ recorded' = recorded
  BY <1>1 DEF RunnerKnows
<1>3. Sent(q)' = Sent(q)
  BY <1>1 DEF Sent
<1>4. CASE run[q].at = "lock"
  BY <1>1, <1>4 DEF RunnerKnows
<1>5. CASE run[q].at # "lock"
  BY <1>1, <1>2, <1>3, <1>5 DEF RunnerKnows
<1>6. QED BY <1>4, <1>5

\* What was bad stays so: nothing is taken out of the record.
LEMMA BadStays ==
  ASSUME NEW dir, HasBadFile(dir), recorded \subseteq recorded'
  PROVE  HasBadFile(dir)'
  BY DEF HasBadFile

\* A run ends.
LEMMA StopStep ==
  ASSUME OperationsInv, NEW r \in Runners, NEW how, Stop(r, how), recorded' = recorded,
         \A f : RecordIsTrue(f)',
         how = "failed" => HasBadFile(run[r].dir)
  PROVE  OperationsInv'
<1>1. /\ run'[r] = NotRunning /\ run' = [run EXCEPT ![r] = run'[r]]
      /\ run' = [q \in Runners |-> run'[q]] /\ ended' = [q \in Runners |-> ended'[q]]
      /\ ended'[r] = [how |-> how, dir |-> run[r].dir]
      /\ \A q \in Runners \ {r} : ended'[q] = ended[q]
      /\ lock' = lock \/ lock \in {Null, r}
  BY DEF Stop, OperationsInv
<1>2. ASSUME NEW q \in Runners PROVE (run[q] = NotRunning)' \/ RunnerKnows(q)'
  <2>1. CASE q = r
    BY <1>1, <2>1
  <2>2. CASE q # r /\ run[q] = NotRunning
    BY <1>1, <2>2
  <2>3. CASE q # r /\ run[q] # NotRunning
    BY <1>1, <2>3, OthersKnow
  <2>4. QED BY <2>1, <2>2, <2>3
<1>3. ASSUME NEW q \in Runners, ended'[q] # Null, ended'[q].how = "failed"
      PROVE  HasBadFile(ended[q].dir)'
  <2>1. PICK dir : dir = ended'[q].dir
    OBVIOUS
  <2>2. HasBadFile(dir)
    BY <1>1, <1>3, <2>1 DEF OperationsInv, OnlyBadFilesFail
  <2>3. HasBadFile(dir)'
    BY <2>2, BadStays
  <2>4. QED BY <2>1, <2>3 DEF HasBadFile
<1>4. OnlyBadFilesFail'
  BY <1>3 DEF OnlyBadFilesFail
<1>5. QED BY <1>1, <1>2, <1>4 DEF OperationsInv

\* A run goes on.
LEMMA GoOnStep ==
  ASSUME OperationsInv, NEW r \in Runners, run' = [run EXCEPT ![r] = run'[r]], RunnerKnows(r)',
         ended' = ended, \A f : RecordIsTrue(f)', recorded \subseteq recorded',
         \A m \in recorded' : m.file \in Nat,
         lock' = lock \/ lock \in {Null, r}, recorded' = recorded \/ lock = r
  PROVE  OperationsInv'
<1>1. run' = [q \in Runners |-> run'[q]]
  BY DEF OperationsInv
<1>2. ASSUME NEW q \in Runners PROVE (run[q] = NotRunning)' \/ RunnerKnows(q)'
  <2>1. CASE q = r
    BY <2>1
  <2>2. CASE q # r /\ run[q] = NotRunning
    BY <2>2 DEF OperationsInv
  <2>3. CASE q # r /\ run[q] # NotRunning
    BY <2>3, OthersKnow
  <2>4. QED BY <2>1, <2>2, <2>3
<1>3. OnlyBadFilesFail'
  <2>1. ASSUME NEW q \in Runners, ended[q] # Null, ended[q].how = "failed"
        PROVE  HasBadFile(ended[q].dir)'
    <3>1. PICK dir : dir = ended[q].dir
      OBVIOUS
    <3>2. HasBadFile(dir)'
      BY <2>1, <3>1, BadStays DEF OperationsInv, OnlyBadFilesFail
    <3>3. QED BY <3>1, <3>2 DEF HasBadFile
  <2>2. QED BY <2>1 DEF OnlyBadFilesFail
<1>4. QED BY <1>1, <1>2, <1>3 DEF OperationsInv

\* The record of a file is not touched, nor what the schema holds of one that does not escape.
LEMMA RecordStays ==
  ASSUME NEW f, RecordIsTrue(f),
         \A m : m \in recorded' /\ m.file = f <=> m \in recorded /\ m.file = f,
         \A e : ~Escapes(f, e.version) /\ e.file = f => (e \in schema' <=> e \in schema)
  PROVE  RecordIsTrue(f)'
<1>1. {e \in schema' : e.file = f /\ ~Escapes(f, e.version)} =
      {e \in schema : e.file = f /\ ~Escapes(f, e.version)}
  OBVIOUS
<1>2. {m \in recorded' : m.file = f} = {m \in recorded : m.file = f}
  OBVIOUS
<1>3. QED BY <1>1, <1>2, Zenon DEF RecordIsTrue


LEMMA AllRecordsStay ==
  ASSUME OperationsInv, schema' = schema, recorded' = recorded
  PROVE  \A f : RecordIsTrue(f)'
<1>1. ASSUME NEW f PROVE RecordIsTrue(f)'
  <2>1. RecordIsTrue(f)
    BY DEF OperationsInv
  <2>2. QED BY <2>1, RecordStays
<1>2. QED BY <1>1

----------------------------------------------------------------------------
(* Operations: one lemma for each step *)

LEMMA StartStep ==
  ASSUME OperationsInv, NEW r \in Runners, Start(r)
  PROVE  OperationsInv'
<1>1. PICK d \in Directories :
        run' = [run EXCEPT ![r] = [at |-> "lock", dir |-> d, file |-> 0, applied |-> {}, no |-> runs + 1]]
  BY DEF Start
<1>2. PICK new : new = [at |-> "lock", dir |-> d, file |-> 0, applied |-> {}, no |-> runs + 1]
  OBVIOUS
<1>3. run'[r] = new /\ run' = [run EXCEPT ![r] = run'[r]]
  BY <1>1, <1>2 DEF OperationsInv
<1>4. /\ DOMAIN new = RunFields /\ new.dir = d /\ new.file = 0 /\ new.at = "lock"
  BY <1>2 DEF RunFields
<1>5. RunnerKnows(r)'
  BY <1>3, <1>4 DEF RunnerKnows
<1>6. QED BY <1>3, <1>5, AllRecordsStay, GoOnStep DEF Start, OperationsInv

LEMMA LockStep ==
  ASSUME OperationsInv, NEW r \in Runners, TakeLock(r)
  PROVE  OperationsInv'
<1>1. RunnerKnows(r) /\ run[r].at = "lock" /\ lock = Null /\ lock' = r
  BY RunningFacts DEF TakeLock, Running, Lockable
<1>2. run'[r] = [run[r] EXCEPT !.at = "read"] /\ run' = [run EXCEPT ![r] = run'[r]]
  BY DEF TakeLock, Advance, OperationsInv
<1>3. RunnerKnows(r)'
  BY <1>1, <1>2 DEF RunnerKnows, RunFields
<1>4. QED BY <1>1, <1>2, <1>3, AllRecordsStay, GoOnStep DEF TakeLock, OperationsInv

LEMMA ReadStep ==
  ASSUME OperationsInv, NEW r \in Runners, ReadRecord(r)
  PROVE  OperationsInv'
<1>1. RunnerKnows(r) /\ run[r].at = "read"
  BY RunningFacts DEF ReadRecord, Running
<1>2. PICK new : new = [[run[r] EXCEPT !.applied = recorded] EXCEPT !.at = "next"]
  OBVIOUS
<1>3. run'[r] = new /\ run' = [run EXCEPT ![r] = run'[r]]
  BY <1>2 DEF ReadRecord, OperationsInv
<1>4. RunnerKnows(r)'
  <2>1. /\ DOMAIN new = RunFields /\ new.dir = run[r].dir /\ new.file = run[r].file
        /\ new.applied = recorded /\ new.at = "next"
    BY <1>1, <1>2 DEF RunnerKnows, RunFields
  <2>2. UNCHANGED <<lock, recorded>>
    BY DEF ReadRecord
  <2>3. QED BY <1>1, <1>3, <2>1, <2>2 DEF RunnerKnows
<1>5. QED BY <1>3, <1>4, AllRecordsStay, GoOnStep DEF ReadRecord, OperationsInv

\* A recorded file of another version ends the run; one that is not in the copy of the record is not
\* in the record.
LEMMA NextStep ==
  ASSUME OperationsInv, NEW r \in Runners, NextFile(r)
  PROVE  OperationsInv'
<1>1. RunnerKnows(r) /\ run[r].at = "next"
  BY RunningFacts DEF NextFile, Running
<1>2. CASE Stop(r, "applied")
  BY <1>2, AllRecordsStay, StopStep DEF NextFile
<1>3. CASE ~Stop(r, "applied")
  <2>1. PICK f \in Left(r) :
          LET known == {m \in run[r].applied : m.file = f}
          IN IF \E m \in known : m.version # run[r].dir[f]
             THEN Stop(r, "failed")
             ELSE /\ run' = [run EXCEPT ![r].file = f,
                                        ![r].at = IF known = {} THEN "execute" ELSE "next"]
                  /\ UNCHANGED <<ended, lock>>
    BY <1>3 DEF NextFile
  <2>2. f \in DOMAIN run[r].dir /\ f \in Nat /\ f > run[r].file
    BY <1>1, OperationsAssumption DEF Left, RunnerKnows
  <2>3. PICK known : known = {m \in run[r].applied : m.file = f}
    OBVIOUS
  <2>4. CASE \E m \in known : m.version # run[r].dir[f]
    <3>1. HasBadFile(run[r].dir)
      BY <1>1, <2>2, <2>3, <2>4 DEF HasBadFile, RunnerKnows
    <3>2. QED BY <2>1, <2>3, <2>4, <3>1, AllRecordsStay, StopStep DEF NextFile
  <2>5. CASE ~\E m \in known : m.version # run[r].dir[f]
    <3>1. PICK at : at = IF known = {} THEN "execute" ELSE "next"
      OBVIOUS
    <3>2. run' = [run EXCEPT ![r].file = f, ![r].at = at] /\ UNCHANGED <<ended, lock, recorded>>
      BY <2>1, <2>3, <2>5, <3>1 DEF NextFile
    <3>3. PICK new : new = [[run[r] EXCEPT !.file = f] EXCEPT !.at = at]
      OBVIOUS
    <3>4. run'[r] = new /\ run' = [run EXCEPT ![r] = run'[r]]
      BY <3>2, <3>3 DEF OperationsInv
    <3>5. /\ DOMAIN new = RunFields /\ new.dir = run[r].dir /\ new.file = f /\ new.at = at
          /\ new.applied = run[r].applied
      BY <1>1, <3>3 DEF RunnerKnows, RunFields
    <3>6. \A m \in recorded : m.file \in Nat /\ (m \in run[r].applied \/ m.file <= run[r].file)
      BY <1>1 DEF OperationsInv, RunnerKnows
    <3>7. run[r].file \in Nat /\ lock = r /\ run[r].dir \in Directories /\ run[r].applied \subseteq recorded
      BY <1>1 DEF RunnerKnows
    <3>8. \A m \in recorded : m \in run[r].applied \/ m.file <= f
      BY <2>2, <3>6, <3>7
    <3>9. at = "execute" => \A m \in recorded : m.file # f
      BY <2>2, <2>3, <3>1, <3>6, <3>7
    <3>10. RunnerKnows(r)'
      <4>1. PICK n : n = run'[r]
        OBVIOUS
      <4>2. /\ DOMAIN n = RunFields /\ n.dir \in Directories /\ n.file \in Nat
            /\ n.at \in {"execute", "next"} /\ lock' = r /\ recorded' = recorded
            /\ n.applied \subseteq recorded /\ \A m \in recorded : m \in n.applied \/ m.file <= n.file
        BY <2>2, <3>1, <3>2, <3>4, <3>5, <3>7, <3>8, <4>1
      <4>3. n.at = "execute" => n.file \in DOMAIN n.dir /\ \A m \in recorded : m.file # n.file
        BY <2>2, <3>4, <3>5, <3>9, <4>1
      <4>4. QED BY <4>1, <4>2, <4>3 DEF RunnerKnows
    <3>11. QED BY <3>2, <3>4, <3>10, AllRecordsStay, GoOnStep DEF NextFile, OperationsInv
  <2>6. QED BY <2>4, <2>5
<1>4. QED BY <1>2, <1>3

\* What the query keeps by itself is of a file that escapes.
LEMMA ExecuteStep ==
  ASSUME OperationsInv, NEW r \in Runners, Execute(r)
  PROVE  OperationsInv'
<1>1. RunnerKnows(r) /\ run[r].at = "execute" /\ recorded' = recorded
  BY RunningFacts DEF Execute, Running
<1>2. PICK v : v = run[r].dir[run[r].file]
  OBVIOUS
<1>3. Sent(r) = Executable(Content[<<run[r].file, v>>]) /\ run[r].file \in DOMAIN run[r].dir
  BY <1>1, <1>2 DEF Sent, RunnerKnows
<1>4. ASSUME NEW f PROVE RecordIsTrue(f)'
  <2>1. \A e \in Effects(r, KeptWork(Sent(r))) : e.file = run[r].file /\ e.version = v
    BY <1>2 DEF Effects
  <2>2. ~Escapes(run[r].file, v) => Effects(r, KeptWork(Sent(r))) = {}
    BY <1>3, FileFacts DEF Effects
  <2>3. \A e : ~Escapes(f, e.version) /\ e.file = f => (e \in schema' <=> e \in schema)
    BY <2>1, <2>2 DEF Execute
  <2>4. QED BY <1>1, <2>3, RecordStays DEF OperationsInv
<1>5. CASE Failing(Sent(r)) # {}
  <2>1. \E i \in DOMAIN Content[<<run[r].file, v>>] : Content[<<run[r].file, v>>][i] \in {"abort", "fail"}
    BY <1>3, <1>5, FileFacts
  <2>2. HasBadFile(run[r].dir)
    BY <1>2, <1>3, <2>1 DEF HasBadFile
  <2>3. QED BY <1>1, <1>4, <1>5, <2>2, StopStep DEF Execute
<1>6. CASE Failing(Sent(r)) = {}
  <2>1. run'[r] = [run[r] EXCEPT !.at = "record"] /\ run' = [run EXCEPT ![r] = run'[r]]
    BY <1>6 DEF Execute, Advance, OperationsInv
  <2>2. /\ DOMAIN run'[r] = RunFields /\ run'[r].dir = run[r].dir /\ run'[r].file = run[r].file
        /\ run'[r].applied = run[r].applied /\ run'[r].at = "record"
    BY <1>1, <2>1 DEF RunnerKnows, RunFields
  <2>3. Sent(r)' = Sent(r)
    BY <2>2 DEF Sent
  <2>4. RunnerKnows(r)'
    BY <1>1, <1>6, <2>2, <2>3 DEF RunnerKnows, Execute
  <2>5. QED BY <1>1, <1>4, <1>6, <2>1, <2>4, GoOnStep DEF Execute, OperationsInv
<1>7. QED BY <1>5, <1>6

\* The row of a file and its work are committed together, and the file has no row before.
LEMMA RecordStep ==
  ASSUME OperationsInv, NEW r \in Runners, Record(r)
  PROVE  OperationsInv'
<1>1. RunnerKnows(r) /\ run[r].at = "record" /\ \A m \in recorded : m.file # run[r].file
  BY RunningFacts DEF Record, Running, RunnerKnows
<1>2. PICK v : v = run[r].dir[run[r].file]
  OBVIOUS
<1>3. PICK file : file = run[r].file
  OBVIOUS
<1>4. /\ Sent(r) = Executable(Content[<<file, v>>]) /\ file \in DOMAIN run[r].dir /\ file \in Nat
      /\ Failing(Sent(r)) = {}
  BY <1>1, <1>2, <1>3 DEF Sent, RunnerKnows
<1>5. CASE Enders(Sent(r)) # {}
  <2>1. \E i \in DOMAIN Content[<<file, v>>] : Content[<<file, v>>][i] \in {"abort", "fail"}
    BY <1>4, <1>5, FileFacts
  <2>2. HasBadFile(run[r].dir)
    BY <1>2, <1>3, <1>4, <2>1 DEF HasBadFile
  <2>3. QED BY <1>5, <2>2, AllRecordsStay, StopStep DEF Record
<1>6. CASE Enders(Sent(r)) = {}
  <2>1. PICK row : row = [file |-> file, version |-> v]
    OBVIOUS
  <2>2. PICK work : work = Effects(r, OpenWork(Sent(r)))
    OBVIOUS
  <2>3. schema' = schema \cup work /\ recorded' = recorded \cup {row} /\ UNCHANGED <<ended, lock>>
    BY <1>1, <1>2, <1>3, <1>6, <2>1, <2>2 DEF Record
  <2>4. ~Escapes(file, v) /\ work = Effects(r, Work(file, v))
    BY <1>4, <1>6, <2>2, FileFacts
  <2>5. \A e \in work : e.file = file /\ e.version = v /\ e.statement \in Work(file, v)
    BY <1>2, <1>3, <2>4 DEF Effects
  <2>6. ASSUME NEW i \in Work(file, v) PROVE \E e \in work : e.statement = i
    <3>1. PICK e : e = [file |-> file, version |-> v, statement |-> i, by |-> run[r].no]
      OBVIOUS
    <3>2. e \in work
      BY <1>2, <1>3, <2>4, <3>1 DEF Effects
    <3>3. QED BY <3>1, <3>2
  <2>7. \A d, e \in work : d.statement = e.statement => d = e
    BY <2>4 DEF Effects
  <2>8. ASSUME NEW f PROVE RecordIsTrue(f)'
    <3>1. RecordIsTrue(f)
      BY DEF OperationsInv
    <3>2. CASE f # file
      <4>1. \A e : ~Escapes(f, e.version) /\ e.file = f => (e \in schema' <=> e \in schema)
        BY <2>3, <2>5, <3>2
      <4>2. \A m : m \in recorded' /\ m.file = f <=> m \in recorded /\ m.file = f
        BY <2>1, <2>3, <3>2
      <4>3. QED BY <3>1, <4>1, <4>2, RecordStays
    <3>3. CASE f = file
      <4>1. {m \in recorded : m.file = file} = {}
        BY <1>1, <1>3
      <4>2. {e \in schema : e.file = file /\ ~Escapes(file, e.version)} = {}
        BY <3>1, <3>3, <4>1, Zenon DEF RecordIsTrue
      <4>3. {m \in recorded' : m.file = file} = {row}
        BY <2>1, <2>3, <4>1
      <4>4. {e \in schema' : e.file = file /\ ~Escapes(file, e.version)} = work
        BY <2>3, <2>4, <2>5, <4>2
      <4>5. {e.statement : e \in work} = Work(file, v)
        BY <2>5, <2>6
      <4>6. QED BY <2>1, <2>4, <2>5, <2>7, <3>3, <4>3, <4>4, <4>5 DEF RecordIsTrue
    <3>4. QED BY <3>2, <3>3
  <2>9. run'[r] = [run[r] EXCEPT !.at = "next"] /\ run' = [run EXCEPT ![r] = run'[r]]
    BY <1>1, <1>6 DEF Record, Advance, OperationsInv
  <2>10. /\ DOMAIN run'[r] = RunFields /\ run'[r].dir = run[r].dir /\ run'[r].file = file
         /\ run'[r].applied = run[r].applied /\ run'[r].at = "next"
    BY <1>1, <1>3, <2>9 DEF RunnerKnows, RunFields
  <2>11. row.file = file
    BY <2>1
  <2>12. RunnerKnows(r)'
    BY <1>1, <1>3, <1>4, <2>3, <2>10, <2>11 DEF RunnerKnows
  <2>13. /\ \A m \in recorded' : m.file \in Nat
         /\ lock = r
    BY <1>1, <1>4, <2>3, <2>11 DEF OperationsInv, RunnerKnows
  <2>14. QED BY <2>3, <2>8, <2>9, <2>12, <2>13, GoOnStep
<1>7. QED BY <1>5, <1>6

LEMMA OperationsInitInv ==
  ASSUME OperationsInit
  PROVE  OperationsInv
  BY DEF OperationsInit, OperationsInv, RecordIsTrue, OnlyBadFilesFail

LEMMA OperationsStepInv ==
  ASSUME OperationsInv, [OperationsNext]_operationVars
  PROVE  OperationsInv'
<1>1. CASE UNCHANGED operationVars
  <2>1. \A f : RecordIsTrue(f)'
    BY <1>1, AllRecordsStay DEF operationVars
  <2>2. \A r \in Runners : RunnerKnows(r) => RunnerKnows(r)'
    BY <1>1 DEF operationVars, RunnerKnows, Sent
  <2>3. OnlyBadFilesFail'
    BY <1>1 DEF operationVars, OperationsInv, OnlyBadFilesFail, HasBadFile
  <2>4. QED BY <1>1, <2>1, <2>2, <2>3 DEF operationVars, OperationsInv
<1>2. ASSUME NEW r \in Runners, Die(r) PROVE OperationsInv'
  BY <1>2, AllRecordsStay, StopStep DEF Die
<1>3. QED BY <1>1, <1>2, StartStep, LockStep, ReadStep, NextStep, ExecuteStep, RecordStep
  DEF OperationsNext, OperationsStep

\* Who has read the record holds the lock, and of every file the schema holds what the record says.
THEOREM OperationsInductive == OperationsSpec => []OperationsInv
<1>1. QED BY OperationsInitInv, OperationsStepInv, PTL DEF OperationsSpec

\* However many deployments run the migrations, at once, again, or cut off anywhere (runMigrations),
\* the schema holds the work of the recorded files, whole and once, and no run fails but over a file
\* of its own directory.
THEOREM DeploymentsAgreeAlways == OperationsSpec => []DeploymentsAgree
<1>1. OperationsInv => DeploymentsAgree
  BY DEF OperationsInv, DeploymentsAgree, SchemaIsTheRecord
<1>2. QED BY <1>1, OperationsInductive, PTL

=============================================================================
