--------------------------------- MODULE Desk ---------------------------------
(***************************************************************************)
(* One appointment and the ledger: charges, payments and adjustments are   *)
(* posted by hand, completing the appointment posts the session charge,    *)
(* and meanwhile it is edited, transitioned and its calendar granted to or *)
(* taken from receptionists.                                               *)
(*                                                                         *)
(* Postgres runs READ COMMITTED: a statement sees what other transactions  *)
(* have committed.  What a handler has written and not committed is kept   *)
(* with the handler.  The row lock of an UPDATE and the wait for another's *)
(* uncommitted key in a unique index are modelled; any statement may fail. *)
(*                                                                         *)
(* The appointment has started and its price stays; Booking has the clock  *)
(* and the moves of the appointment.                                       *)
(***************************************************************************)
EXTENDS Server, AppointmentTypes

CONSTANTS
  Clients,     \* ids of users whose role is Client
  Owner,       \* the client of the appointment
  Pro,         \* its professional
  RoleOf,      \* the role of every member of Staff
  Known,       \* <<professional, client>> pairs with an appointment between them
  LedgerRequests,   \* the entries asked for, and whether with an amount
  DeskMenus,   \* the kinds of request that arrive together
  MaxCalls     \* bound of the model

Unlocked == "unlocked"

\* The appointment as far as these requests write it: its state, and the request that wrote the
\* state (moved) and each other field last.
DeskRow == [state: AppointmentStates, moved: Nat, name: Nat, note: Nat, ignored: Nat]

ASSUME DeskAssumption ==
  /\ Unlocked \notin Handlers /\ Null \notin DeskRow
  /\ Owner \in Clients /\ Pro \in Staff /\ RoleOf[Pro] = "Professional"
  /\ <<Pro, Owner>> \in Known
  /\ \A e \in LedgerRequests:
       /\ e.client \in Clients /\ {e.linked, e.priced} \subseteq BOOLEAN
       /\ e.type \in {"charge", "payment", "adjustment_debit", "adjustment_credit"}
       /\ e.description \in {Null, "blank", "text"}
  /\ MaxCalls \in Nat

VARIABLES
  desk,      \* the row of appointments: its state, and the last writer of each field
  ledger,    \* ledger_entries
  trail,     \* audit_events: the table each is about, and the request that wrote it
  granted,   \* the receptionists with a grant on the professional's calendar
  rowLock,   \* the handler that updated the row and has not committed
  work,      \* what each handler was asked, has read and has written
  served,    \* requests so far
  deskMenu,  \* the kinds of request that arrive
  sent       \* ghost: the last committed request that sent each field

deskVars == <<desk, ledger, trail, granted, rowLock, work, served, deskMenu, sent>>

NoWork == [kind |-> "none"]
Fields == {"name", "note"}

----------------------------------------------------------------------------
(* The ledger *)

ReceptionistLinkedTypes == {"charge", "payment"}

Entry(id, asked) ==
  [id |-> id, client |-> asked.client, linked |-> asked.linked, type |-> asked.type,
   description |-> asked.description]

SessionCharge == [client |-> Owner, linked |-> TRUE, type |-> "charge", description |-> Null]

Charges(rows) == {e \in rows: e.linked /\ e.type = "charge"}

\* The key of the partial unique index.
SessionCharges(rows) == {e \in Charges(rows): e.description = Null}

\* Some other transaction holds the key and has not ended.
KeyPending(p) ==
  \E q \in Handlers \ {p}: work[q] # NoWork /\ SessionCharges(work[q].posted) # {}

Void == {"canceled", "rejected"}

GranteeActs(actor, client) == actor \in granted /\ client = Owner
GranteeReads(actor, client) == GranteeActs(actor, client) /\ desk.state \notin Void

\* assertLedgerWriteAllowed
LedgerWriteAllowed(actor, e) ==
  CASE RoleOf[actor] = "Admin" -> TRUE
    [] RoleOf[actor] = "Professional" -> <<actor, e.client>> \in Known
    [] OTHER -> IF e.type \in ReceptionistLinkedTypes
                THEN e.linked /\ GranteeActs(actor, e.client)
                ELSE GranteeReads(actor, e.client)

\* assertAppointmentActionAllowed
ActionAllowed(actor) ==
  CASE RoleOf[actor] = "Admin" -> TRUE
    [] RoleOf[actor] = "Professional" -> actor = Pro
    [] OTHER -> actor \in granted

----------------------------------------------------------------------------
(* One request *)

Working(p, kinds, step) == work[p].kind \in kinds /\ work[p].at = step
Step(p, step) == work' = [work EXCEPT ![p].at = step]

\* The audit rows of a request: of its entry of the ledger, of its write of the appointment.
Audited(table, id) == [table |-> table, id |-> id]
AuditOf(c) == Audited(IF c.kind = "ledger" THEN "ledger_entries" ELSE "appointments", c.id)
ChargeAuditOf(c) == Audited("ledger_entries", c.id)

\* A request that has just been asked for: what every request has, and what this one has of its own.
Asking(c, own) == [f \in DOMAIN c \cup DOMAIN own |-> IF f \in DOMAIN c THEN c[f] ELSE own[f]]

Accept(p, kind, step, own) ==
  /\ work[p] = NoWork /\ kind \in deskMenu /\ served < MaxCalls
  /\ served' = served + 1
  /\ work' = [work EXCEPT ![p] =
       Asking([kind |-> kind, at |-> step, id |-> served + 1, posted |-> {}, notes |-> {},
               new |-> Null], own)]

\* The transaction rolls back, or there was none.
Drop(p) ==
  /\ work' = [work EXCEPT ![p] = NoWork]
  /\ rowLock' = IF rowLock = p THEN Unlocked ELSE rowLock

(* POST /ledger: the transaction starts with assertLedgerWriteAllowed, and ends there if refused *)
LedgerCheck(p) ==
  /\ \E actor \in Staff, asked \in LedgerRequests:
       LET e == Entry(served + 1, asked)
       IN /\ LedgerWriteAllowed(actor, e)
          /\ Accept(p, "ledger", "count", [entry |-> e, priced |-> asked.priced])
  /\ UNCHANGED <<desk, ledger, trail, granted, rowLock, deskMenu, sent>>

\* A second charge needs a description.  An amount left out is the price of the appointment, which
\* must be the client's own.
LedgerCount(p) ==
  /\ Working(p, {"ledger"}, "count")
  /\ LET e == work[p].entry
         explained == (Charges({e}) # {} /\ e.description # "text") => Charges(ledger) = {}
         amount == work[p].priced \/ (Charges({e}) # {} /\ e.client = Owner)
     IN IF explained /\ amount THEN Step(p, "insert") /\ UNCHANGED rowLock ELSE Drop(p)
  /\ UNCHANGED <<desk, ledger, trail, granted, served, deskMenu, sent>>

LedgerInsert(p) ==
  /\ Working(p, {"ledger"}, "insert")
  /\ LET e == work[p].entry
         key == SessionCharges({e}) # {}
     IN /\ key => ~KeyPending(p)
        /\ IF key /\ SessionCharges(ledger) # {}
           THEN Drop(p)
           ELSE /\ work' = [work EXCEPT ![p].posted = {e}, ![p].at = "audit"]
                /\ UNCHANGED rowLock
  /\ UNCHANGED <<desk, ledger, trail, granted, served, deskMenu, sent>>

(* POST /appointments/:id/transition: the row is read from the pool *)
TransitionLoad(p) ==
  /\ \E actor \in Staff \cup Clients, to \in {"completed", "canceled", "no_show"}:
       /\ ValidTransition(desk.state, to)
       /\ actor \in Clients => actor = Owner /\ to = "canceled" /\ desk.state = "requested"
       /\ Accept(p, "transition", IF actor \in Clients THEN "update" ELSE "authorize",
                 [actor |-> actor, to |-> to])
  /\ UNCHANGED <<desk, ledger, trail, granted, rowLock, deskMenu, sent>>

(* PATCH /appointments/:id *)
PatchLoad(p) ==
  /\ \E actor \in Staff, fields \in SUBSET Fields \ {{}}:
       /\ desk.state \in TerminalStates => "name" \notin fields
       /\ Accept(p, "patch", "authorize", [actor |-> actor, fields |-> fields, seen |-> [f \in Fields |-> desk[f]]])
  /\ UNCHANGED <<desk, ledger, trail, granted, rowLock, deskMenu, sent>>

(* POST /appointments/:id/ignore-conflict *)
IgnoreLoad(p) ==
  /\ \E actor \in Staff:
       Accept(p, "ignore", "authorize", [actor |-> actor])
  /\ UNCHANGED <<desk, ledger, trail, granted, rowLock, deskMenu, sent>>

Authorize(p) ==
  /\ Working(p, {"transition", "patch", "ignore"}, "authorize")
  /\ IF ActionAllowed(work[p].actor) THEN Step(p, "update") /\ UNCHANGED rowLock ELSE Drop(p)
  /\ UNCHANGED <<desk, ledger, trail, granted, served, deskMenu, sent>>

\* Mutant: an edit writes back every field of the row it read.
Updated_WholeRow(c, row) ==
  CASE c.kind = "transition" -> [row EXCEPT !.state = c.to, !.moved = c.id]
    [] c.kind = "patch" -> [f \in DOMAIN row |->
                              IF f \in c.fields THEN c.id
                              ELSE IF f \in Fields THEN c.seen[f] ELSE row[f]]
    [] OTHER -> [row EXCEPT !.ignored = c.id]

\* An UPDATE sets the columns it was sent and leaves the others.
Updated(c, row) ==
  CASE c.kind = "transition" -> [row EXCEPT !.state = c.to, !.moved = c.id]
    [] c.kind = "patch" -> [f \in DOMAIN row |-> IF f \in c.fields THEN c.id ELSE row[f]]
    [] OTHER -> [row EXCEPT !.ignored = c.id]

Update(p) ==
  /\ Working(p, {"transition", "patch", "ignore"}, "update")
  /\ rowLock = Unlocked
  /\ LET row == Updated(work[p], desk)
     IN IF TriggerAllows(desk.state, row.state)
        THEN /\ work' = [work EXCEPT ![p].new = row, ![p].at = "audit"]
             /\ rowLock' = p
        ELSE Drop(p)
  /\ UNCHANGED <<desk, ledger, trail, granted, served, deskMenu, sent>>

AfterAudit(c) == IF c.kind = "transition" /\ c.to = "completed" THEN "bill" ELSE "commit"

\* Mutant: a failed audit is logged and the transaction goes on.
Audit_BestEffort(p) ==
  /\ work[p] # NoWork /\ work[p].at = "audit"
  /\ \E rows \in {{}, {AuditOf(work[p])}}:
       work' = [work EXCEPT ![p].notes = rows, ![p].at = AfterAudit(work[p])]
  /\ UNCHANGED <<desk, ledger, trail, granted, rowLock, served, deskMenu, sent>>

Audit(p) ==
  /\ work[p] # NoWork /\ work[p].at = "audit"
  /\ work' = [work EXCEPT ![p].notes = {AuditOf(work[p])}, ![p].at = AfterAudit(work[p])]
  /\ UNCHANGED <<desk, ledger, trail, granted, rowLock, served, deskMenu, sent>>

\* Mutant: any charge counts as the session charge.
Billed_AnyCharge(rows) == Charges(rows) # {}

Billed(rows) == SessionCharges(rows) # {}

\* INSERT ... WHERE NOT EXISTS: the subquery sees what is committed, the index waits for the rest.
Bill(p) ==
  /\ Working(p, {"transition"}, "bill")
  /\ Step(p, IF Billed(ledger) THEN "commit" ELSE "post")
  /\ UNCHANGED <<desk, ledger, trail, granted, rowLock, served, deskMenu, sent>>

PostCharge(p) ==
  /\ Working(p, {"transition"}, "post")
  /\ ~KeyPending(p)
  /\ IF SessionCharges(ledger) # {}
     THEN Drop(p)
     ELSE /\ work' = [work EXCEPT ![p].posted = {Entry(work[p].id, SessionCharge)},
                                  ![p].at = "auditCharge"]
          /\ UNCHANGED rowLock
  /\ UNCHANGED <<desk, ledger, trail, granted, served, deskMenu, sent>>

\* Mutant: the row of the transition counts for its charge.
AuditCharge_Shared(p) ==
  /\ Working(p, {"transition"}, "auditCharge")
  /\ Step(p, "commit")
  /\ UNCHANGED <<desk, ledger, trail, granted, rowLock, served, deskMenu, sent>>

\* A charge that was posted has an audit row of its own, beside the one of the transition.
AuditCharge(p) ==
  /\ Working(p, {"transition"}, "auditCharge")
  /\ work' = [work EXCEPT ![p].notes = @ \cup {ChargeAuditOf(work[p])}, ![p].at = "commit"]
  /\ UNCHANGED <<desk, ledger, trail, granted, rowLock, served, deskMenu, sent>>

Commit(p) ==
  /\ work[p] # NoWork /\ work[p].at = "commit"
  /\ LET c == work[p]
     IN /\ desk' = IF c.new = Null THEN desk ELSE c.new
        /\ ledger' = ledger \cup c.posted
        /\ trail' = trail \cup c.notes
        /\ sent' = IF c.kind = "patch"
                   THEN [f \in Fields |-> IF f \in c.fields THEN c.id ELSE sent[f]] ELSE sent
  /\ Drop(p)
  /\ UNCHANGED <<granted, served, deskMenu>>

\* A statement fails or runs into its timeout.
Fail(p) ==
  /\ work[p] # NoWork
  /\ Drop(p)
  /\ UNCHANGED <<desk, ledger, trail, granted, served, deskMenu, sent>>

\* The process ends; the database rolls back what it had open.
Crash ==
  /\ \E p \in Handlers: work[p] # NoWork
  /\ work' = [p \in Handlers |-> NoWork]
  /\ rowLock' = Unlocked
  /\ UNCHANGED <<desk, ledger, trail, granted, served, deskMenu, sent>>

(* POST and DELETE /grants: one statement each, after checks on what never changes *)
Receptionists == {a \in Staff: RoleOf[a] = "Receptionist"}

Grant ==
  /\ "grant" \in deskMenu
  /\ \E r \in Receptionists \ granted: granted' = granted \cup {r}
  /\ UNCHANGED <<desk, ledger, trail, rowLock, work, served, deskMenu, sent>>

Revoke ==
  /\ "grant" \in deskMenu
  /\ \E r \in granted: granted' = granted \ {r}
  /\ UNCHANGED <<desk, ledger, trail, rowLock, work, served, deskMenu, sent>>

DeskInit ==
  /\ deskMenu \in DeskMenus
  /\ \E state \in OpenStates: desk = [state |-> state, moved |-> 0, name |-> 0, note |-> 0, ignored |-> 0]
  /\ ledger = {} /\ trail = {} /\ served = 0
  /\ granted \in SUBSET Receptionists
  /\ rowLock = Unlocked
  /\ work = [p \in Handlers |-> NoWork]
  /\ sent = [f \in Fields |-> 0]

DeskStep(p) ==
  \/ LedgerCheck(p) \/ LedgerCount(p) \/ LedgerInsert(p)
  \/ TransitionLoad(p) \/ PatchLoad(p) \/ IgnoreLoad(p) \/ Authorize(p) \/ Update(p)
  \/ Audit(p) \/ Bill(p) \/ PostCharge(p) \/ AuditCharge(p) \/ Commit(p) \/ Fail(p)

DeskNext == (\E p \in Handlers: DeskStep(p)) \/ Crash \/ Grant \/ Revoke

DeskSpec == DeskInit /\ [][DeskNext]_deskVars

----------------------------------------------------------------------------
(* Properties *)

\* Completing an appointment posts the session charge once, also when charges are posted by hand at
\* the same time, before it or between its check and its insert: a completed appointment has exactly
\* one charge without a description.
CompletedIsBilledOnce ==
  desk.state = "completed" => Cardinality(SessionCharges(ledger)) = 1

\* That charge is on the account of the appointment's client.  (It need not be: an appointment named
\* in a charge by hand is not checked to belong to the client it charges when the amount is given.)
BilledToItsClient ==
  desk.state = "completed" => \A e \in SessionCharges(ledger): e.client = Owner

\* Whatever statement failed and whenever the process ended: every entry of the ledger, the charge
\* of a completed session among them, has an audit row of its own, and there is none without its
\* entry; and what an appointment holds was audited as a write of the appointment, whether a
\* transition, an edit or an ignored conflict wrote it.
EveryWriteIsAudited ==
  /\ {e.id: e \in ledger} = {a.id: a \in {b \in trail: b.table = "ledger_entries"}}
  /\ \A id \in {desk.moved, desk.name, desk.note, desk.ignored} \ {0}:
       Audited("appointments", id) \in trail

\* Two people who edit different fields of an appointment at the same time both keep their edit.
NoEditIsLost == \A f \in Fields: desk[f] = sent[f]

=============================================================================
