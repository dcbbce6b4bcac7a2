------------------------------ MODULE DeskProofs ------------------------------
(***************************************************************************)
(* One appointment and its ledger, for every set of handlers, people and   *)
(* entries: the session charge is posted once, nothing is written without  *)
(* its audit row and no edit is lost.                                      *)
(*                                                                         *)
(* The argument: the key of the partial unique index has one holder, a     *)
(* transaction or the ledger; the row lock of an UPDATE has one holder, so *)
(* what a transaction is about to commit differs from the row only in the  *)
(* columns it was sent; and a transaction that reached its last statement  *)
(* has written an audit row of the appointment for what it wrote there,    *)
(* and one of the ledger exactly if it posted an entry.                    *)
(***************************************************************************)
EXTENDS Desk, FiniteSetTheorems, TLAPS

\* The six states, split: an appointment is open or terminal.
LEMMA StatesSplit ==
  /\ OpenStates = {"requested", "scheduled"}
  /\ TerminalStates = {"completed", "canceled", "no_show", "rejected"}
  BY DEF OpenStates, TerminalStates, TransitionMap, AppointmentStates

----------------------------------------------------------------------------
(* The inductive invariant *)

\* What a handler knows of its request.
Shape(c) ==
  /\ c = [f \in DOMAIN c |-> c[f]]
  /\ {"kind", "at", "id", "posted", "notes", "new"} \subseteq DOMAIN c
  /\ c.id \in Nat
  /\ c.kind = "ledger" => "entry" \in DOMAIN c /\ c.entry.id = c.id
  /\ c.kind = "transition" => "to" \in DOMAIN c /\ c.to \in AppointmentStates
  /\ c.kind = "patch" => "fields" \in DOMAIN c /\ c.fields \subseteq Fields

\* What it has posted and audited so far: rows of its own, the audit row of an entry after the entry
\* and both before the commit.
Noted(c) ==
  /\ c.notes \subseteq {AuditOf(c), ChargeAuditOf(c)}
  /\ ChargeAuditOf(c) \in c.notes => c.posted # {}
  /\ c.kind = "ledger" /\ c.at = "audit" => c.posted # {}
  /\ c.kind # "ledger" /\ c.at \notin {"auditCharge", "commit"} => c.posted = {}
  /\ c.at = "auditCharge" => c.posted # {}
  /\ c.at \in {"bill", "post", "auditCharge", "commit"} => AuditOf(c) \in c.notes
  /\ c.at = "commit" /\ c.posted # {} => ChargeAuditOf(c) \in c.notes

\* What it has written so far; and a session that is about to be completed has its charge.
Prepared(c) ==
  /\ \A e \in c.posted : e.id = c.id
  /\ \A e, f \in SessionCharges(c.posted) : e = f
  /\ c.at = "auditCharge" => SessionCharges(c.posted) # {}
  /\ Noted(c)
  /\ c.kind = "transition" /\ c.to = "completed" /\ c.at = "commit" =>
       SessionCharges(ledger) # {} \/ SessionCharges(c.posted) # {}

\* The row it is about to commit: the current one, but for what it was sent.
RowOf(p) ==
  LET c == work[p]
  IN /\ c.new # Null =>
          /\ c.kind # "ledger" /\ rowLock = p /\ c.new \in DeskRow
          /\ c.new.state = IF c.kind = "transition" THEN c.to ELSE desk.state
          /\ \A f \in Fields : c.new[f] = IF c.kind = "patch" /\ f \in c.fields THEN c.id ELSE desk[f]
          /\ c.new.ignored \in {desk.ignored, c.id} /\ c.new.moved \in {desk.moved, c.id}
     /\ c.kind = "patch" /\ c.at \notin {"authorize", "update"} => c.new # Null

HoldsKey(p) == work[p] # NoWork /\ SessionCharges(work[p].posted) # {}

\* The key of the index has one holder.
OneKey ==
  /\ \A p \in Handlers : HoldsKey(p) =>
       SessionCharges(ledger) = {} /\ \A q \in Handlers \ {p} : ~HoldsKey(q)
  /\ \A e, f \in SessionCharges(ledger) : e = f

Prepares(p) == work[p] = NoWork \/ (Shape(work[p]) /\ Prepared(work[p]) /\ RowOf(p))

DeskTypes == work = [p \in Handlers |-> work[p]] /\ served \in Nat /\ desk \in DeskRow

DeskInv ==
  /\ DeskTypes
  /\ \A p \in Handlers : Prepares(p)
  /\ OneKey
  /\ desk.state = "completed" => SessionCharges(ledger) # {}
  /\ EveryWriteIsAudited
  /\ NoEditIsLost

----------------------------------------------------------------------------
(* Steps that commit nothing *)

\* While nothing is committed and nobody's row lock is taken away, only what the moving handler
\* has prepared, and whether it holds the key, can matter.
LEMMA QuietStep ==
  ASSUME DeskInv, NEW p \in Handlers,
         work' = [work EXCEPT ![p] = work'[p]], served' \in Nat,
         UNCHANGED <<desk, ledger, trail, sent>>,
         rowLock' = rowLock \/ rowLock \in {p, Unlocked},
         Prepares(p)',
         HoldsKey(p)' => SessionCharges(ledger) = {} /\ \A q \in Handlers \ {p} : ~HoldsKey(q)
  PROVE  DeskInv'
<1>unlocked. Unlocked \notin Handlers
  BY DeskAssumption
<1>1. DeskTypes'
  BY DEF DeskInv, DeskTypes
<1>2. \A q \in Handlers \ {p} : work'[q] = work[q]
  BY DEF DeskInv, DeskTypes
<1>3. ASSUME NEW q \in Handlers PROVE Prepares(q)'
  <2>1. CASE q = p
    BY <2>1
  <2>2. CASE q # p
    <3>1. Prepares(q) /\ work'[q] = work[q]
      BY <2>2, <1>2 DEF DeskInv
    <3>2. rowLock = q => rowLock' = q
      BY <2>2, <1>unlocked
    <3>3. RowOf(q) => RowOf(q)'
      BY <3>1, <3>2 DEF RowOf
    <3>4. QED BY <3>1, <3>3 DEF Prepares, Prepared
  <2>3. QED BY <2>1, <2>2
<1>4. \A q \in Handlers \ {p} : HoldsKey(q)' = HoldsKey(q)
  BY <1>2 DEF HoldsKey
<1>5. OneKey'
  <2>1. ASSUME NEW q \in Handlers, HoldsKey(q)'
        PROVE  SessionCharges(ledger) = {} /\ \A r \in Handlers \ {q} : ~HoldsKey(r)'
    <3>1. CASE q = p
      BY <3>1, <2>1, <1>4
    <3>2. CASE q # p
      BY <3>2, <2>1, <1>4 DEF DeskInv, OneKey
    <3>3. QED BY <3>1, <3>2
  <2>2. QED BY <2>1 DEF OneKey, DeskInv
<1>6. (desk.state = "completed" => SessionCharges(ledger) # {})' /\ EveryWriteIsAudited' /\ NoEditIsLost'
  BY DEF DeskInv, EveryWriteIsAudited, NoEditIsLost
<1>7. QED BY <1>1, <1>3, <1>5, <1>6 DEF DeskInv

\* A transaction that ends without committing leaves nothing.
LEMMA DropStep ==
  ASSUME DeskInv, NEW p \in Handlers, Drop(p), served' \in Nat,
         UNCHANGED <<desk, ledger, trail, sent>>
  PROVE  DeskInv'
<1>1. work' = [work EXCEPT ![p] = work'[p]] /\ work'[p] = NoWork
  BY DEF Drop, DeskInv, DeskTypes
<1>2. Prepares(p)' /\ ~HoldsKey(p)'
  BY <1>1 DEF Prepares, HoldsKey
<1>3. QED BY <1>1, <1>2, QuietStep DEF Drop

\* A handler that goes on with what it knew, its key and its row.
LEMMA AdvanceStep ==
  ASSUME DeskInv, NEW p \in Handlers, work[p] # NoWork, NEW step, Step(p, step),
         UNCHANGED <<desk, ledger, trail, rowLock, served, sent>>,
         work[p].kind = "patch" => step = "update" \/ work[p].new # Null,
         step \notin {"audit", "auditCharge"},
         work[p].kind # "ledger" \/ step = "commit" => work[p].posted = {},
         step \in {"bill", "post", "commit"} => AuditOf(work[p]) \in work[p].notes,
         step = "commit" => SessionCharges(ledger) # {} \/ work[p].kind # "transition"
  PROVE  DeskInv'
<1>1. Shape(work[p]) /\ Prepared(work[p]) /\ RowOf(p) /\ served \in Nat
  BY DEF DeskInv, Prepares, DeskTypes
<1>2. /\ work' = [work EXCEPT ![p] = work'[p]]
      /\ work'[p] = [work[p] EXCEPT !.at = step]
  BY DEF Step, DeskInv, DeskTypes
<1>3. /\ DOMAIN work'[p] = DOMAIN work[p] /\ work'[p].at = step
      /\ \A f \in DOMAIN work[p] \ {"at"} : work'[p][f] = work[p][f]
  BY <1>1, <1>2 DEF Shape
<1>4. /\ work'[p].kind = work[p].kind /\ work'[p].id = work[p].id /\ work'[p].posted = work[p].posted
      /\ work'[p].notes = work[p].notes /\ work'[p].new = work[p].new
      /\ work[p].kind = "ledger" => work'[p].entry = work[p].entry
      /\ work[p].kind = "transition" => work'[p].to = work[p].to
      /\ work[p].kind = "patch" => work'[p].fields = work[p].fields
  BY <1>1, <1>3 DEF Shape
<1>5. Shape(work[p])'
  BY <1>1, <1>2, <1>3, <1>4 DEF Shape
<1>6. Prepared(work[p])'
  <2>1. AuditOf(work'[p]) = AuditOf(work[p]) /\ ChargeAuditOf(work'[p]) = ChargeAuditOf(work[p])
    BY <1>4 DEF AuditOf, ChargeAuditOf
  <2>2. Noted(work'[p])
    BY <1>1, <1>3, <1>4, <2>1 DEF Prepared, Noted
  <2>3. QED BY <1>1, <1>3, <1>4, <2>2 DEF Prepared
<1>7. RowOf(p)'
  BY <1>1, <1>3, <1>4 DEF RowOf
<1>8. Prepares(p)'
  BY <1>5, <1>6, <1>7 DEF Prepares
<1>9. HoldsKey(p)' => SessionCharges(ledger) = {} /\ \A q \in Handlers \ {p} : ~HoldsKey(q)
  BY <1>4 DEF HoldsKey, DeskInv, OneKey
<1>10. QED BY <1>1, <1>2, <1>8, <1>9, QuietStep

----------------------------------------------------------------------------
(* One lemma per action *)

\* A request that starts knows what it was asked and has written nothing.
LEMMA AcceptStep ==
  ASSUME DeskInv, NEW p \in Handlers, NEW kind, NEW step, NEW own, Accept(p, kind, step, own),
         step \in {"count", "authorize", "update"},
         kind = "ledger" => "entry" \in DOMAIN own /\ own.entry.id = served + 1,
         kind = "transition" => "to" \in DOMAIN own /\ own.to \in AppointmentStates,
         kind = "patch" => step = "authorize" /\ "fields" \in DOMAIN own /\ own.fields \subseteq Fields,
         UNCHANGED <<desk, ledger, trail, rowLock, sent>>
  PROVE  DeskInv'
<1> DEFINE base == [kind |-> kind, at |-> step, id |-> served + 1, posted |-> {}, notes |-> {},
                    new |-> Null]
<1> DEFINE c == Asking(base, own)
<1>1. /\ work' = [work EXCEPT ![p] = work'[p]] /\ served \in Nat /\ served' \in Nat
      /\ work'[p] = c
  BY DEF Accept, DeskInv, DeskTypes
<1>2. /\ DOMAIN c = {"kind", "at", "id", "posted", "notes", "new"} \cup DOMAIN own
      /\ c.kind = kind /\ c.at = step /\ c.id = served + 1 /\ c.posted = {} /\ c.notes = {}
      /\ c.new = Null
      /\ c = [f \in DOMAIN c |-> c[f]]
  BY DEF Asking
<1>3. /\ "entry" \in DOMAIN own => c.entry = own.entry
      /\ "to" \in DOMAIN own => c.to = own.to
      /\ "fields" \in DOMAIN own => c.fields = own.fields
  BY DEF Asking
<1> HIDE DEF c
<1>4. Shape(c)
  BY <1>1, <1>2, <1>3 DEF Shape
<1>5. Shape(work[p])'
  BY <1>1, <1>4
<1>6. Prepared(work[p])'
  BY <1>1, <1>2 DEF Prepared, Noted, SessionCharges, Charges
<1>7. RowOf(p)'
  BY <1>1, <1>2 DEF RowOf
<1>8. Prepares(p)' /\ ~HoldsKey(p)'
  BY <1>1, <1>2, <1>5, <1>6, <1>7 DEF Prepares, HoldsKey, SessionCharges, Charges
<1>9. QED BY <1>1, <1>8, QuietStep

LEMMA LedgerCheckStep ==
  ASSUME DeskInv, NEW p \in Handlers, LedgerCheck(p)
  PROVE  DeskInv'
<1>1. PICK actor \in Staff, asked \in LedgerRequests :
        Accept(p, "ledger", "count", [entry |-> Entry(served + 1, asked), priced |-> asked.priced])
  BY DEF LedgerCheck
<1>2. UNCHANGED <<desk, ledger, trail, rowLock, sent>>
  BY DEF LedgerCheck
<1>3. QED BY <1>1, <1>2, AcceptStep DEF Entry

LEMMA TransitionLoadStep ==
  ASSUME DeskInv, NEW p \in Handlers, TransitionLoad(p)
  PROVE  DeskInv'
<1>1. PICK actor \in Staff \cup Clients, to \in {"completed", "canceled", "no_show"} :
        Accept(p, "transition", IF actor \in Clients THEN "update" ELSE "authorize",
               [actor |-> actor, to |-> to])
  BY DEF TransitionLoad
<1>2. UNCHANGED <<desk, ledger, trail, rowLock, sent>> /\ to \in AppointmentStates
  BY DEF TransitionLoad, AppointmentStates, OpenStates, TerminalStates
<1>3. QED BY <1>1, <1>2, AcceptStep

LEMMA PatchLoadStep ==
  ASSUME DeskInv, NEW p \in Handlers, PatchLoad(p)
  PROVE  DeskInv'
<1>1. PICK actor \in Staff, fields \in SUBSET Fields \ {{}} :
        Accept(p, "patch", "authorize",
               [actor |-> actor, fields |-> fields, seen |-> [f \in Fields |-> desk[f]]])
  BY DEF PatchLoad
<1>2. UNCHANGED <<desk, ledger, trail, rowLock, sent>> /\ fields \subseteq Fields
  BY DEF PatchLoad
<1>3. QED BY <1>1, <1>2, AcceptStep

LEMMA IgnoreLoadStep ==
  ASSUME DeskInv, NEW p \in Handlers, IgnoreLoad(p)
  PROVE  DeskInv'
<1>1. PICK actor \in Staff : Accept(p, "ignore", "authorize", [actor |-> actor])
  BY DEF IgnoreLoad
<1>2. UNCHANGED <<desk, ledger, trail, rowLock, sent>>
  BY DEF IgnoreLoad
<1>3. QED BY <1>1, <1>2, AcceptStep

LEMMA LedgerCountStep ==
  ASSUME DeskInv, NEW p \in Handlers, LedgerCount(p)
  PROVE  DeskInv'
<1>1. CASE Drop(p)
  BY <1>1, DropStep DEF LedgerCount, DeskInv, DeskTypes
<1>2. CASE Step(p, "insert") /\ UNCHANGED rowLock
  BY <1>2, AdvanceStep DEF LedgerCount, Working, NoWork
<1>3. QED BY <1>1, <1>2 DEF LedgerCount

LEMMA AuthorizeStep ==
  ASSUME DeskInv, NEW p \in Handlers, Authorize(p)
  PROVE  DeskInv'
<1>1. CASE Drop(p)
  BY <1>1, DropStep DEF Authorize, DeskInv, DeskTypes
<1>2. CASE Step(p, "update") /\ UNCHANGED rowLock
  <2>1. /\ work[p] # NoWork /\ work[p].at = "authorize" /\ work[p].kind \in {"transition", "patch", "ignore"}
        /\ UNCHANGED <<desk, ledger, trail, served, sent>>
    BY DEF Authorize, Working, NoWork
  <2>2. work[p].posted = {}
    BY <2>1 DEF DeskInv, Prepares, Prepared, Noted
  <2>3. QED BY <1>2, <2>1, <2>2, AdvanceStep
<1>3. QED BY <1>1, <1>2 DEF Authorize

\* What a handler does to its own record leaves what it was asked.
LEMMA EditKeepsShape ==
  ASSUME NEW c, Shape(c), NEW d, d = [f \in DOMAIN c |-> d[f]],
         \A f \in DOMAIN c \ {"at", "posted", "notes", "new"} : d[f] = c[f]
  PROVE  /\ Shape(d) /\ d.kind = c.kind /\ d.id = c.id
         /\ c.kind = "ledger" => d.entry = c.entry
         /\ c.kind = "transition" => d.to = c.to
         /\ c.kind = "patch" => d.fields = c.fields
<1>1. DOMAIN d = DOMAIN c
  OBVIOUS
<1>2. /\ d.kind = c.kind /\ d.id = c.id
      /\ c.kind = "ledger" => d.entry = c.entry
      /\ c.kind = "transition" => d.to = c.to
      /\ c.kind = "patch" => d.fields = c.fields
  BY DEF Shape
<1>3. Shape(d)
  BY <1>1, <1>2 DEF Shape
<1>4. QED BY <1>2, <1>3

\* A charge is inserted only while nobody else has one with its key.
LEMMA LedgerInsertStep ==
  ASSUME DeskInv, NEW p \in Handlers, LedgerInsert(p)
  PROVE  DeskInv'
<1> DEFINE e == work[p].entry
           key == SessionCharges({e}) # {}
<1>1. CASE Drop(p)
  BY <1>1, DropStep DEF LedgerInsert, DeskInv, DeskTypes
<1>2. CASE /\ work' = [work EXCEPT ![p].posted = {e}, ![p].at = "audit"]
           /\ UNCHANGED rowLock
           /\ key => ~KeyPending(p)
           /\ ~(key /\ SessionCharges(ledger) # {})
  <2>1. /\ work[p].kind = "ledger" /\ work[p] # NoWork /\ served \in Nat
        /\ UNCHANGED <<desk, ledger, trail, sent, served>>
    BY DEF LedgerInsert, Working, NoWork, DeskInv, DeskTypes
  <2>2. rowLock' = rowLock
    BY <1>2
  <2>3. key => ~KeyPending(p) /\ SessionCharges(ledger) = {}
    BY <1>2
  <2>4. Shape(work[p]) /\ Prepared(work[p]) /\ RowOf(p)
    BY <2>1 DEF DeskInv, Prepares
  <2>5. /\ work' = [work EXCEPT ![p] = work'[p]]
        /\ work'[p] = [work[p] EXCEPT !.posted = {e}, !.at = "audit"]
    BY <1>2 DEF DeskInv, DeskTypes
  <2>6. /\ work'[p] = [f \in DOMAIN work[p] |-> work'[p][f]]
        /\ work'[p].posted = {e} /\ work'[p].at = "audit"
        /\ \A f \in DOMAIN work[p] \ {"posted", "at"} : work'[p][f] = work[p][f]
    BY <2>4, <2>5 DEF Shape
  <2>7. Shape(work'[p]) /\ work'[p].kind = "ledger" /\ work'[p].id = work[p].id
        /\ work'[p].new = work[p].new /\ e.id = work[p].id
    <3>1. \A f \in DOMAIN work[p] \ {"at", "posted", "notes", "new"} : work'[p][f] = work[p][f]
      BY <2>6
    <3>2. Shape(work'[p]) /\ work'[p].kind = "ledger" /\ work'[p].id = work[p].id
      BY <2>1, <2>4, <2>6, <3>1, EditKeepsShape
    <3>3. QED BY <2>1, <2>4, <2>6, <3>2 DEF Shape
  <2>8. Prepared(work[p])'
    <3>1. AuditOf(work'[p]) = AuditOf(work[p]) /\ ChargeAuditOf(work'[p]) = ChargeAuditOf(work[p])
      BY <2>1, <2>7 DEF AuditOf, ChargeAuditOf
    <3>2. work'[p].notes = work[p].notes
      BY <2>4, <2>6 DEF Shape
    <3>3. Noted(work'[p])
      BY <2>4, <2>6, <2>7, <3>1, <3>2 DEF Prepared, Noted
    <3>4. QED BY <2>6, <2>7, <3>3 DEF Prepared, SessionCharges, Charges
  <2>9. RowOf(p)'
    BY <2>2, <2>1, <2>4, <2>7 DEF RowOf
  <2>10. Prepares(p)'
    BY <2>7, <2>8, <2>9 DEF Prepares, Shape
  <2>11. HoldsKey(p)' => SessionCharges(ledger) = {} /\ \A q \in Handlers \ {p} : ~HoldsKey(q)
    <3>1. HoldsKey(p)' => key
      BY <2>6 DEF HoldsKey
    <3>2. QED BY <2>3, <3>1 DEF HoldsKey, KeyPending
  <2>12. QED BY <2>2, <2>1, <2>5, <2>10, <2>11, QuietStep
<1>3. QED BY <1>1, <1>2 DEF LedgerInsert

LEMMA PostChargeStep ==
  ASSUME DeskInv, NEW p \in Handlers, PostCharge(p)
  PROVE  DeskInv'
<1> DEFINE e == Entry(work[p].id, SessionCharge)
<1>1. CASE Drop(p)
  BY <1>1, DropStep DEF PostCharge, DeskInv, DeskTypes
<1>2. CASE /\ work' = [work EXCEPT ![p].posted = {e}, ![p].at = "auditCharge"]
           /\ UNCHANGED rowLock /\ ~KeyPending(p) /\ SessionCharges(ledger) = {}
  <2>1. /\ work[p].kind = "transition" /\ work[p].at = "post" /\ work[p] # NoWork /\ served \in Nat
        /\ UNCHANGED <<desk, ledger, trail, sent, served>>
    BY DEF PostCharge, Working, NoWork, DeskInv, DeskTypes
  <2>2. Shape(work[p]) /\ Prepared(work[p]) /\ RowOf(p)
    BY <2>1 DEF DeskInv, Prepares
  <2>3. /\ work' = [work EXCEPT ![p] = work'[p]]
        /\ work'[p] = [work[p] EXCEPT !.posted = {e}, !.at = "auditCharge"]
    BY <1>2 DEF DeskInv, DeskTypes
  <2>4. /\ work'[p] = [f \in DOMAIN work[p] |-> work'[p][f]]
        /\ work'[p].posted = {e} /\ work'[p].at = "auditCharge"
        /\ \A f \in DOMAIN work[p] \ {"posted", "at"} : work'[p][f] = work[p][f]
    BY <2>2, <2>3 DEF Shape
  <2>5. /\ Shape(work'[p]) /\ work'[p].kind = "transition" /\ work'[p].id = work[p].id
        /\ work'[p].to = work[p].to
        /\ work'[p].new = work[p].new /\ work'[p].notes = work[p].notes
    <3>1. \A f \in DOMAIN work[p] \ {"at", "posted", "notes", "new"} : work'[p][f] = work[p][f]
      BY <2>4
    <3>2. /\ Shape(work'[p]) /\ work'[p].kind = "transition" /\ work'[p].id = work[p].id
          /\ work'[p].to = work[p].to
      BY <2>1, <2>2, <2>4, <3>1, EditKeepsShape
    <3>3. QED BY <2>2, <2>4, <3>2 DEF Shape
  <2>6. SessionCharges({e}) = {e} /\ e.id = work[p].id
    BY DEF Entry, SessionCharge, SessionCharges, Charges
  <2>7. Prepared(work[p])'
    <3>1. SessionCharges(work'[p].posted) = {e}
      BY <2>4, <2>6
    <3>2. AuditOf(work'[p]) = AuditOf(work[p]) /\ ChargeAuditOf(work'[p]) = ChargeAuditOf(work[p])
      BY <2>1, <2>5 DEF AuditOf, ChargeAuditOf
    <3>3. Noted(work'[p])
      BY <2>1, <2>2, <2>4, <2>5, <3>2 DEF Prepared, Noted
    <3>4. QED BY <2>4, <2>5, <2>6, <3>1, <3>3 DEF Prepared
  <2>8. RowOf(p)'
    BY <1>2, <2>1, <2>2, <2>5 DEF RowOf
  <2>9. Prepares(p)'
    BY <2>5, <2>7, <2>8 DEF Prepares, Shape
  <2>10. HoldsKey(p)' => SessionCharges(ledger) = {} /\ \A q \in Handlers \ {p} : ~HoldsKey(q)
    BY <1>2 DEF HoldsKey, KeyPending
  <2>11. QED BY <1>2, <2>1, <2>3, <2>9, <2>10, QuietStep
<1>3. QED BY <1>1, <1>2 DEF PostCharge

\* The audit row of the charge is written beside the one of the transition.
LEMMA AuditChargeStep ==
  ASSUME DeskInv, NEW p \in Handlers, AuditCharge(p)
  PROVE  DeskInv'
<1> DEFINE rows == work[p].notes \cup {ChargeAuditOf(work[p])}
<1>1. /\ work[p].kind = "transition" /\ work[p].at = "auditCharge" /\ work[p] # NoWork /\ served \in Nat
      /\ UNCHANGED <<desk, ledger, trail, rowLock, sent, served>>
  BY DEF AuditCharge, Working, NoWork, DeskInv, DeskTypes
<1>2. Shape(work[p]) /\ Prepared(work[p]) /\ RowOf(p)
  BY <1>1 DEF DeskInv, Prepares
<1>3. /\ work' = [work EXCEPT ![p] = work'[p]]
      /\ work'[p] = [work[p] EXCEPT !.notes = rows, !.at = "commit"]
  BY <1>2 DEF AuditCharge, DeskInv, DeskTypes, Shape
<1>4. /\ work'[p] = [f \in DOMAIN work[p] |-> work'[p][f]]
      /\ work'[p].notes = rows /\ work'[p].at = "commit"
      /\ \A f \in DOMAIN work[p] \ {"notes", "at"} : work'[p][f] = work[p][f]
  BY <1>2, <1>3 DEF Shape
<1>5. \A f \in DOMAIN work[p] \ {"at", "posted", "notes", "new"} : work'[p][f] = work[p][f]
  BY <1>4
<1>6. /\ Shape(work'[p]) /\ work'[p].kind = work[p].kind /\ work'[p].id = work[p].id
      /\ work'[p].to = work[p].to
  BY <1>1, <1>2, <1>4, <1>5, EditKeepsShape
<1>7. work'[p].posted = work[p].posted /\ work'[p].new = work[p].new
  BY <1>2, <1>4 DEF Shape
<1>8. Prepared(work[p])'
  <2>1. AuditOf(work'[p]) = AuditOf(work[p]) /\ ChargeAuditOf(work'[p]) = ChargeAuditOf(work[p])
    BY <1>6 DEF AuditOf, ChargeAuditOf
  <2>2. Noted(work'[p])
    BY <1>1, <1>2, <1>4, <1>6, <1>7, <2>1 DEF Prepared, Noted
  <2>3. QED BY <1>1, <1>2, <1>4, <1>6, <1>7, <2>2 DEF Prepared
<1>9. RowOf(p)'
  BY <1>1, <1>2, <1>6, <1>7 DEF RowOf
<1>10. Prepares(p)'
  BY <1>6, <1>8, <1>9 DEF Prepares, Shape
<1>11. HoldsKey(p)' => SessionCharges(ledger) = {} /\ \A q \in Handlers \ {p} : ~HoldsKey(q)
  BY <1>1, <1>7 DEF HoldsKey, DeskInv, OneKey
<1>12. QED BY <1>1, <1>3, <1>10, <1>11, QuietStep

LEMMA BillStep ==
  ASSUME DeskInv, NEW p \in Handlers, Bill(p)
  PROVE  DeskInv'
<1>1. Prepared(work[p]) /\ work[p] # NoWork
  BY DEF Bill, Working, NoWork, DeskInv, Prepares
<1>2. AuditOf(work[p]) \in work[p].notes /\ work[p].kind = "transition" /\ work[p].posted = {}
  BY <1>1 DEF Bill, Working, Prepared, Noted
<1>3. UNCHANGED <<desk, ledger, trail, rowLock, served, sent>>
  BY DEF Bill
<1>4. CASE Billed(ledger) /\ Step(p, "commit")
  BY <1>1, <1>2, <1>3, <1>4, AdvanceStep DEF Billed
<1>5. CASE Step(p, "post")
  BY <1>1, <1>2, <1>3, <1>5, AdvanceStep
<1>6. QED BY <1>4, <1>5 DEF Bill

LEMMA AuditStep ==
  ASSUME DeskInv, NEW p \in Handlers, Audit(p)
  PROVE  DeskInv'
<1> DEFINE step == AfterAudit(work[p])
<1>1. /\ work[p] # NoWork /\ work[p].at = "audit" /\ served \in Nat
      /\ UNCHANGED <<desk, ledger, trail, rowLock, sent, served>>
  BY DEF Audit, DeskInv, DeskTypes
<1>2. Shape(work[p]) /\ Prepared(work[p]) /\ RowOf(p)
  BY <1>1 DEF DeskInv, Prepares
<1>3. /\ work' = [work EXCEPT ![p] = work'[p]]
      /\ work'[p] = [work[p] EXCEPT !.notes = {AuditOf(work[p])}, !.at = step]
  BY DEF Audit, DeskInv, DeskTypes
<1>4. /\ work'[p] = [f \in DOMAIN work[p] |-> work'[p][f]]
      /\ work'[p].notes = {AuditOf(work[p])} /\ work'[p].at = step
      /\ \A f \in DOMAIN work[p] \ {"notes", "at"} : work'[p][f] = work[p][f]
  BY <1>2, <1>3 DEF Shape
<1>5. \A f \in DOMAIN work[p] \ {"at", "posted", "notes", "new"} : work'[p][f] = work[p][f]
  BY <1>4
<1>6. /\ Shape(work'[p]) /\ work'[p].kind = work[p].kind /\ work'[p].id = work[p].id
      /\ work[p].kind = "transition" => work'[p].to = work[p].to
      /\ work[p].kind = "patch" => work'[p].fields = work[p].fields
  BY <1>2, <1>4, <1>5, EditKeepsShape
<1>7. work'[p].posted = work[p].posted /\ work'[p].new = work[p].new
  BY <1>2, <1>4 DEF Shape
<1>8. Prepared(work[p])'
  <2>1. AuditOf(work'[p]) = AuditOf(work[p]) /\ ChargeAuditOf(work'[p]) = ChargeAuditOf(work[p])
    BY <1>6 DEF AuditOf, ChargeAuditOf
  <2>2. /\ work[p].kind = "ledger" => AuditOf(work[p]) = ChargeAuditOf(work[p])
        /\ work[p].kind # "ledger" => AuditOf(work[p]) # ChargeAuditOf(work[p])
    BY DEF AuditOf, ChargeAuditOf, Audited
  <2>3. step \in {"bill", "commit"} /\ (step = "commit" => ~(work[p].kind = "transition" /\ work[p].to = "completed"))
    BY DEF AfterAudit
  <2> HIDE DEF step
  <2>4. Noted(work'[p])
    BY <1>1, <1>2, <1>4, <1>6, <1>7, <2>1, <2>2, <2>3 DEF Prepared, Noted
  <2>5. QED BY <1>1, <1>2, <1>4, <1>6, <1>7, <2>3, <2>4 DEF Prepared
<1>9. RowOf(p)'
  BY <1>1, <1>2, <1>6, <1>7 DEF RowOf
<1>10. Prepares(p)'
  BY <1>6, <1>8, <1>9 DEF Prepares, Shape
<1>11. HoldsKey(p)' => SessionCharges(ledger) = {} /\ \A q \in Handlers \ {p} : ~HoldsKey(q)
  BY <1>1, <1>7 DEF HoldsKey, DeskInv, OneKey
<1>12. QED BY <1>1, <1>3, <1>10, <1>11, QuietStep

\* The row an UPDATE leaves differs from the one it found in the columns it was sent.
LEMMA UpdatedRow ==
  ASSUME NEW c, Shape(c), NEW row \in DeskRow, c.kind \in {"transition", "patch", "ignore"},
         NEW new, new = Updated(c, row)
  PROVE  /\ new \in DeskRow
         /\ new.state = IF c.kind = "transition" THEN c.to ELSE row.state
         /\ \A f \in Fields : new[f] = IF c.kind = "patch" /\ f \in c.fields THEN c.id ELSE row[f]
         /\ new.ignored \in {row.ignored, c.id} /\ new.moved \in {row.moved, c.id}
<1>1. /\ row = [f \in {"state", "moved", "name", "note", "ignored"} |-> row[f]]
      /\ row.state \in AppointmentStates /\ row.moved \in Nat /\ row.name \in Nat /\ row.note \in Nat /\ row.ignored \in Nat
  BY DEF DeskRow
<1>2. CASE c.kind = "transition"
  BY <1>1, <1>2 DEF Updated, Shape, DeskRow, Fields
<1>3. CASE c.kind = "patch"
  <2>1. new = [f \in DOMAIN row |-> IF f \in c.fields THEN c.id ELSE row[f]]
    BY <1>3 DEF Updated
  <2>2. c.fields \subseteq {"name", "note"} /\ c.id \in Nat
    BY <1>3 DEF Shape, Fields
  <2>3. /\ DOMAIN new = {"state", "moved", "name", "note", "ignored"} /\ new = [f \in DOMAIN new |-> new[f]]
        /\ new.state = row.state /\ new.ignored = row.ignored /\ new.moved = row.moved
        /\ new.name = (IF "name" \in c.fields THEN c.id ELSE row.name)
        /\ new.note = (IF "note" \in c.fields THEN c.id ELSE row.note)
    BY <1>1, <2>1, <2>2
  <2>4. new \in DeskRow
    BY <1>1, <2>2, <2>3 DEF DeskRow
  <2>5. QED BY <1>3, <2>3, <2>4 DEF Fields
<1>4. CASE c.kind = "ignore"
  BY <1>1, <1>4 DEF Updated, Shape, DeskRow, Fields
<1>5. QED BY <1>2, <1>3, <1>4

LEMMA UpdateStep ==
  ASSUME DeskInv, NEW p \in Handlers, Update(p)
  PROVE  DeskInv'
<1> DEFINE row == Updated(work[p], desk)
<1>1. CASE Drop(p)
  BY <1>1, DropStep DEF Update, DeskInv, DeskTypes
<1>2. CASE /\ work' = [work EXCEPT ![p].new = row, ![p].at = "audit"]
           /\ rowLock' = p
  <2>1. /\ work[p] # NoWork /\ work[p].at = "update" /\ served \in Nat
        /\ work[p].kind \in {"transition", "patch", "ignore"}
        /\ UNCHANGED <<desk, ledger, trail, sent, served>> /\ rowLock = Unlocked /\ desk \in DeskRow
    BY DEF Update, Working, NoWork, DeskInv, DeskTypes
  <2>2. Shape(work[p]) /\ Prepared(work[p])
    BY <2>1 DEF DeskInv, Prepares
  <2>3. /\ work' = [work EXCEPT ![p] = work'[p]]
        /\ work'[p] = [work[p] EXCEPT !.new = row, !.at = "audit"]
    BY <1>2 DEF DeskInv, DeskTypes
  <2>4. /\ work'[p] = [f \in DOMAIN work[p] |-> work'[p][f]]
        /\ work'[p].new = row /\ work'[p].at = "audit"
        /\ \A f \in DOMAIN work[p] \ {"new", "at"} : work'[p][f] = work[p][f]
    BY <2>2, <2>3 DEF Shape
  <2>5. \A f \in DOMAIN work[p] \ {"at", "posted", "notes", "new"} : work'[p][f] = work[p][f]
    BY <2>4
  <2>6. /\ Shape(work'[p]) /\ work'[p].kind = work[p].kind /\ work'[p].id = work[p].id
        /\ work[p].kind = "transition" => work'[p].to = work[p].to
        /\ work[p].kind = "patch" => work'[p].fields = work[p].fields
    BY <2>2, <2>4, <2>5, EditKeepsShape
  <2>7. work'[p].posted = work[p].posted
    BY <2>2, <2>4 DEF Shape
  <2>8. Prepared(work[p])'
    <3>1. AuditOf(work'[p]) = AuditOf(work[p]) /\ ChargeAuditOf(work'[p]) = ChargeAuditOf(work[p])
      BY <2>6 DEF AuditOf, ChargeAuditOf
    <3>2. work'[p].notes = work[p].notes
      BY <2>2, <2>4 DEF Shape
    <3>3. Noted(work'[p])
      BY <2>1, <2>2, <2>4, <2>6, <2>7, <3>1, <3>2 DEF Prepared, Noted
    <3>4. QED BY <2>2, <2>4, <2>6, <2>7, <3>3 DEF Prepared
  <2> HIDE DEF row
  <2>9. /\ row \in DeskRow
        /\ row.state = IF work[p].kind = "transition" THEN work[p].to ELSE desk.state
        /\ \A f \in Fields : row[f] = IF work[p].kind = "patch" /\ f \in work[p].fields
                                      THEN work[p].id ELSE desk[f]
        /\ row.ignored \in {desk.ignored, work[p].id} /\ row.moved \in {desk.moved, work[p].id}
    BY <2>1, <2>2, UpdatedRow DEF row
  <2>10. RowOf(p)'
    <3>1. row # Null
      BY <2>9, DeskAssumption
    <3>2. QED BY <1>2, <2>1, <2>4, <2>6, <2>9, <3>1 DEF RowOf
  <2>11. Prepares(p)'
    BY <2>6, <2>8, <2>10 DEF Prepares, Shape
  <2>12. HoldsKey(p)' => SessionCharges(ledger) = {} /\ \A q \in Handlers \ {p} : ~HoldsKey(q)
    BY <2>1, <2>7 DEF HoldsKey, DeskInv, OneKey
  <2>13. QED BY <2>1, <2>3, <2>11, <2>12, QuietStep
<1>3. QED BY <1>1, <1>2 DEF Update

LEMMA ChargesOfBoth ==
  ASSUME NEW A, NEW B
  PROVE  SessionCharges(A \cup B) = SessionCharges(A) \cup SessionCharges(B)
  BY DEF SessionCharges, Charges

\* A commit publishes the row, the entry and the audit row together.
LEMMA CommitStep ==
  ASSUME DeskInv, NEW p \in Handlers, Commit(p)
  PROVE  DeskInv'
<1> DEFINE c == work[p]
<1>1. /\ c # NoWork /\ c.at = "commit"
      /\ desk' = (IF c.new = Null THEN desk ELSE c.new)
      /\ ledger' = ledger \cup c.posted /\ trail' = trail \cup c.notes
      /\ sent' = (IF c.kind = "patch"
                  THEN [f \in Fields |-> IF f \in c.fields THEN c.id ELSE sent[f]] ELSE sent)
      /\ work' = [work EXCEPT ![p] = NoWork]
      /\ rowLock' = (IF rowLock = p THEN Unlocked ELSE rowLock)
      /\ served' = served
  BY DEF Commit, Drop
<1>2. Shape(c) /\ Prepared(c) /\ RowOf(p) /\ Noted(c)
  BY <1>1 DEF DeskInv, Prepares, Prepared
<1>3. /\ c.new # Null =>
           /\ rowLock = p /\ c.new \in DeskRow
           /\ c.new.state = (IF c.kind = "transition" THEN c.to ELSE desk.state)
           /\ \A f \in Fields : c.new[f] = IF c.kind = "patch" /\ f \in c.fields THEN c.id ELSE desk[f]
           /\ c.new.ignored \in {desk.ignored, c.id} /\ c.new.moved \in {desk.moved, c.id}
      /\ c.kind = "patch" => c.new # Null
  BY <1>1, <1>2 DEF RowOf
<1>4. work'[p] = NoWork /\ \A q \in Handlers \ {p} : work'[q] = work[q]
  BY <1>1 DEF DeskInv, DeskTypes
<1>5. SessionCharges(ledger') = SessionCharges(ledger) \cup SessionCharges(c.posted)
  BY <1>1, ChargesOfBoth
<1>6. DeskTypes'
  BY <1>1, <1>3 DEF DeskInv, DeskTypes
<1>7. ASSUME NEW q \in Handlers PROVE Prepares(q)'
  <2>1. CASE q = p \/ work[q] = NoWork
    BY <2>1, <1>4 DEF Prepares
  <2>2. CASE q # p /\ work[q] # NoWork
    <3>1. Shape(work[q]) /\ Prepared(work[q]) /\ RowOf(q) /\ work'[q] = work[q]
      BY <2>2, <1>4 DEF DeskInv, Prepares
    <3>2. Shape(work[q])'
      BY <3>1 DEF Shape
    <3>3. Prepared(work[q])'
      BY <3>1, <1>5 DEF Prepared
    <3>4. RowOf(q)'
      <4>1. CASE work[q].new = Null
        BY <3>1, <4>1 DEF RowOf
      <4>2. CASE work[q].new # Null
        <5>1. rowLock = q
          BY <3>1, <4>2 DEF RowOf
        <5>2. desk' = desk /\ rowLock' = rowLock
          BY <5>1, <2>2, <1>1, <1>3
        <5>3. QED BY <3>1, <5>2 DEF RowOf
      <4>3. QED BY <4>1, <4>2
    <3>5. QED BY <3>2, <3>3, <3>4 DEF Prepares
  <2>3. QED BY <2>1, <2>2
<1>8. ~HoldsKey(p)' /\ \A q \in Handlers \ {p} : HoldsKey(q)' = HoldsKey(q)
  BY <1>4 DEF HoldsKey
<1>9. OneKey'
  <2>1. HoldsKey(p) <=> SessionCharges(c.posted) # {}
    BY <1>1 DEF HoldsKey
  <2>2. ASSUME NEW q \in Handlers, HoldsKey(q)'
        PROVE  SessionCharges(ledger') = {} /\ \A r \in Handlers \ {q} : ~HoldsKey(r)'
    <3>1. q # p /\ HoldsKey(q)
      BY <2>2, <1>8
    <3>2. SessionCharges(ledger) = {} /\ \A r \in Handlers \ {q} : ~HoldsKey(r)
      BY <3>1 DEF DeskInv, OneKey
    <3>3. QED BY <3>1, <3>2, <2>1, <1>5, <1>8
  <2>3. \A e, f \in SessionCharges(ledger') : e = f
    <3>1. SessionCharges(c.posted) = {} \/ SessionCharges(ledger) = {}
      BY <2>1 DEF DeskInv, OneKey
    <3>2. QED BY <3>1, <1>2, <1>5 DEF DeskInv, OneKey, Prepared
  <2>4. QED BY <2>2, <2>3 DEF OneKey
<1>10. (desk.state = "completed" => SessionCharges(ledger) # {})'
  <2>1. CASE desk'.state = desk.state
    BY <2>1, <1>5 DEF DeskInv
  <2>2. CASE desk'.state # desk.state
    <3>1. c.kind = "transition" /\ desk'.state = c.to
      BY <2>2, <1>1, <1>3
    <3>2. QED BY <3>1, <1>1, <1>2, <1>5 DEF Prepared
  <2>3. QED BY <2>1, <2>2
<1>11. EveryWriteIsAudited'
  <2> DEFINE OfLedger(rows) == {a.id : a \in {b \in rows : b.table = "ledger_entries"}}
             Ids(entries) == {e.id : e \in entries}
  <2>1. Ids(c.posted) = OfLedger(c.notes)
    <3>1. CASE c.posted = {}
      <4>1. \A a \in c.notes : a.table # "ledger_entries"
        BY <3>1, <1>2 DEF Noted, AuditOf, ChargeAuditOf, Audited
      <4>2. QED BY <3>1, <4>1
    <3>2. CASE c.posted # {}
      <4>1. Ids(c.posted) = {c.id}
        BY <3>2, <1>2 DEF Prepared
      <4>2. ChargeAuditOf(c) \in c.notes /\ ChargeAuditOf(c).table = "ledger_entries" /\ ChargeAuditOf(c).id = c.id
        BY <3>2, <1>1, <1>2 DEF Noted, ChargeAuditOf, Audited
      <4>3. \A a \in c.notes : a.id = c.id
        BY <1>2 DEF Noted, AuditOf, ChargeAuditOf, Audited
      <4>4. QED BY <4>1, <4>2, <4>3
    <3>3. QED BY <3>1, <3>2
  <2>2. Ids(ledger) = OfLedger(trail)
    BY DEF DeskInv, EveryWriteIsAudited
  <2>3. Ids(ledger \cup c.posted) = OfLedger(trail \cup c.notes)
    <3>1. Ids(ledger \cup c.posted) = Ids(ledger) \cup Ids(c.posted)
      OBVIOUS
    <3>2. OfLedger(trail \cup c.notes) = OfLedger(trail) \cup OfLedger(c.notes)
      OBVIOUS
    <3>3. QED BY <2>1, <2>2, <3>1, <3>2
  <2>4. Ids(ledger') = OfLedger(trail')
    BY <2>3, <1>1
  <2>5. ASSUME c.new # Null
        PROVE  /\ desk'.name \in {desk.name, c.id} /\ desk'.note \in {desk.note, c.id}
               /\ desk'.ignored \in {desk.ignored, c.id} /\ desk'.moved \in {desk.moved, c.id}
    <3>1. "name" \in Fields /\ "note" \in Fields
      BY DEF Fields
    <3>2. c.new["name"] \in {desk["name"], c.id} /\ c.new["note"] \in {desk["note"], c.id}
      BY <2>5, <3>1, <1>3
    <3>3. QED BY <2>5, <3>2, <1>1, <1>3
  <2>6. \A id \in {desk.moved, desk.name, desk.note, desk.ignored} \ {0} : Audited("appointments", id) \in trail
    BY DEF DeskInv, EveryWriteIsAudited
  <2>7. ASSUME NEW id \in {desk'.moved, desk'.name, desk'.note, desk'.ignored} \ {0}
        PROVE  Audited("appointments", id) \in trail'
    <3>1. CASE c.new = Null
      BY <3>1, <2>6, <2>7, <1>1
    <3>2. CASE c.new # Null
      <4>1. c.kind # "ledger"
        BY <3>2, <1>2 DEF RowOf
      <4>2. Audited("appointments", c.id) \in c.notes
        BY <4>1, <1>1, <1>2 DEF Noted, AuditOf
      <4>3. id = c.id \/ id \in {desk.moved, desk.name, desk.note, desk.ignored}
        BY <3>2, <2>5, <2>7
      <4>4. QED BY <4>2, <4>3, <2>6, <2>7, <1>1
    <3>3. QED BY <3>1, <3>2
  <2> HIDE DEF Ids, OfLedger
  <2>8. QED BY <2>4, <2>7 DEF EveryWriteIsAudited, Ids, OfLedger
<1>12. NoEditIsLost'
  <2>1. ASSUME NEW f \in Fields PROVE desk'[f] = sent'[f]
    <3>1. desk[f] = sent[f]
      BY DEF DeskInv, NoEditIsLost
    <3>2. QED BY <3>1, <1>1, <1>3
  <2>2. QED BY <2>1 DEF NoEditIsLost
<1>13. QED BY <1>6, <1>7, <1>9, <1>10, <1>11, <1>12 DEF DeskInv

LEMMA FailStep ==
  ASSUME DeskInv, NEW p \in Handlers, Fail(p)
  PROVE  DeskInv'
  BY DropStep DEF Fail, DeskInv, DeskTypes

LEMMA CrashStep ==
  ASSUME DeskInv, Crash
  PROVE  DeskInv'
<1>1. /\ work' = [p \in Handlers |-> NoWork] /\ UNCHANGED <<desk, ledger, trail, served, sent>>
  BY DEF Crash
<1>2. \A p \in Handlers : Prepares(p)' /\ ~HoldsKey(p)'
  BY <1>1 DEF Prepares, HoldsKey
<1>3. OneKey'
  BY <1>1, <1>2 DEF OneKey, DeskInv
<1>4. DeskTypes' /\ EveryWriteIsAudited' /\ NoEditIsLost'
  BY <1>1 DEF DeskInv, DeskTypes, EveryWriteIsAudited, NoEditIsLost
<1>5. QED BY <1>1, <1>2, <1>3, <1>4 DEF DeskInv

\* Nothing the invariant speaks of moves while nobody's request does.
LEMMA DeskStutter ==
  ASSUME DeskInv, UNCHANGED <<desk, ledger, trail, rowLock, work, served, sent>>
  PROVE  DeskInv'
<1>1. \A p \in Handlers : Prepares(p)' /\ HoldsKey(p)' = HoldsKey(p)
  BY DEF DeskInv, Prepares, Shape, Prepared, RowOf, HoldsKey
<1>2. OneKey'
  BY <1>1 DEF OneKey, DeskInv
<1>3. DeskTypes' /\ EveryWriteIsAudited' /\ NoEditIsLost'
  BY DEF DeskInv, DeskTypes, EveryWriteIsAudited, NoEditIsLost
<1>4. QED BY <1>1, <1>2, <1>3 DEF DeskInv

LEMMA DeskInitInv == DeskInit => DeskInv
<1> SUFFICES ASSUME DeskInit PROVE DeskInv
  OBVIOUS
<1>1. PICK state \in OpenStates : desk = [state |-> state, moved |-> 0, name |-> 0, note |-> 0, ignored |-> 0]
  BY DEF DeskInit
<1>2. /\ ledger = {} /\ trail = {} /\ served = 0 /\ work = [p \in Handlers |-> NoWork]
      /\ sent = [f \in Fields |-> 0]
  BY DEF DeskInit
<1>3. DeskTypes /\ desk.state # "completed"
  BY <1>1, <1>2, StatesSplit DEF DeskTypes, DeskRow, AppointmentStates
<1>4. \A p \in Handlers : Prepares(p) /\ ~HoldsKey(p)
  BY <1>2 DEF Prepares, HoldsKey
<1>5. OneKey
  BY <1>2, <1>4 DEF OneKey, SessionCharges, Charges
<1>6. EveryWriteIsAudited /\ NoEditIsLost
  BY <1>1, <1>2 DEF EveryWriteIsAudited, NoEditIsLost, Fields
<1>7. QED BY <1>3, <1>4, <1>5, <1>6 DEF DeskInv

LEMMA DeskStepInv == DeskInv /\ [DeskNext]_deskVars => DeskInv'
<1> SUFFICES ASSUME DeskInv, [DeskNext]_deskVars PROVE DeskInv'
  OBVIOUS
<1>1. ASSUME NEW p \in Handlers, DeskStep(p) PROVE DeskInv'
  BY <1>1, LedgerCheckStep, LedgerCountStep, LedgerInsertStep, TransitionLoadStep, PatchLoadStep,
     IgnoreLoadStep, AuthorizeStep, UpdateStep, AuditStep, BillStep, PostChargeStep, AuditChargeStep, CommitStep,
     FailStep DEF DeskStep
<1>2. CASE Crash
  BY <1>2, CrashStep
<1>3. CASE Grant \/ Revoke
  BY <1>3, DeskStutter DEF Grant, Revoke
<1>4. CASE UNCHANGED deskVars
  BY <1>4, DeskStutter DEF deskVars
<1>5. QED BY <1>1, <1>2, <1>3, <1>4 DEF DeskNext

----------------------------------------------------------------------------
(* Theorems *)

\* The invariant is inductive: whatever is posted, edited, transitioned and granted at the same time.
THEOREM DeskInductive == DeskSpec => []DeskInv
<1>1. DeskInit => DeskInv
  BY DeskInitInv
<1>2. DeskInv /\ [DeskNext]_deskVars => DeskInv'
  BY DeskStepInv
<1>3. QED BY <1>1, <1>2, PTL DEF DeskSpec

\* A completed appointment has exactly one session charge, however completion and charges by hand
\* interleave (insertSessionChargeIfAbsent beside POST /ledger).
THEOREM DeskBilledOnce == DeskSpec => []CompletedIsBilledOnce
<1>1. DeskInv => CompletedIsBilledOnce
  <2> SUFFICES ASSUME DeskInv, desk.state = "completed" PROVE Cardinality(SessionCharges(ledger)) = 1
    BY DEF CompletedIsBilledOnce
  <2>1. PICK e : e \in SessionCharges(ledger)
    BY DEF DeskInv
  <2>2. SessionCharges(ledger) = {e}
    BY <2>1 DEF DeskInv, OneKey
  <2>3. QED BY <2>2, FS_Singleton
<1>2. QED BY <1>1, DeskInductive, PTL

\* No entry and no edit is committed without its audit row.
THEOREM DeskAudited == DeskSpec => []EveryWriteIsAudited
<1>1. DeskInv => EveryWriteIsAudited
  BY DEF DeskInv
<1>2. QED BY <1>1, DeskInductive, PTL

\* Every field of the appointment holds what the last committed PATCH that sent it wrote.
THEOREM DeskKeepsEdits == DeskSpec => []NoEditIsLost
<1>1. DeskInv => NoEditIsLost
  BY DEF DeskInv
<1>2. QED BY <1>1, DeskInductive, PTL
=============================================================================
