---------------------------- MODULE AccountsProofs ----------------------------
(***************************************************************************)
(* Accounts, for every set of people, names, sessions and handlers: a      *)
(* username stays with its account, the last Admin is lost to a race only, *)
(* a reset leaves nothing of the old password behind, and no key of the    *)
(* throttle collects more failures than its limit and the other requests.  *)
(*                                                                         *)
(* The argument for the reset: rows carry a generation that only grows, so *)
(* whoever reads a row after the reset acts on a password at least as new; *)
(* whoever had read it before is on record as having disturbed the reset,  *)
(* and the second statement of the reset removes every session there is.   *)
(*                                                                         *)
(* For the throttle: a failure moves a handler from those that try to what *)
(* counts, so their sum grows only when a request is let through; then the *)
(* failures are below the limit, and those that try are handlers.          *)
(***************************************************************************)
EXTENDS Accounts, FiniteSetTheorems, SequenceTheorems, TLAPS

----------------------------------------------------------------------------
(* What a handler holds, by what it was asked and how far it is *)

LoginAsked ==
  [kind: {"login"}, at: {"find"}, name: Names, password: Passwords, token: Nat]
LoginMissed ==
  [kind: {"login"}, at: {"verify"}, name: Names, password: Passwords, token: Nat,
   seen: {[user |-> Null]}]
LoginRead ==
  [kind: {"login"}, at: {"verify", "session"}, name: Names, password: Passwords, token: Nat,
   seen: [user: People, password: Passwords \cup {Null}, gen: Nat]]
ChangeAsked ==
  [kind: {"change"}, at: {"read"}, actor: People, token: Nat, password: Passwords, new: Passwords]
ChangeSeen ==
  [kind: {"change"}, at: {"verify", "write", "others"}, actor: People, token: Nat,
   password: Passwords, new: Passwords, seen: [password: Passwords \cup {Null}, gen: Nat]]
ResetAsked ==
  [kind: {"reset"}, at: {"write", "purge"}, actor: People, target: People, new: Handed]
DeactivateAsked ==
  [kind: {"deactivate"}, at: {"write", "purge"}, actor: People, target: People]
EnableAsked ==
  [kind: {"enable"}, at: {"find", "write"}, actor: People, target: People, name: Names,
   new: Handed, mail: BOOLEAN]
CreateAsked == [kind: {"create"}, at: {"insert"}, row: Account]

\* A password read since the last reset, unless the reset was disturbed.
Fresh(u, gen) == disturbed[u] \/ gen >= resetGen[u]

Knows(p) ==
  \/ call[p] = Idle
  \/ call[p] \in LoginAsked \cup LoginMissed \cup ResetAsked \cup EnableAsked \cup CreateAsked
  \/ call[p] \in LoginRead /\ Exists(call[p].seen.user)
     /\ Fresh(call[p].seen.user, call[p].seen.gen)
  \/ call[p] \in ChangeAsked /\ Exists(call[p].actor)
  \/ call[p] \in ChangeSeen /\ Exists(call[p].actor)
     /\ (call[p].at # "others" => Fresh(call[p].actor, call[p].seen.gen))
  \/ call[p] \in DeactivateAsked /\ Exists(call[p].actor)
     /\ call[p].actor # call[p].target /\ account[call[p].actor].role = "Admin"

----------------------------------------------------------------------------
(* The inductive invariant *)

AccountsTypes ==
  /\ account \in [People -> Account \cup {Absent}]
  /\ sessions \subseteq [user: {u \in People: Exists(u)}, token: Nat, gen: Nat]
  /\ call = [p \in Handlers |-> call[p]]
  /\ begun \in Nat
  /\ resetGen \in [People -> Nat] /\ basis \in [People -> Nat]
  /\ disturbed \in [People -> BOOLEAN]

NamesUnique ==
  \A u, v \in People:
    (Exists(u) /\ Exists(v) /\ account[u].name = account[v].name) => u = v \/ account[u].name = Null

\* What a reset of u has left, its second statement included once it is over.
ResetOf(u) ==
  /\ Exists(u) => resetGen[u] <= account[u].gen
  /\ ~Exists(u) => resetGen[u] = 0
  /\ disturbed[u] \/ basis[u] >= resetGen[u]
  /\ (resetGen[u] # 0 /\ Exists(u) /\ account[u].gen = resetGen[u]) => account[u].mustChange
  /\ disturbed[u] \/ Resetting(u) \/ \A s \in sessions: s.user = u => s.gen >= resetGen[u]

AccountsInv ==
  /\ AccountsTypes
  /\ NamesUnique
  /\ \A p \in Handlers: Knows(p)
  /\ \A u \in People: ResetOf(u)

\* What a handler at a step holds.
LEMMA AtStep ==
  ASSUME NEW p \in Handlers, Knows(p)
  PROVE  /\ At(p, "login", "find") => call[p] \in LoginAsked
         /\ At(p, "login", "verify") =>
              \/ call[p] \in LoginMissed
              \/ call[p] \in LoginRead /\ Exists(call[p].seen.user)
                 /\ Fresh(call[p].seen.user, call[p].seen.gen)
         /\ At(p, "login", "session") =>
              call[p] \in LoginRead /\ Exists(call[p].seen.user)
              /\ Fresh(call[p].seen.user, call[p].seen.gen)
         /\ At(p, "change", "read") => call[p] \in ChangeAsked /\ Exists(call[p].actor)
         /\ call[p].kind = "change" /\ call[p].at \in {"verify", "write"} =>
              call[p] \in ChangeSeen /\ Exists(call[p].actor)
              /\ Fresh(call[p].actor, call[p].seen.gen)
         /\ At(p, "change", "others") => call[p] \in ChangeSeen
         /\ call[p].kind = "reset" => call[p] \in ResetAsked
         /\ call[p].kind = "deactivate" =>
              call[p] \in DeactivateAsked /\ Exists(call[p].actor)
              /\ call[p].actor # call[p].target /\ account[call[p].actor].role = "Admin"
         /\ call[p].kind = "enable" => call[p] \in EnableAsked
         /\ call[p].kind = "create" => call[p] \in CreateAsked
  BY DEF Knows, At, Idle, LoginAsked, LoginMissed, LoginRead, ChangeAsked, ChangeSeen, ResetAsked,
     DeactivateAsked, EnableAsked, CreateAsked

----------------------------------------------------------------------------
(* What a step of one handler leaves alone *)

OnlyCalls(p) == call' = [call EXCEPT ![p] = call'[p]]

\* Rows stay and keep their role, and a reset does not go unnoticed by those who read before it.
Undisturbed(r) ==
  \A u \in People:
    /\ Exists(u) => Exists(u)' /\ account'[u].role = account[u].role
    /\ disturbed[u] => disturbed'[u]
    /\ disturbed'[u] \/ resetGen'[u] = resetGen[u] \/ ~ActsOnOldRow(r, u)

LEMMA OthersKnow ==
  ASSUME NEW r \in Handlers, Knows(r), call'[r] = call[r], Undisturbed(r)
  PROVE  Knows(r)'
<1>1. CASE call[r] = Idle \/ call[r] \in LoginAsked \cup LoginMissed \cup ResetAsked \cup EnableAsked \cup CreateAsked
  BY <1>1 DEF Knows
<1>2. CASE call[r] \in LoginRead /\ Exists(call[r].seen.user)
           /\ Fresh(call[r].seen.user, call[r].seen.gen)
  <2>1. call[r].seen.user \in People /\ ActsOnOldRow(r, call[r].seen.user)
    BY <1>2 DEF LoginRead, ActsOnOldRow
  <2>2. Exists(call[r].seen.user)' /\ Fresh(call[r].seen.user, call[r].seen.gen)'
    BY <1>2, <2>1 DEF Fresh, Undisturbed
  <2>3. QED BY <1>2, <2>2 DEF Knows
<1>3. CASE call[r] \in ChangeAsked /\ Exists(call[r].actor)
  <2>1. call[r].actor \in People
    BY <1>3 DEF ChangeAsked
  <2>2. QED BY <1>3, <2>1 DEF Knows, Undisturbed
<1>4. CASE call[r] \in ChangeSeen /\ Exists(call[r].actor)
           /\ (call[r].at # "others" => Fresh(call[r].actor, call[r].seen.gen))
  <2>1. call[r].actor \in People /\ (call[r].at # "others" => ActsOnOldRow(r, call[r].actor))
    BY <1>4 DEF ChangeSeen, ActsOnOldRow
  <2>2. call[r].at # "others" => Fresh(call[r].actor, call[r].seen.gen)'
    BY <1>4, <2>1 DEF Fresh, Undisturbed
  <2>3. QED BY <1>4, <2>1, <2>2 DEF Knows, Undisturbed
<1>5. CASE call[r] \in DeactivateAsked /\ Exists(call[r].actor)
           /\ call[r].actor # call[r].target /\ account[call[r].actor].role = "Admin"
  <2>1. call[r].actor \in People
    BY <1>5 DEF DeactivateAsked
  <2>2. QED BY <1>5, <2>1 DEF Knows, Undisturbed
<1>6. QED BY <1>1, <1>2, <1>3, <1>4, <1>5 DEF Knows

\* A handler that begins or ends the second statement of a reset is the only one that tells.
LEMMA OthersReset ==
  ASSUME AccountsInv, NEW p \in Handlers, OnlyCalls(p), NEW u \in People, Resetting(u),
         ~(At(p, "reset", "purge") /\ call[p].target = u)
  PROVE  Resetting(u)'
<1>1. PICK q \in Handlers : At(q, "reset", "purge") /\ call[q].target = u
  BY DEF Resetting
<1>2. q # p /\ call'[q] = call[q]
  BY <1>1 DEF OnlyCalls, AccountsInv, AccountsTypes
<1>3. QED BY <1>1, <1>2 DEF Resetting, At

\* A step that changes neither rows nor sessions.
LEMMA QuietStep ==
  ASSUME AccountsInv, NEW p \in Handlers, OnlyCalls(p), UNCHANGED <<account, sessions, ghosts>>,
         begun' \in Nat, ~At(p, "reset", "purge"), Knows(p)'
  PROVE  AccountsInv'
<1>1. UNCHANGED <<account, sessions, resetGen, basis, disturbed>>
  BY DEF ghosts
<1>2. AccountsTypes'
  BY <1>1 DEF AccountsInv, AccountsTypes, OnlyCalls, Exists
<1>3. NamesUnique'
  BY <1>1 DEF AccountsInv, NamesUnique, Exists
<1>4. ASSUME NEW r \in Handlers PROVE Knows(r)'
  <2>1. CASE r = p
    BY <2>1
  <2>2. CASE r # p
    <3>1. Knows(r) /\ call'[r] = call[r] /\ Undisturbed(r)
      BY <1>1, <2>2 DEF AccountsInv, AccountsTypes, OnlyCalls, Undisturbed, Exists
    <3>2. QED BY <3>1, OthersKnow
  <2>3. QED BY <2>1, <2>2
<1>5. ASSUME NEW u \in People PROVE ResetOf(u)'
  BY <1>1, OthersReset DEF AccountsInv, ResetOf, Exists
<1>6. QED BY <1>2, <1>3, <1>4, <1>5 DEF AccountsInv

----------------------------------------------------------------------------
(* How a handler moves on *)

LEMMA BeginMoves ==
  ASSUME AccountsInv, NEW p \in Handlers, NEW c, Begin(p, c)
  PROVE  OnlyCalls(p) /\ call'[p] = c /\ begun' \in Nat
  BY DEF AccountsInv, AccountsTypes, Begin, OnlyCalls

LEMMA GotoMoves ==
  ASSUME AccountsInv, NEW p \in Handlers, NEW step, Goto(p, step)
  PROVE  OnlyCalls(p) /\ call'[p] = [call[p] EXCEPT !.at = step]
  BY DEF AccountsInv, AccountsTypes, Goto, OnlyCalls

LEMMA EndMoves ==
  ASSUME AccountsInv, NEW p \in Handlers, End(p)
  PROVE  OnlyCalls(p) /\ call'[p] = Idle /\ Knows(p)'
  BY DEF AccountsInv, AccountsTypes, End, OnlyCalls, Knows

LEMMA IdleIsIdle ==
  ASSUME NEW p \in Handlers, call[p] = Idle
  PROVE  ~At(p, "reset", "purge")
  BY DEF Idle, At

----------------------------------------------------------------------------
(* One lemma for each kind of step *)

\* A request arrives.
LEMMA ArriveStep ==
  ASSUME AccountsInv, NEW p \in Handlers,
         \/ LoginArrive(p) \/ ChangeArrive(p) \/ ResetArrive(p) \/ DeactivateArrive(p)
         \/ EnableArrive(p) \/ CreateArrive(p)
  PROVE  AccountsInv'
<1>1. \A s \in sessions : s.user \in People /\ Exists(s.user) /\ s.token \in Nat
  BY DEF AccountsInv, AccountsTypes
<1>2. ASSUME NEW c, Begin(p, c), UNCHANGED <<account, sessions, ghosts>>,
             call'[p] = c => Knows(p)'
      PROVE  AccountsInv'
  <2>1. call[p] = Idle
    BY DEF LoginArrive, ChangeArrive, ResetArrive, DeactivateArrive, EnableArrive, CreateArrive, Accepts
  <2>2. QED BY <1>2, <2>1, BeginMoves, IdleIsIdle, QuietStep
<1>3. CASE LoginArrive(p)
  <2>1. PICK n \in Names, w \in Passwords :
          Begin(p, [kind |-> "login", at |-> "find", name |-> n, password |-> w, token |-> begun + 1])
    BY <1>3 DEF LoginArrive
  <2>2. begun + 1 \in Nat
    BY DEF AccountsInv, AccountsTypes
  <2>3. QED BY <1>2, <1>3, <2>1, <2>2 DEF LoginArrive, Knows, LoginAsked
<1>4. CASE ChangeArrive(p)
  <2>1. PICK s \in sessions, w \in Passwords, new \in Passwords :
          Begin(p, [kind |-> "change", at |-> "read", actor |-> s.user, token |-> s.token,
                              password |-> w, new |-> new])
    BY <1>4 DEF ChangeArrive
  <2>2. Exists(s.user)'
    BY <1>1, <1>4 DEF ChangeArrive, Exists
  <2>3. QED BY <1>1, <1>2, <1>4, <2>1, <2>2 DEF ChangeArrive, Knows, ChangeAsked
<1>5. CASE ResetArrive(p)
  <2>1. PICK s \in sessions, u \in People, new \in Handed :
          Begin(p, [kind |-> "reset", at |-> "write", actor |-> s.user, target |-> u, new |-> new])
    BY <1>5 DEF ResetArrive
  <2>2. QED BY <1>1, <1>2, <1>5, <2>1 DEF ResetArrive, Knows, ResetAsked
<1>6. CASE DeactivateArrive(p)
  <2>1. PICK s \in sessions, u \in People :
          /\ account[s.user].role = "Admin" /\ u # s.user
          /\ Begin(p, [kind |-> "deactivate", at |-> "write", actor |-> s.user, target |-> u])
    BY <1>6 DEF DeactivateArrive
  <2>2. Exists(s.user)' /\ account' = account
    BY <1>1, <1>6 DEF DeactivateArrive, Exists
  <2>3. QED BY <1>1, <1>2, <1>6, <2>1, <2>2 DEF DeactivateArrive, Knows, DeactivateAsked
<1>7. CASE EnableArrive(p)
  <2>1. PICK s \in sessions, u \in People, n \in Names, w \in Handed, mail \in BOOLEAN :
          Begin(p, [kind |-> "enable", at |-> "find", actor |-> s.user, target |-> u,
                              name |-> n, new |-> w, mail |-> mail])
    BY <1>7 DEF EnableArrive
  <2>2. QED BY <1>1, <1>2, <1>7, <2>1 DEF EnableArrive, Knows, EnableAsked
<1>8. CASE CreateArrive(p)
  <2>1. PICK s \in sessions, n \in Names \cup {Null}, w \in Handed, role \in {"Admin", "Client"},
             mail \in BOOLEAN :
          /\ Ready(s)
          /\ account[s.user].role = "Admin" \/ (MayManage(s.user) /\ role = "Client")
          /\ n = Null => role = "Client"
          /\ (n # Null /\ role = "Client") => mail
          /\ \E b \in CreationTenants(s.user) :
               Begin(p, [kind |-> "create", at |-> "insert",
                                   row |-> NewRow(role, n, IF n = Null THEN Null ELSE w, b,
                                                  mail \/ role # "Client")])
    BY <1>8, Zenon DEF CreateArrive
  <2>2a. PICK e : e = (mail \/ role # "Client")
    OBVIOUS
  <2>2b. e \in BOOLEAN
    BY <2>2a
  <2>2. PICK b \in CreationTenants(s.user) :
            Begin(p, [kind |-> "create", at |-> "insert",
                                row |-> NewRow(role, n, IF n = Null THEN Null ELSE w, b, e)])
    BY <2>1, <2>2a, Zenon
  <2>3. b \in Tenants
    BY <1>1, <2>2 DEF CreationTenants, AccountsInv, AccountsTypes, Account, Exists
  <2>4. NewRow(role, n, IF n = Null THEN Null ELSE w, b, e) \in Account
    BY <2>2b, <2>3, StoredAssumption DEF NewRow, Account, Usernames
  <2>5. QED BY <1>2, <1>8, <2>2, <2>4 DEF CreateArrive, Knows, CreateAsked
<1>9. QED BY <1>3, <1>4, <1>5, <1>6, <1>7, <1>8

\* A handler reads a row, or what it read tells it to end.
LEMMA ReadStep ==
  ASSUME AccountsInv, NEW p \in Handlers,
         \/ LoginFind(p) \/ LoginVerify(p) \/ ChangeRead(p) \/ ChangeVerify(p) \/ EnableFind(p)
  PROVE  AccountsInv'
<1>1. Knows(p) /\ begun \in Nat
  BY DEF AccountsInv, AccountsTypes
<1>2. ASSUME OnlyCalls(p), Knows(p)', UNCHANGED <<account, sessions, begun, ghosts>>
      PROVE  AccountsInv'
  <2>1. ~At(p, "reset", "purge")
    BY DEF LoginFind, LoginVerify, ChangeRead, ChangeVerify, EnableFind, At
  <2>2. QED BY <1>1, <1>2, <2>1, QuietStep
<1>3. CASE LoginFind(p)
  <2> DEFINE found == {u \in People: Exists(u) /\ account[u].name = call[p].name /\ account[u].active}
             row == IF found = {} THEN [user |-> Null]
                    ELSE LET u == CHOOSE x \in found: TRUE
                         IN [user |-> u, password |-> account[u].password, gen |-> account[u].gen]
  <2>1. call[p] \in LoginAsked
    BY <1>1, <1>3, AtStep DEF LoginFind
  <2>2. /\ call' = [call EXCEPT ![p] = [kind |-> "login", at |-> "verify", name |-> call[p].name,
                                        password |-> call[p].password, token |-> call[p].token,
                                        seen |-> row]]
        /\ UNCHANGED <<account, sessions, begun, ghosts>>
    BY <1>3 DEF LoginFind
  <2>3. CASE found = {}
    <3>1. row = [user |-> Null]
      BY <2>3
    <3> HIDE DEF row
    <3>2. OnlyCalls(p) /\ call'[p] \in LoginMissed
      BY <2>1, <2>2, <3>1 DEF AccountsInv, AccountsTypes, OnlyCalls, LoginAsked, LoginMissed
    <3>3. QED BY <1>2, <2>2, <3>2 DEF Knows
  <2>4. CASE found # {}
    <3>1. PICK u \in found : row = [user |-> u, password |-> account[u].password, gen |-> account[u].gen]
      BY <2>4
    <3>2. u \in People /\ account[u] \in Account /\ resetGen[u] <= account[u].gen
      BY <3>1 DEF AccountsInv, AccountsTypes, ResetOf, Exists
    <3> HIDE DEF row
    <3>3. OnlyCalls(p) /\ call'[p] \in LoginRead
      BY <2>1, <2>2, <3>1, <3>2 DEF AccountsInv, AccountsTypes, OnlyCalls, LoginAsked, LoginRead, Account
    <3>4. PICK gen : gen = account[u].gen
      OBVIOUS
    <3>5. call'[p].seen.user = u /\ call'[p].seen.gen = gen
      BY <2>2, <3>1, <3>4 DEF AccountsInv, AccountsTypes
    <3>6. Exists(u)' /\ Fresh(u, gen)'
      BY <2>2, <3>1, <3>2, <3>4 DEF Exists, Fresh, ghosts, AccountsInv, AccountsTypes, Account
    <3>7. Exists(call[p].seen.user)' /\ Fresh(call[p].seen.user, call[p].seen.gen)'
      BY <3>5, <3>6 DEF Exists, Fresh
    <3>8. QED BY <1>2, <2>2, <3>3, <3>7 DEF Knows
  <2>5. QED BY <2>3, <2>4
<1>4. CASE LoginVerify(p)
  <2>1. UNCHANGED <<account, sessions, begun, ghosts>>
    BY <1>4 DEF LoginVerify
  <2>2. CASE End(p)
    BY <1>2, <2>1, <2>2, EndMoves
  <2>3. CASE ~End(p)
    <3>1. /\ call[p] \in LoginRead /\ Exists(call[p].seen.user)
          /\ Fresh(call[p].seen.user, call[p].seen.gen) /\ Goto(p, "session")
      BY <1>1, <1>4, <2>3, AtStep DEF LoginVerify, LoginMissed
    <3>2. OnlyCalls(p) /\ call'[p] = [call[p] EXCEPT !.at = "session"]
      BY <3>1, GotoMoves
    <3>3. call'[p] \in LoginRead /\ call'[p].seen = call[p].seen
      BY <3>1, <3>2 DEF LoginRead
    <3>4. QED BY <1>2, <2>1, <3>1, <3>2, <3>3 DEF Knows, Fresh, Exists, ghosts
  <2>4. QED BY <2>2, <2>3
<1>5. CASE ChangeRead(p)
  <2>1. call[p] \in ChangeAsked /\ Exists(call[p].actor)
    BY <1>1, <1>5, AtStep DEF ChangeRead
  <2>a. PICK u \in People : u = call[p].actor
    BY <2>1 DEF ChangeAsked
  <2>b. PICK gen : gen = account[u].gen
    OBVIOUS
  <2> DEFINE c == [kind |-> "change", at |-> "verify", actor |-> u, token |-> call[p].token,
                   password |-> call[p].password, new |-> call[p].new,
                   seen |-> [password |-> account[u].password, gen |-> account[u].gen]]
  <2>2. call' = [call EXCEPT ![p] = c] /\ UNCHANGED <<account, sessions, begun, ghosts>>
    BY <1>5, <2>a DEF ChangeRead
  <2>3. account[u] \in Account /\ resetGen[u] <= account[u].gen /\ Exists(u)
    BY <2>1, <2>a DEF AccountsInv, AccountsTypes, ResetOf, Exists, ChangeAsked
  <2>4. c \in ChangeSeen
    BY <2>1, <2>3 DEF ChangeAsked, ChangeSeen, Account
  <2>5. c.actor = u /\ c.seen.gen = gen
    BY <2>b
  <2>6. OnlyCalls(p) /\ call'[p] = c
    BY <2>2 DEF AccountsInv, AccountsTypes, OnlyCalls
  <2> HIDE DEF c
  <2>7. Exists(u)' /\ Fresh(u, gen)'
    BY <2>b, <2>2, <2>3 DEF Exists, Fresh, ghosts, AccountsInv, AccountsTypes, Account
  <2>8. Exists(call[p].actor)' /\ Fresh(call[p].actor, call[p].seen.gen)'
    BY <2>5, <2>6, <2>7 DEF Exists, Fresh
  <2>9. QED BY <1>2, <2>2, <2>4, <2>6, <2>8 DEF Knows
<1>6. CASE ChangeVerify(p)
  <2>1. UNCHANGED <<account, sessions, begun, ghosts>>
    BY <1>6 DEF ChangeVerify
  <2>2. CASE End(p)
    BY <1>2, <2>1, <2>2, EndMoves
  <2>3. CASE ~End(p)
    <3>1. /\ call[p] \in ChangeSeen /\ Exists(call[p].actor) /\ Fresh(call[p].actor, call[p].seen.gen)
          /\ Goto(p, "write")
      BY <1>1, <1>6, <2>3, AtStep DEF ChangeVerify, At
    <3>2. OnlyCalls(p) /\ call'[p] = [call[p] EXCEPT !.at = "write"]
      BY <3>1, GotoMoves
    <3>3. call'[p] \in ChangeSeen /\ call'[p].seen = call[p].seen /\ call'[p].actor = call[p].actor
      BY <3>1, <3>2 DEF ChangeSeen
    <3>4. QED BY <1>2, <2>1, <3>1, <3>2, <3>3 DEF Knows, Fresh, Exists, ghosts
  <2>4. QED BY <2>2, <2>3
<1>7. CASE EnableFind(p)
  <2>1. UNCHANGED <<account, sessions, begun, ghosts>>
    BY <1>7 DEF EnableFind
  <2>2. CASE End(p)
    BY <1>2, <2>1, <2>2, EndMoves
  <2>3. CASE ~End(p)
    <3>1. call[p] \in EnableAsked /\ Goto(p, "write")
      BY <1>1, <1>7, <2>3, AtStep DEF EnableFind, At
    <3>2. OnlyCalls(p) /\ call'[p] = [call[p] EXCEPT !.at = "write"]
      BY <3>1, GotoMoves
    <3>3. call'[p] \in EnableAsked
      BY <3>1, <3>2 DEF EnableAsked
    <3>4. QED BY <1>2, <2>1, <3>2, <3>3 DEF Knows
  <2>4. QED BY <2>2, <2>3
<1>8. QED BY <1>3, <1>4, <1>5, <1>6, <1>7

\* What the other handlers know survives, and the handler that steps knows what it should.
LEMMA AllKnow ==
  ASSUME AccountsInv, NEW p \in Handlers, OnlyCalls(p), Knows(p)', \A r \in Handlers: Undisturbed(r)
  PROVE  \A r \in Handlers: Knows(r)'
<1> SUFFICES ASSUME NEW r \in Handlers PROVE Knows(r)'
  OBVIOUS
<1>1. CASE r = p
  BY <1>1
<1>2. CASE r # p
  BY <1>2, OthersKnow DEF AccountsInv, AccountsTypes, OnlyCalls
<1>3. QED BY <1>1, <1>2

\* A step that changes sessions only: the ones it opens are of a password read since the last
\* reset, and it is over with the reset whose sessions it closes.
LEMMA SessionsStep ==
  ASSUME AccountsInv, NEW p \in Handlers, OnlyCalls(p), UNCHANGED <<account, ghosts>>, begun' \in Nat,
         Knows(p)',
         \A s \in sessions' : s \in sessions \/ (/\ s \in [user: People, token: Nat, gen: Nat]
                                               /\ Exists(s.user) /\ Fresh(s.user, s.gen)),
         At(p, "reset", "purge") => \A s \in sessions' : s.user # call[p].target
  PROVE  AccountsInv'
<1>1. UNCHANGED <<account, resetGen, basis, disturbed>>
  BY DEF ghosts
<1>2. AccountsTypes'
  <2>1. \A s \in sessions' : s \in [user: {u \in People: Exists(u)}, token: Nat, gen: Nat]
    BY DEF AccountsInv, AccountsTypes
  <2>2. QED BY <1>1, <2>1 DEF AccountsInv, AccountsTypes, OnlyCalls, Exists
<1>3. NamesUnique'
  BY <1>1 DEF AccountsInv, NamesUnique, Exists
<1>4. \A r \in Handlers: Undisturbed(r)
  BY <1>1 DEF Undisturbed, Exists
<1>5. ASSUME NEW u \in People PROVE ResetOf(u)'
  <2>1. ResetOf(u)
    BY DEF AccountsInv
  <2>2. Resetting(u)' \/ ~Resetting(u) \/ \A s \in sessions' : s.user # u
    BY OthersReset
  <2>3. (\A s \in sessions: s.user = u => s.gen >= resetGen[u]) /\ ~disturbed[u] =>
          \A s \in sessions': s.user = u => s.gen >= resetGen[u]
    BY DEF Fresh
  <2>4. QED BY <1>1, <2>1, <2>2, <2>3 DEF ResetOf, Exists
<1>6. QED BY <1>2, <1>3, <1>4, <1>5, AllKnow DEF AccountsInv

\* A session is opened or closed.
LEMMA SessionStep ==
  ASSUME AccountsInv, NEW p \in Handlers,
         LoginSession(p) \/ Logout(p) \/ ChangeOthers(p) \/ Purge(p)
  PROVE  AccountsInv'
<1>1. Knows(p) /\ begun \in Nat
  BY DEF AccountsInv, AccountsTypes
<1>2. CASE LoginSession(p)
  <2>1. call[p] \in LoginRead /\ Exists(call[p].seen.user) /\ Fresh(call[p].seen.user, call[p].seen.gen)
    BY <1>1, <1>2, AtStep DEF LoginSession
  <2>2. PICK s : s = [user |-> call[p].seen.user, token |-> call[p].token, gen |-> call[p].seen.gen]
    OBVIOUS
  <2>3. s \in [user: People, token: Nat, gen: Nat] /\ Exists(s.user) /\ Fresh(s.user, s.gen)
    BY <2>1, <2>2 DEF LoginRead
  <2>4. /\ sessions' = sessions \cup {s} /\ End(p)
        /\ UNCHANGED <<account, ghosts, begun>> /\ ~At(p, "reset", "purge")
    BY <1>2, <2>2 DEF LoginSession, At
  <2>5. QED BY <1>1, <2>3, <2>4, EndMoves, SessionsStep
<1>3. CASE Logout(p)
  <2>1. /\ Begin(p, Idle) /\ call[p] = Idle
        /\ sessions' \subseteq sessions /\ UNCHANGED <<account, ghosts>>
    BY <1>3 DEF Logout, Accepts
  <2>2. OnlyCalls(p) /\ Knows(p)' /\ begun' \in Nat /\ ~At(p, "reset", "purge")
    BY <2>1, BeginMoves, IdleIsIdle DEF Knows
  <2>3. QED BY <2>1, <2>2, SessionsStep
<1>4. CASE ChangeOthers(p)
  <2>1. sessions' \subseteq sessions /\ End(p) /\ UNCHANGED <<account, ghosts, begun>>
        /\ ~At(p, "reset", "purge")
    BY <1>4 DEF ChangeOthers, At
  <2>2. QED BY <1>1, <2>1, EndMoves, SessionsStep
<1>5. CASE Purge(p)
  <2>1. sessions' = {s \in sessions: s.user # call[p].target} /\ End(p)
        /\ UNCHANGED <<account, ghosts, begun>>
    BY <1>5 DEF Purge
  <2>2. QED BY <1>1, <2>1, EndMoves, SessionsStep
<1>6. QED BY <1>2, <1>3, <1>4, <1>5

\* A step that writes one row: it keeps the role and takes no other row's name, and whoever read
\* the row before a reset is on record.
LEMMA RowStep ==
  ASSUME AccountsInv, NEW p \in Handlers, OnlyCalls(p), Knows(p)', ~At(p, "reset", "purge"),
         sessions' = sessions, begun' \in Nat,
         NEW u \in People, NEW row \in Account, account' = [account EXCEPT ![u] = row],
         Exists(u) => row.role = account[u].role,
         row.name = Null \/ (Exists(u) /\ row.name = account[u].name) \/ ~NameTaken(row.name, u),
         NEW reset \in Nat, resetGen' = [resetGen EXCEPT ![u] = reset],
         NEW base \in Nat, basis' = [basis EXCEPT ![u] = base],
         disturbed' \in [People -> BOOLEAN], \A v \in People \ {u} : disturbed'[v] = disturbed[v],
         disturbed[u] => disturbed'[u],
         disturbed'[u] \/ reset = resetGen[u] \/ \A r \in Handlers: ~ActsOnOldRow(r, u),
         ResetOf(u)'
  PROVE  AccountsInv'
<1>1. /\ account'[u] = row /\ row # Absent
      /\ \A v \in People \ {u} : /\ account'[v] = account[v] /\ resetGen'[v] = resetGen[v]
                                 /\ basis'[v] = basis[v] /\ disturbed'[v] = disturbed[v]
      /\ resetGen'[u] = reset
  BY StoredAssumption DEF AccountsInv, AccountsTypes
<1>2. \A v \in People : Exists(v) => Exists(v)' /\ account'[v].role = account[v].role
  BY <1>1 DEF Exists
<1>3. AccountsTypes'
  <2>1. \A s \in sessions : s.user \in People /\ Exists(s.user)'
    BY <1>2 DEF AccountsInv, AccountsTypes
  <2>2. sessions' \subseteq [user: {v \in People: Exists(v)'}, token: Nat, gen: Nat]
    BY <2>1 DEF AccountsInv, AccountsTypes
  <2>3. /\ account' \in [People -> Account \cup {Absent}] /\ resetGen' \in [People -> Nat]
        /\ basis' \in [People -> Nat] /\ disturbed' \in [People -> BOOLEAN]
    BY DEF AccountsInv, AccountsTypes
  <2>4. call' = [r \in Handlers |-> call'[r]]
    BY DEF AccountsInv, AccountsTypes, OnlyCalls
  <2>5. QED BY <2>2, <2>3, <2>4 DEF AccountsTypes, Exists
<1>4. NamesUnique'
  <2> SUFFICES ASSUME NEW v \in People, NEW w \in People, v # w, Exists(v)', Exists(w)',
                      account'[v].name = account'[w].name
               PROVE  account'[v].name = Null
    BY DEF NamesUnique, Exists
  <2>1. CASE v # u /\ w # u
    BY <1>1, <2>1 DEF AccountsInv, NamesUnique, Exists
  <2>2. \A x \in People \ {u} : Exists(x) /\ row.name = account[x].name => row.name = Null
    BY DEF AccountsInv, NamesUnique, NameTaken
  <2>3. CASE v = u
    BY <1>1, <2>2, <2>3 DEF Exists
  <2>4. CASE w = u
    BY <1>1, <2>2, <2>4 DEF Exists
  <2>5. QED BY <2>1, <2>3, <2>4
<1>5. \A r \in Handlers : Undisturbed(r)
  BY <1>1, <1>2 DEF Undisturbed
<1>6. ASSUME NEW v \in People PROVE ResetOf(v)'
  <2>1. CASE v = u
    BY <2>1
  <2>2. CASE v # u
    <3>1. ResetOf(v) /\ (Resetting(v) => Resetting(v)')
      BY OthersReset DEF AccountsInv
    <3>2. QED BY <1>1, <2>2, <3>1 DEF ResetOf, Exists
  <2>3. QED BY <2>1, <2>2
<1>7. QED BY <1>3, <1>4, <1>5, <1>6, AllKnow DEF AccountsInv

\* A password is written over the one before, as a change, a reset and a new login do.
Overwritten(old, w, must) == [old EXCEPT !.password = w, !.mustChange = must, !.gen = @ + 1]

LEMMA PasswordWritten ==
  ASSUME NEW old \in Account, NEW w \in Passwords, NEW must \in BOOLEAN
  PROVE  /\ Overwritten(old, w, must) \in Account
         /\ Overwritten(old, w, must).role = old.role /\ Overwritten(old, w, must).name = old.name
         /\ Overwritten(old, w, must).mail = old.mail /\ Overwritten(old, w, must).mustChange = must
         /\ Overwritten(old, w, must).gen = old.gen + 1 /\ Overwritten(old, w, must).active = old.active
<1>1. PICK a \in Account : a = [old EXCEPT !.password = w]
  BY DEF Account
<1>2. PICK b \in Account : b = [a EXCEPT !.mustChange = must]
  BY DEF Account
<1>3. b.gen = old.gen /\ b.role = old.role /\ b.name = old.name /\ b.mail = old.mail
      /\ b.active = old.active /\ b.mustChange = must /\ old.gen + 1 \in Nat
  BY <1>1, <1>2 DEF Account
<1>4. PICK row \in Account : row = [b EXCEPT !.gen = old.gen + 1]
  BY <1>3 DEF Account
<1>5. row = Overwritten(old, w, must)
  BY <1>1, <1>2, <1>4, Zenon DEF Overwritten
<1>6. row.role = old.role /\ row.name = old.name /\ row.mail = old.mail
      /\ row.active = old.active /\ row.mustChange = must /\ row.gen = old.gen + 1
  BY <1>3, <1>4 DEF Account
<1>7. QED BY <1>5, <1>6

\* A change of password.
LEMMA ChangeStep ==
  ASSUME AccountsInv, NEW p \in Handlers, ChangeWrite(p)
  PROVE  AccountsInv'
<1>1. /\ call[p] \in ChangeSeen /\ Exists(call[p].actor) /\ Fresh(call[p].actor, call[p].seen.gen)
      /\ ~At(p, "reset", "purge")
  BY AtStep DEF AccountsInv, ChangeWrite, At
<1>2. PICK u \in People : u = call[p].actor
  BY <1>1 DEF ChangeSeen
<1>3. PICK old \in Account : old = account[u] /\ resetGen[u] <= old.gen
  BY <1>1, <1>2 DEF AccountsInv, AccountsTypes, ResetOf, Exists
<1>4. PICK w \in Passwords, base \in Nat : w = call[p].new /\ base = call[p].seen.gen
  BY <1>1 DEF ChangeSeen
<1>5. PICK row \in Account :
        /\ row = Overwritten(old, w, FALSE)
        /\ row.role = old.role /\ row.name = old.name /\ row.gen = old.gen + 1
  BY PasswordWritten, Zenon
<1>6. account' = [account EXCEPT ![u] = row] /\ basis' = [basis EXCEPT ![u] = base]
      /\ Goto(p, "others") /\ UNCHANGED <<sessions, begun, resetGen, disturbed>>
  BY <1>2, <1>3, <1>4, <1>5 DEF ChangeWrite, AccountsInv, AccountsTypes, Overwritten
<1>7. OnlyCalls(p) /\ call'[p] = [call[p] EXCEPT !.at = "others"]
  BY <1>6, GotoMoves
<1>8. call'[p] \in ChangeSeen /\ call'[p].actor = u /\ call'[p].at = "others"
  BY <1>1, <1>2, <1>7 DEF ChangeSeen
<1>9. Exists(u)' /\ account'[u] = row /\ basis'[u] = base /\ Exists(u)
  BY <1>1, <1>2, <1>6, StoredAssumption DEF Exists, AccountsInv, AccountsTypes
<1>10. Knows(p)'
  BY <1>8, <1>9 DEF Knows, Exists
<1>11. ResetOf(u)'
  <2>1. ResetOf(u) /\ (Resetting(u) => Resetting(u)') /\ resetGen[u] \in Nat /\ Fresh(u, base)
    BY <1>1, <1>2, <1>4, <1>7, OthersReset DEF AccountsInv, AccountsTypes
  <2>2. old.gen \in Nat /\ row.gen = old.gen + 1 /\ resetGen[u] <= old.gen
    BY <1>3, <1>5 DEF Account
  <2>3. disturbed[u] \/ base >= resetGen[u]
    BY <2>1 DEF Fresh
  <2>4. resetGen[u] <= row.gen /\ row.gen # resetGen[u]
    BY <2>1, <2>2
  <2>5. QED BY <1>6, <1>9, <2>1, <2>3, <2>4 DEF ResetOf, Exists
<1>12. /\ begun' \in Nat /\ resetGen' = [resetGen EXCEPT ![u] = resetGen[u]] /\ resetGen[u] \in Nat
       /\ disturbed' = disturbed /\ disturbed' \in [People -> BOOLEAN]
  BY <1>6 DEF AccountsInv, AccountsTypes
<1>13. row.role = account[u].role /\ row.name = account[u].name
  BY <1>3, <1>5
<1>14. QED
  BY <1>1, <1>6, <1>7, <1>9, <1>10, <1>11, <1>12, <1>13, RowStep

\* The first statement of a reset.
LEMMA ResetStep ==
  ASSUME AccountsInv, NEW p \in Handlers, ResetWrite(p)
  PROVE  AccountsInv'
<1>1. call[p] \in ResetAsked /\ ~At(p, "reset", "purge") /\ begun \in Nat /\ At(p, "reset", "write")
  BY AtStep DEF AccountsInv, AccountsTypes, ResetWrite, At
<1>2. CASE End(p) /\ UNCHANGED <<account, ghosts>>
  BY <1>1, <1>2, EndMoves, QuietStep DEF ResetWrite
<1>3. CASE ~(End(p) /\ UNCHANGED <<account, ghosts>>)
  <2>1. PICK u \in People, w \in Passwords : u = call[p].target /\ w = call[p].new
    BY <1>1, StoredAssumption DEF ResetAsked
  <2>2. /\ Exists(u)
        /\ account' = [account EXCEPT ![u].password = w, ![u].mustChange = TRUE, ![u].gen = @ + 1]
        /\ NoteReset(u) /\ Goto(p, "purge") /\ UNCHANGED <<sessions, begun>>
    BY <1>3, <2>1, Zenon DEF ResetWrite, InScope
  <2>3. PICK old \in Account : old = account[u]
    BY <2>2 DEF AccountsInv, AccountsTypes, Exists
  <2>4. PICK row \in Account :
          /\ row = Overwritten(old, w, TRUE)
          /\ row.role = old.role /\ row.name = old.name /\ row.mustChange = TRUE /\ row.gen = old.gen + 1
    BY PasswordWritten, Zenon
  <2>5. account' = [account EXCEPT ![u] = row]
    BY <2>2, <2>3, <2>4 DEF AccountsInv, AccountsTypes, Overwritten
  <2>6. PICK gen \in Nat : gen = old.gen + 1
    BY DEF Account
  <2>7. /\ resetGen' = [resetGen EXCEPT ![u] = gen] /\ basis' = [basis EXCEPT ![u] = gen]
        /\ disturbed' \in [People -> BOOLEAN]
        /\ \A v \in People \ {u} : disturbed'[v] = disturbed[v]
        /\ disturbed[u] => disturbed'[u]
        /\ disturbed'[u] \/ \A r \in Handlers: ~ActsOnOldRow(r, u)
    BY <2>2, <2>3, <2>6 DEF NoteReset, AccountsInv, AccountsTypes
  <2>8. OnlyCalls(p) /\ call'[p] = [call[p] EXCEPT !.at = "purge"]
    BY <2>2, GotoMoves
  <2>9. call'[p] \in ResetAsked /\ call'[p].target = u /\ call'[p].at = "purge" /\ call'[p].kind = "reset"
    BY <1>1, <2>1, <2>8 DEF ResetAsked
  <2>10. Knows(p)' /\ Resetting(u)'
    BY <2>9 DEF Knows, Resetting, At
  <2>11. Exists(u)' /\ account'[u] = row /\ resetGen'[u] = gen /\ basis'[u] = gen
    BY <2>5, <2>7, StoredAssumption DEF Exists, AccountsInv, AccountsTypes
  <2>12. ResetOf(u)'
    <3>1. account'[u].mustChange
      BY <2>4, <2>11, Zenon
    <3>2. account'[u].gen = gen
      BY <2>4, <2>6, <2>11, Zenon
    <3>3. gen <= gen /\ gen >= gen
      BY <2>6
    <3>4. QED BY <2>10, <2>11, <3>1, <3>2, <3>3 DEF ResetOf, Exists
  <2>13. row.role = account[u].role /\ row.name = account[u].name
    BY <2>3, <2>4
  <2>14. QED
    BY <1>1, <2>2, <2>5, <2>7, <2>8, <2>10, <2>12, <2>13, RowStep
<1>4. QED BY <1>2, <1>3

\* The first statement of a deactivation.
LEMMA DeactivateStep ==
  ASSUME AccountsInv, NEW p \in Handlers, DeactivateWrite(p)
  PROVE  AccountsInv'
<1>1. /\ call[p] \in DeactivateAsked /\ Exists(call[p].actor) /\ call[p].actor # call[p].target
      /\ account[call[p].actor].role = "Admin"
      /\ ~At(p, "reset", "purge") /\ begun \in Nat /\ At(p, "deactivate", "write")
  BY AtStep DEF AccountsInv, AccountsTypes, DeactivateWrite, At
<1>2. CASE End(p) /\ UNCHANGED account
  <2>1. OnlyCalls(p) /\ Knows(p)' /\ UNCHANGED <<account, sessions, resetGen, basis, disturbed, begun>>
    BY <1>2, EndMoves DEF DeactivateWrite
  <2>2. AccountsTypes'
    BY <2>1 DEF AccountsInv, AccountsTypes, OnlyCalls, Exists
  <2>3. NamesUnique' /\ \A r \in Handlers : Undisturbed(r)
    BY <2>1 DEF AccountsInv, NamesUnique, Undisturbed, Exists
  <2>4. ASSUME NEW u \in People PROVE ResetOf(u)'
    BY <1>1, <2>1, OthersReset DEF AccountsInv, ResetOf, Exists
  <2>5. QED BY <2>1, <2>2, <2>3, <2>4, AllKnow DEF AccountsInv
<1>3. CASE ~(End(p) /\ UNCHANGED account)
  <2>1. PICK u \in People, a \in People : u = call[p].target /\ a = call[p].actor
    BY <1>1 DEF DeactivateAsked
  <2>2. /\ Exists(u) /\ account' = [account EXCEPT ![u].active = FALSE]
        /\ Goto(p, "purge") /\ UNCHANGED <<sessions, begun, resetGen, basis, disturbed>>
    BY <1>3, <2>1, Zenon DEF DeactivateWrite, InScope
  <2>3. PICK old \in Account : old = account[u]
    BY <2>2 DEF AccountsInv, AccountsTypes, Exists
  <2>4. PICK row \in Account : row = [old EXCEPT !.active = FALSE]
    BY DEF Account
  <2>5. row.role = old.role /\ row.name = old.name /\ row.gen = old.gen /\ row.mustChange = old.mustChange
    BY <2>4 DEF Account
  <2>6. account' = [account EXCEPT ![u] = row]
    BY <2>2, <2>3, <2>4 DEF AccountsInv, AccountsTypes
  <2>7. OnlyCalls(p) /\ call'[p] = [call[p] EXCEPT !.at = "purge"]
    BY <2>2, GotoMoves
  <2>8. call'[p] \in DeactivateAsked /\ call'[p].target = u /\ call'[p].actor = a
    BY <1>1, <2>1, <2>7 DEF DeactivateAsked
  <2>9. account'[a] = account[a] /\ Exists(a) /\ account[a].role = "Admin" /\ a # u
    BY <1>1, <2>1, <2>6 DEF AccountsInv, AccountsTypes
  <2>10. Knows(p)'
    BY <2>8, <2>9 DEF Knows, Exists
  <2>11. Exists(u)' /\ account'[u] = row
    BY <2>6, StoredAssumption DEF Exists, AccountsInv, AccountsTypes
  <2>12. ResetOf(u)'
    <3>1. ResetOf(u) /\ (Resetting(u) => Resetting(u)')
      BY <1>1, <2>7, OthersReset DEF AccountsInv
    <3>2. QED BY <2>2, <2>3, <2>5, <2>11, <3>1 DEF ResetOf, Exists
  <2>13. /\ resetGen' = [resetGen EXCEPT ![u] = resetGen[u]] /\ basis' = [basis EXCEPT ![u] = basis[u]]
         /\ resetGen[u] \in Nat /\ basis[u] \in Nat
         /\ disturbed' = disturbed /\ disturbed' \in [People -> BOOLEAN] /\ begun' \in Nat
    BY <1>1, <2>2 DEF AccountsInv, AccountsTypes
  <2>14. row.role = account[u].role /\ row.name = account[u].name
    BY <2>3, <2>5
  <2>15. QED
    BY <1>1, <2>2, <2>6, <2>7, <2>10, <2>12, <2>13, <2>14, RowStep
<1>4. QED BY <1>2, <1>3

\* A client gets a username and a password.
WithLogin(old, n, w) ==
  [old EXCEPT !.name = n, !.password = w, !.mail = TRUE, !.mustChange = TRUE, !.gen = @ + 1]

LEMMA LoginWritten ==
  ASSUME NEW old \in Account, NEW n \in Names, NEW w \in Passwords
  PROVE  /\ WithLogin(old, n, w) \in Account /\ WithLogin(old, n, w).gen = old.gen + 1
         /\ WithLogin(old, n, w).role = old.role /\ WithLogin(old, n, w).name = n
         /\ WithLogin(old, n, w).mustChange /\ WithLogin(old, n, w).active = old.active
<1>1. PICK a \in Account : a = [old EXCEPT !.name = n]
  BY DEF Account, Usernames
<1>2. PICK b \in Account : b = [a EXCEPT !.password = w]
  BY DEF Account
<1>3. PICK c \in Account : c = [b EXCEPT !.mail = TRUE]
  BY DEF Account
<1>4. PICK d \in Account : d = [c EXCEPT !.mustChange = TRUE]
  BY DEF Account
<1>5. old.gen \in Nat /\ old.gen + 1 \in Nat /\ d.gen = old.gen /\ d.role = old.role /\ d.name = n
      /\ d.mustChange = TRUE /\ d.active = old.active
  BY <1>1, <1>2, <1>3, <1>4 DEF Account
<1>6. PICK row \in Account : row = [d EXCEPT !.gen = old.gen + 1]
  BY <1>5 DEF Account
<1>7. row.gen = old.gen + 1 /\ row.role = old.role /\ row.name = n /\ row.mustChange
      /\ row.active = old.active
  BY <1>5, <1>6 DEF Account
<1>8. row = WithLogin(old, n, w)
  BY <1>1, <1>2, <1>3, <1>4, <1>6, Zenon DEF WithLogin
<1>9. QED BY <1>7, <1>8

\* A client's login is enabled.
LEMMA EnableStep ==
  ASSUME AccountsInv, NEW p \in Handlers, EnableWrite(p)
  PROVE  AccountsInv'
<1>1. call[p] \in EnableAsked /\ ~At(p, "reset", "purge") /\ begun \in Nat /\ End(p)
      /\ UNCHANGED <<sessions, begun, resetGen, basis, disturbed, ghosts>>
  BY AtStep DEF AccountsInv, AccountsTypes, EnableWrite, At, ghosts
<1>2. OnlyCalls(p) /\ Knows(p)'
  BY <1>1, EndMoves
<1>3. CASE UNCHANGED account
  BY <1>1, <1>2, <1>3, QuietStep
<1>4. CASE ~UNCHANGED account
  <2>1. PICK u \in People, n \in Names, w \in Passwords :
          u = call[p].target /\ n = call[p].name /\ w = call[p].new
    BY <1>1, StoredAssumption DEF EnableAsked
  <2>2. /\ Exists(u) /\ ~NameTaken(n, u)
        /\ account' = [account EXCEPT ![u].name = n, ![u].password = w, ![u].mail = TRUE,
                                      ![u].mustChange = TRUE, ![u].gen = @ + 1]
    BY <1>4, <2>1, Zenon DEF EnableWrite, InScope
  <2>3. PICK old \in Account : old = account[u]
    BY <2>2 DEF AccountsInv, AccountsTypes, Exists
  <2>4. PICK row \in Account :
          /\ row = WithLogin(old, n, w)
          /\ row.gen = old.gen + 1 /\ row.role = old.role /\ row.name = n /\ row.mustChange
    BY LoginWritten, Zenon
  <2>12. account' = [account EXCEPT ![u] = row]
    BY <2>2, <2>3, <2>4, Zenon DEF AccountsInv, AccountsTypes, WithLogin
  <2>13. Exists(u)' /\ account'[u] = row
    BY <2>12, StoredAssumption DEF Exists, AccountsInv, AccountsTypes
  <2>14. ResetOf(u)'
    <3>1. ResetOf(u) /\ (Resetting(u) => Resetting(u)') /\ resetGen[u] \in Nat
      BY <1>1, <1>2, OthersReset DEF AccountsInv, AccountsTypes
    <3>2. resetGen[u] <= old.gen
      BY <2>2, <2>3, <3>1 DEF ResetOf
    <3>3. old.gen \in Nat
      BY DEF Account
    <3>4. resetGen[u] <= row.gen
      BY <2>4, <3>1, <3>2, <3>3
    <3>5. QED BY <1>1, <2>4, <2>13, <3>1, <3>4 DEF ResetOf, Exists
  <2>15. /\ resetGen' = [resetGen EXCEPT ![u] = resetGen[u]] /\ basis' = [basis EXCEPT ![u] = basis[u]]
         /\ resetGen[u] \in Nat /\ basis[u] \in Nat
         /\ disturbed' = disturbed /\ disturbed' \in [People -> BOOLEAN] /\ begun' \in Nat
    BY <1>1 DEF AccountsInv, AccountsTypes
  <2>16. row.role = account[u].role /\ ~NameTaken(row.name, u)
    BY <2>2, <2>3, <2>4
  <2>17. QED
    BY <1>1, <1>2, <2>12, <2>14, <2>15, <2>16, RowStep
<1>5. QED BY <1>3, <1>4

\* An account is created.
LEMMA CreateStep ==
  ASSUME AccountsInv, NEW p \in Handlers, CreateInsert(p)
  PROVE  AccountsInv'
<1>1. call[p] \in CreateAsked /\ ~At(p, "reset", "purge") /\ begun \in Nat /\ End(p)
      /\ UNCHANGED <<sessions, begun, resetGen, basis, disturbed, ghosts>>
  BY AtStep DEF AccountsInv, AccountsTypes, CreateInsert, At, ghosts
<1>2. OnlyCalls(p) /\ Knows(p)'
  BY <1>1, EndMoves
<1>3. CASE UNCHANGED account
  BY <1>1, <1>2, <1>3, QuietStep
<1>4. CASE ~UNCHANGED account
  <2>1. PICK row \in Account : row = call[p].row
    BY <1>1 DEF CreateAsked
  <2>2. PICK u \in People :
          /\ ~Exists(u) /\ (row.name = Null \/ ~NameTaken(row.name, u))
          /\ account' = [account EXCEPT ![u] = row]
    BY <1>4, <2>1 DEF CreateInsert
  <2>3. Exists(u)' /\ account'[u] = row
    BY <2>2, StoredAssumption DEF Exists, AccountsInv, AccountsTypes
  <2>4. ResetOf(u)'
    <3>1. ResetOf(u) /\ (Resetting(u) => Resetting(u)') /\ resetGen[u] = 0
      BY <1>1, <1>2, <2>2, OthersReset DEF AccountsInv, ResetOf
    <3>2. row.gen \in Nat
      BY DEF Account
    <3>3. 0 <= row.gen
      BY <3>2
    <3>4. QED BY <1>1, <2>3, <3>1, <3>3 DEF ResetOf, Exists
  <2>5. /\ resetGen' = [resetGen EXCEPT ![u] = resetGen[u]] /\ basis' = [basis EXCEPT ![u] = basis[u]]
        /\ resetGen[u] \in Nat /\ basis[u] \in Nat
        /\ disturbed' = disturbed /\ disturbed' \in [People -> BOOLEAN] /\ begun' \in Nat
    BY <1>1 DEF AccountsInv, AccountsTypes
  <2>6. QED
    BY <1>1, <1>2, <2>2, <2>4, <2>5, RowStep
<1>5. QED BY <1>3, <1>4

\* Time passes, or the process restarts and the requests in flight are lost.
LEMMA WorldStep ==
  ASSUME AccountsInv, Tick \/ Restart
  PROVE  AccountsInv'
<1>1. CASE Tick
  <2>1. UNCHANGED <<account, sessions, call, begun, resetGen, basis, disturbed>>
    BY <1>1 DEF Tick, ghosts
  <2>2. AccountsTypes' /\ NamesUnique'
    BY <2>1 DEF AccountsInv, AccountsTypes, NamesUnique, Exists
  <2>3. \A p \in Handlers : Knows(p)'
    BY <2>1 DEF AccountsInv, Knows, Fresh, Exists
  <2>4. \A u \in People : ResetOf(u)'
    BY <2>1 DEF AccountsInv, ResetOf, Resetting, At, Exists
  <2>5. QED BY <2>2, <2>3, <2>4 DEF AccountsInv
<1>2. CASE Restart
  <2>1. /\ UNCHANGED <<account, sessions, resetGen, basis>> /\ begun' \in Nat
        /\ call' = [p \in Handlers |-> Idle] /\ disturbed' \in [People -> BOOLEAN]
        /\ \A u \in People : disturbed'[u] = (disturbed[u] \/ Resetting(u))
    BY <1>2 DEF Restart, AccountsInv, AccountsTypes, Resetting
  <2>2. AccountsTypes' /\ NamesUnique'
    BY <2>1 DEF AccountsInv, AccountsTypes, NamesUnique, Exists
  <2>3. \A p \in Handlers : Knows(p)'
    BY <2>1 DEF Knows
  <2>4. \A u \in People : ResetOf(u)'
    BY <2>1 DEF AccountsInv, ResetOf, Exists
  <2>5. QED BY <2>2, <2>3, <2>4 DEF AccountsInv
<1>3. QED BY <1>1, <1>2

----------------------------------------------------------------------------
(* The inductive invariant, and what follows from it *)

LEMMA AccountsInitInv == AccountsInit => AccountsInv
<1> SUFFICES ASSUME AccountsInit PROVE AccountsInv
  OBVIOUS
<1>1. AccountsTypes
  BY StoredAssumption DEF AccountsInit, AccountsTypes, Exists
<1>2. NamesUnique
  BY StoredAssumption DEF AccountsInit, NamesUnique, Exists
<1>3. \A p \in Handlers : Knows(p)
  BY DEF AccountsInit, Knows
<1>4. ASSUME NEW u \in People PROVE ResetOf(u)
  <2>1. resetGen[u] = 0 /\ basis[u] = 0
    BY DEF AccountsInit
  <2>2. Exists(u) => account[u].gen \in Nat
    BY <1>1 DEF AccountsTypes, Account, Exists
  <2>3. \A s \in sessions : s.gen \in Nat
    BY <1>1 DEF AccountsTypes
  <2>4. QED BY <2>1, <2>2, <2>3 DEF ResetOf
<1>5. QED BY <1>1, <1>2, <1>3, <1>4 DEF AccountsInv

LEMMA AccountsStepInv == AccountsInv /\ [AccountsNext]_accountVars => AccountsInv'
<1> SUFFICES ASSUME AccountsInv, [AccountsNext]_accountVars PROVE AccountsInv'
  OBVIOUS
<1>1. ASSUME NEW p \in Handlers, Handle(p) PROVE AccountsInv'
  BY <1>1, ArriveStep, ReadStep, SessionStep, ChangeStep, ResetStep, DeactivateStep, EnableStep,
     CreateStep DEF Handle
<1>2. CASE UNCHANGED accountVars
  <2>1. UNCHANGED <<account, sessions, call, begun, resetGen, basis, disturbed>>
    BY <1>2 DEF accountVars, ghosts
  <2>2. AccountsTypes' /\ NamesUnique'
    BY <2>1 DEF AccountsInv, AccountsTypes, NamesUnique, Exists
  <2>3. \A p \in Handlers : Knows(p)'
    BY <2>1 DEF AccountsInv, Knows, Fresh, Exists
  <2>4. \A u \in People : ResetOf(u)'
    BY <2>1 DEF AccountsInv, ResetOf, Resetting, At, Exists
  <2>5. QED BY <2>2, <2>3, <2>4 DEF AccountsInv
<1>3. QED BY <1>1, <1>2, WorldStep DEF AccountsNext

\* Whatever requests arrive and however their statements interleave, every handler holds a row that
\* was there, names are unique, and each reset has left what ResetOf says.
THEOREM AccountsInductive == AccountsSpec => []AccountsInv
<1>1. QED BY AccountsInitInv, AccountsStepInv, PTL DEF AccountsSpec

\* A reset leaves nothing of the old password, for any number of people, sessions and requests.
THEOREM ResetsHold == AccountsSpec => []ResetHolds
<1>1. AccountsInv => ResetHolds
  <2> SUFFICES ASSUME AccountsInv, NEW u \in People, Exists(u), resetGen[u] # 0, ~disturbed[u],
                      ~Resetting(u)
               PROVE  /\ basis[u] >= resetGen[u]
                      /\ \A s \in sessions: s.user = u => s.gen >= resetGen[u]
                      /\ account[u].gen = resetGen[u] => account[u].mustChange
    BY Zenon DEF ResetHolds
  <2>1. QED BY DEF AccountsInv, ResetOf
<1>2. QED BY <1>1, AccountsInductive, PTL

\* What a step leaves of a row: its role, its name if it has one, and, but for a deactivation,
\* whether it is active.
Kept(u) ==
  /\ Exists(u)' /\ account'[u].role = account[u].role
  /\ account[u].name # Null => account'[u].name = account[u].name
  /\ \/ account'[u].active = account[u].active
     \/ \E p \in Handlers : DeactivateWrite(p) /\ call[p].target = u

LEMMA RowKept ==
  ASSUME AccountsInv, [AccountsNext]_accountVars, NEW u \in People, Exists(u)
  PROVE  Kept(u)
<1>1. PICK old \in Account : old = account[u]
  BY DEF AccountsInv, AccountsTypes, Exists
<1>2. CASE account'[u] = account[u]
  BY <1>2 DEF Kept, Exists
<1>3. ASSUME NEW new \in Account, account'[u] = new, new.role = old.role, new.active = old.active,
             old.name # Null => new.name = old.name
      PROVE  Kept(u)
  BY <1>1, <1>3, StoredAssumption, Zenon DEF Kept, Exists
<1>4. ASSUME NEW p \in Handlers, ChangeWrite(p) PROVE Kept(u)
  <2>1. call[p] \in ChangeSeen
    BY <1>4, AtStep DEF AccountsInv, ChangeWrite, At
  <2>2. PICK x \in People, w \in Passwords : x = call[p].actor /\ w = call[p].new
    BY <2>1 DEF ChangeSeen
  <2>3. account' = [account EXCEPT ![x].password = w, ![x].mustChange = FALSE, ![x].gen = @ + 1]
    BY <1>4, <2>2 DEF ChangeWrite
  <2>4. account'[u] = account[u] \/ account'[u] = Overwritten(old, w, FALSE)
    BY <1>1, <2>3 DEF Overwritten, AccountsInv, AccountsTypes
  <2>5. QED BY <1>2, <1>3, <2>4, PasswordWritten, Zenon
<1>5. ASSUME NEW p \in Handlers, ResetWrite(p) PROVE Kept(u)
  <2>1. call[p] \in ResetAsked
    BY <1>5, AtStep DEF AccountsInv, ResetWrite, At
  <2>2. PICK x \in People, w \in Passwords : x = call[p].target /\ w = call[p].new
    BY <2>1, StoredAssumption DEF ResetAsked
  <2>3. \/ account' = account
        \/ account' = [account EXCEPT ![x].password = w, ![x].mustChange = TRUE, ![x].gen = @ + 1]
    BY <1>5, <2>2, Zenon DEF ResetWrite
  <2>4. account'[u] = account[u] \/ account'[u] = Overwritten(old, w, TRUE)
    BY <1>1, <2>3 DEF Overwritten, AccountsInv, AccountsTypes
  <2>5. QED BY <1>2, <1>3, <2>4, PasswordWritten, Zenon
<1>6. ASSUME NEW p \in Handlers, EnableWrite(p) PROVE Kept(u)
  <2>1. call[p] \in EnableAsked
    BY <1>6, AtStep DEF AccountsInv, EnableWrite, At
  <2>2. PICK x \in People, n \in Names, w \in Passwords :
          x = call[p].target /\ n = call[p].name /\ w = call[p].new
    BY <2>1, StoredAssumption DEF EnableAsked
  <2>3. \/ account' = account
        \/ /\ account[x].name = Null
           /\ account' = [account EXCEPT ![x].name = n, ![x].password = w, ![x].mail = TRUE,
                                         ![x].mustChange = TRUE, ![x].gen = @ + 1]
    BY <1>6, <2>2, Zenon DEF EnableWrite, ContactOnly
  <2>4. account'[u] = account[u] \/ (old.name = Null /\ account'[u] = WithLogin(old, n, w))
    <3>1. x # u => account'[u] = account[u]
      BY <2>3 DEF AccountsInv, AccountsTypes
    <3>2. ASSUME x = u, account' # account
          PROVE  old.name = Null /\ account'[u] = WithLogin(old, n, w)
      <4>1. account[u].name = Null /\ account' = [account EXCEPT ![u] = WithLogin(account[u], n, w)]
        BY <2>3, <3>2, Zenon DEF WithLogin, AccountsInv, AccountsTypes
      <4>2. QED BY <1>1, <4>1 DEF AccountsInv, AccountsTypes
    <3>3. QED BY <3>1, <3>2
  <2>5. QED BY <1>2, <1>3, <2>4, LoginWritten, Zenon
<1>7. ASSUME NEW p \in Handlers, DeactivateWrite(p) PROVE Kept(u)
  <2>1. call[p] \in DeactivateAsked
    BY <1>7, AtStep DEF AccountsInv, DeactivateWrite, At
  <2>2. PICK x \in People : x = call[p].target
    BY <2>1 DEF DeactivateAsked
  <2>3. account' = account \/ account' = [account EXCEPT ![x].active = FALSE]
    BY <1>7, <2>2, Zenon DEF DeactivateWrite
  <2>4. CASE account'[u] = account[u]
    BY <1>2, <2>4
  <2>5. CASE account'[u] # account[u]
    <3>1. x = u /\ account'[u] = [old EXCEPT !.active = FALSE]
      BY <1>1, <2>3, <2>5 DEF AccountsInv, AccountsTypes
    <3>2. PICK new \in Account : new = [old EXCEPT !.active = FALSE]
      BY DEF Account
    <3>3. new.role = old.role /\ new.name = old.name
      BY <3>2 DEF Account
    <3>4. QED BY <1>1, <1>7, <2>2, <3>1, <3>2, <3>3, StoredAssumption, Zenon DEF Kept, Exists
  <2>6. QED BY <2>4, <2>5
<1>8. ASSUME NEW p \in Handlers, CreateInsert(p) PROVE Kept(u)
  <2>1. account'[u] = account[u]
    BY <1>8 DEF CreateInsert, AccountsInv, AccountsTypes, Exists
  <2>2. QED BY <1>2, <2>1
<1>9. CASE account' = account
  BY <1>2, <1>9
<1>10. QED
  <2>1. \/ account' = account
        \/ \E p \in Handlers : \/ ChangeWrite(p) \/ ResetWrite(p) \/ EnableWrite(p)
                              \/ DeactivateWrite(p) \/ CreateInsert(p)
    BY DEF AccountsNext, Handle, accountVars, LoginArrive, LoginFind, LoginVerify, LoginSession, Logout,
       ChangeArrive, ChangeRead, ChangeVerify, ChangeOthers, ResetArrive, DeactivateArrive, Purge,
       EnableArrive, EnableFind, CreateArrive, Tick, Restart
  <2>2. QED BY <1>4, <1>5, <1>6, <1>7, <1>8, <1>9, <2>1

\* No request renames an account or gives its name to another, for any number of them at once.
THEOREM NamesStay == AccountsSpec => NamesStick
<1> DEFINE Stay == \A u \in People: Exists(u) /\ account[u].name # Null =>
             /\ account'[u].name = account[u].name
             /\ \A v \in People \ {u}: account'[v] # Absent => account'[v].name # account[u].name
<1>1. AccountsInv /\ [AccountsNext]_accountVars => [Stay]_accountVars
  <2> SUFFICES ASSUME AccountsInv, [AccountsNext]_accountVars, NEW u \in People, Exists(u),
                      account[u].name # Null
               PROVE  /\ account'[u].name = account[u].name
                      /\ \A v \in People \ {u}: account'[v] # Absent =>
                           account'[v].name # account[u].name
    BY Zenon
  <2>1. Exists(u)' /\ account'[u].name = account[u].name
    BY RowKept DEF Kept
  <2>2. NamesUnique'
    BY AccountsStepInv DEF AccountsInv
  <2>3. QED BY <2>1, <2>2 DEF NamesUnique, Exists
<1>2. AccountsSpec => [][Stay]_accountVars
  BY <1>1, AccountsInductive, PTL DEF AccountsSpec
<1>3. QED BY <1>2 DEF NamesStick

\* Where there is an active Admin to begin with, two Admins that archive each other are the only way
\* to be left without one: the actor of a deactivation is never its target.
THEOREM LockoutIsARace ==
  (\E u \in People: Stored[u] # Absent /\ Stored[u].role = "Admin" /\ Stored[u].active)
    /\ AccountsSpec => []LockoutNeedsARace
<1>1. (\E u \in People: Stored[u] # Absent /\ Stored[u].role = "Admin" /\ Stored[u].active)
        /\ AccountsInit => LockoutNeedsARace
  BY DEF AccountsInit, LockoutNeedsARace, Exists
<1>2. AccountsInv /\ LockoutNeedsARace /\ [AccountsNext]_accountVars => LockoutNeedsARace'
  <2> SUFFICES ASSUME AccountsInv, LockoutNeedsARace, [AccountsNext]_accountVars, ~crossed'
               PROVE  \E u \in People: Exists(u)' /\ account'[u].role = "Admin" /\ account'[u].active
    BY DEF LockoutNeedsARace, Exists
  <2>1. ~crossed
    <3>1. ASSUME NEW p \in Handlers, DeactivateWrite(p) PROVE ~crossed
      BY <3>1, Zenon DEF DeactivateWrite
    <3>2. (\E p \in Handlers : DeactivateWrite(p)) \/ crossed' = crossed
      <4>1. ASSUME NEW p \in Handlers, LoginArrive(p) \/ LoginFind(p) \/ LoginVerify(p)
                      \/ LoginSession(p) \/ Logout(p) \/ Purge(p)
            PROVE  crossed' = crossed
        BY <4>1 DEF ghosts, LoginArrive, LoginFind, LoginVerify, LoginSession, Logout, Purge
      <4>2. ASSUME NEW p \in Handlers, ChangeArrive(p) \/ ChangeRead(p) \/ ChangeVerify(p)
                      \/ ChangeWrite(p) \/ ChangeOthers(p)
            PROVE  crossed' = crossed
        BY <4>2 DEF ghosts, ChangeArrive, ChangeRead, ChangeVerify, ChangeWrite, ChangeOthers
      <4>3. ASSUME NEW p \in Handlers, ResetArrive(p) \/ ResetWrite(p) \/ DeactivateArrive(p)
            PROVE  crossed' = crossed
        BY <4>3, Zenon DEF ghosts, ResetArrive, ResetWrite, NoteReset, DeactivateArrive
      <4>4. ASSUME NEW p \in Handlers, EnableArrive(p) \/ EnableFind(p) \/ EnableWrite(p)
                      \/ CreateArrive(p) \/ CreateInsert(p)
            PROVE  crossed' = crossed
        BY <4>4 DEF ghosts, EnableArrive, EnableFind, EnableWrite, CreateArrive, CreateInsert
      <4>5. (Tick \/ Restart \/ UNCHANGED accountVars) => crossed' = crossed
        BY DEF accountVars, ghosts, Tick, Restart
      <4>6. QED BY <4>1, <4>2, <4>3, <4>4, <4>5 DEF AccountsNext, Handle
    <3>3. QED BY <3>1, <3>2
  <2>2. PICK u \in People : Exists(u) /\ account[u].role = "Admin" /\ account[u].active
    BY <2>1 DEF LockoutNeedsARace
  <2>3. CASE account'[u].active = account[u].active
    BY <2>2, <2>3, RowKept DEF Kept
  <2>4. CASE account'[u].active # account[u].active
    <3>1. PICK p \in Handlers : DeactivateWrite(p) /\ call[p].target = u
      BY <2>2, <2>4, RowKept DEF Kept
    <3>2. /\ call[p] \in DeactivateAsked /\ Exists(call[p].actor) /\ call[p].actor # u
          /\ account[call[p].actor].role = "Admin"
      BY <3>1, AtStep DEF AccountsInv, DeactivateWrite, At
    <3>3. PICK a \in People : a = call[p].actor
      BY <3>2 DEF DeactivateAsked
    <3>4. account' = account \/ (/\ account' = [account EXCEPT ![u].active = FALSE]
                                 /\ account[a].active)
      BY <3>1, <3>3, Zenon DEF DeactivateWrite
    <3>5. account' # account
      BY <2>4
    <3>6. account'[a] = account[a]
      BY <3>2, <3>3, <3>4 DEF AccountsInv, AccountsTypes
    <3>7. QED BY <3>2, <3>3, <3>4, <3>5, <3>6 DEF Exists
  <2>5. QED BY <2>3, <2>4
<1>3. QED BY <1>1, <1>2, AccountsInductive, PTL DEF AccountsSpec

----------------------------------------------------------------------------
(* The throttle *)

\* A set of naturals that is not empty has a least element.
LEMMA LeastNat ==
  ASSUME NEW T \in SUBSET Nat, T # {}
  PROVE  \E m \in T : \A n \in T : m <= n
<1> DEFINE R == OpToRel(<, Nat)
<1>1. IsWellFoundedOn(R, Nat)
  BY NatLessThanWellFounded
<1>2. \A x, y \in Nat : <<x, y>> \in R <=> x < y
  BY DEF OpToRel
<1> HIDE DEF R
<1>3. PICK m \in T : \A n \in T : ~ (<<n, m>> \in R)
  BY <1>1, WFMin
<1>4. \A n \in T : ~(n < m)
  BY <1>2, <1>3
<1>5. QED BY <1>4

\* The failures that still count are what is left from the first of them on, or none at all.
LEMMA SurvivorsAre ==
  ASSUME NEW times \in Seq(Nat), NEW at \in Nat
  PROVE  \/ /\ \A i \in DOMAIN times : ~(times[i] > at - Window)
            /\ Survivors(times, at) = <<>>
         \/ \E m \in DOMAIN times :
              /\ times[m] > at - Window
              /\ \A i \in DOMAIN times : times[i] > at - Window => m <= i
              /\ Survivors(times, at) = SubSeq(times, m, Len(times))
<1> DEFINE live == {i \in DOMAIN times : times[i] > at - Window}
<1>1. CASE live = {}
  BY <1>1 DEF Survivors
<1>2. CASE live # {}
  <2>1. live \subseteq Nat
    BY LenProperties
  <2>2. \E m \in live : \A i \in live : m <= i
    BY <1>2, <2>1, LeastNat
  <2>3. PICK m : m = CHOOSE i \in live : \A j \in live : i <= j
    OBVIOUS
  <2>4. m \in live /\ \A i \in live : m <= i
    BY <2>2, <2>3
  <2>5. Survivors(times, at) = SubSeq(times, m, Len(times))
    BY <1>2, <2>3 DEF Survivors
  <2>6. QED BY <2>4, <2>5
<1>3. QED BY <1>1, <1>2

\* The length of a suffix.
LEMMA SuffixLength ==
  ASSUME NEW times \in Seq(Nat), NEW m \in DOMAIN times
  PROVE  /\ m \in 1..Len(times) /\ Len(times) \in Nat
         /\ SubSeq(times, m, Len(times)) \in Seq(Nat)
         /\ Len(SubSeq(times, m, Len(times))) = Len(times) - m + 1
<1>1. m \in 1..Len(times) /\ Len(times) \in Nat
  BY LenProperties
<1>2. \A i \in m..Len(times) : times[i] \in Nat
  BY <1>1, ElementOfSeq
<1>3. QED BY <1>1, <1>2, SubSeqProperties

\* No more count than there are, and fewer as time goes by.
LEMMA SurvivorsBounded ==
  ASSUME NEW times \in Seq(Nat), NEW at \in Nat
  PROVE  /\ Survivors(times, at) \in Seq(Nat)
         /\ Len(Survivors(times, at)) \in Nat
         /\ Len(Survivors(times, at)) <= Len(times)
<1>1. CASE Survivors(times, at) = <<>>
  BY <1>1, EmptySeq, LenProperties
<1>2. ASSUME NEW m \in DOMAIN times, Survivors(times, at) = SubSeq(times, m, Len(times))
      PROVE  /\ Survivors(times, at) \in Seq(Nat)
             /\ Len(Survivors(times, at)) \in Nat
             /\ Len(Survivors(times, at)) <= Len(times)
  BY <1>2, SuffixLength
<1>3. QED BY <1>1, <1>2, SurvivorsAre

LEMMA SurvivorsShrink ==
  ASSUME NEW times \in Seq(Nat), NEW at \in Nat, NEW later \in Nat, at <= later
  PROVE  Len(Survivors(times, later)) <= Len(Survivors(times, at))
<1>1. \A i \in DOMAIN times : times[i] \in Nat
  BY LenProperties, ElementOfSeq
<1>2. Window \in Nat
  BY AccountsAssumption
<1>3. CASE Survivors(times, later) = <<>>
  BY <1>3, SurvivorsBounded, EmptySeq
<1>4. ASSUME NEW m \in DOMAIN times, times[m] > later - Window,
             Survivors(times, later) = SubSeq(times, m, Len(times))
      PROVE  Len(Survivors(times, later)) <= Len(Survivors(times, at))
  <2>1. times[m] > at - Window
    BY <1>1, <1>2, <1>4
  <2>2. PICK n \in DOMAIN times : n <= m /\ Survivors(times, at) = SubSeq(times, n, Len(times))
    BY <2>1, SurvivorsAre
  <2>3. QED BY <1>4, <2>2, SuffixLength
<1>5. QED BY <1>3, <1>4, SurvivorsAre

\* What the throttle keeps, with the bound the runs check.
ThrottleInv ==
  /\ hits \in [Keys -> Seq(Nat)] /\ now \in Nat
  /\ AttemptsBounded

\* How the failures of a key are after a step of the throttle: forgotten, pruned, or left.
Trimmed(h, g, k) == h[k] \in {<<>>, Live(g, k), g[k]}

LEMMA LiveBounded ==
  ASSUME NEW h \in [Keys -> Seq(Nat)], NEW k \in Keys, now \in Nat
  PROVE  /\ Live(h, k) \in Seq(Nat) /\ Len(Live(h, k)) \in Nat
         /\ Len(Live(h, k)) <= Len(h[k]) /\ Len(h[k]) \in Nat
<1>1. h[k] \in Seq(Nat)
  OBVIOUS
<1>2. QED BY <1>1, SurvivorsBounded, LenProperties DEF Live

\* Trimming never lets more failures count.
LEMMA TrimmedCounts ==
  ASSUME NEW g \in [Keys -> Seq(Nat)], NEW h, NEW k \in Keys, now \in Nat, Trimmed(h, g, k)
  PROVE  h[k] \in Seq(Nat) /\ Len(Live(h, k)) <= Len(Live(g, k))
<1>1. g[k] \in Seq(Nat)
  OBVIOUS
<1>2. CASE h[k] = <<>>
  <2>1. Len(Survivors(h[k], now)) = 0
    <3>1. Survivors(h[k], now) = <<>>
      BY <1>2 DEF Survivors
    <3>2. QED BY <3>1, EmptySeq
  <2>2. QED BY <1>2, <2>1, EmptySeq, LiveBounded DEF Live
<1>3. CASE h[k] = Live(g, k)
  BY <1>1, <1>3, LiveBounded, SurvivorsBounded DEF Live
<1>4. CASE h[k] = g[k]
  BY <1>1, <1>4, LiveBounded DEF Live
<1>5. QED BY <1>2, <1>3, <1>4 DEF Trimmed

\* The sweep, and the shedding of surplus keys, only trim.
LEMMA SweepTrims ==
  ASSUME NEW g, NEW k \in Keys
  PROVE  Trimmed(Sweep(g), g, k)
<1>1. ASSUME NEW h PROVE Shed(h)[k] \in {<<>>, h[k]}
  BY DEF Shed
<1>2. [x \in Keys |-> Live(g, x)][k] = Live(g, k)
  OBVIOUS
<1>3. QED BY <1>1, <1>2 DEF Sweep, Trimmed

LEMMA SweepDomain ==
  ASSUME NEW g, g = [k \in Keys |-> g[k]]
  PROVE  Sweep(g) = [k \in Keys |-> Sweep(g)[k]]
<1>1. ASSUME NEW h PROVE Shed(h) = [k \in Keys |-> Shed(h)[k]]
  BY DEF Shed
<1>2. QED BY <1>1 DEF Sweep

\* One more failure for the keys of the limits, and no more for any other.
LEMMA FailureCounts ==
  ASSUME hits \in [Keys -> Seq(Nat)], now \in Nat, NEW limits, RecordFailure(limits)
  PROVE  /\ hits' \in [Keys -> Seq(Nat)]
         /\ \A k \in Keys :
              /\ Len(Live(hits', k)) <= Len(Live(hits, k)) + 1
              /\ (\A l \in limits : l.key # k) => Len(Live(hits', k)) <= Len(Live(hits, k))
<1> DEFINE failed == [k \in Keys |-> IF \E l \in limits : l.key = k THEN Append(Live(hits, k), now) ELSE hits[k]]
<1>1. hits' = Sweep(failed)
  BY DEF RecordFailure
<1>2. ASSUME NEW k \in Keys
      PROVE  /\ failed[k] \in Seq(Nat)
             /\ Len(Live(failed, k)) <= Len(Live(hits, k)) + 1
             /\ (\A l \in limits : l.key # k) => Len(Live(failed, k)) <= Len(Live(hits, k))
  <2>1. CASE \E l \in limits : l.key = k
    <3>1. failed[k] = Append(Live(hits, k), now)
      BY <2>1
    <3>2. Live(hits, k) \in Seq(Nat) /\ Len(Live(hits, k)) \in Nat
      BY LiveBounded
    <3>3. failed[k] \in Seq(Nat) /\ Len(failed[k]) = Len(Live(hits, k)) + 1
      BY <3>1, <3>2, AppendProperties
    <3> HIDE DEF failed
    <3>4. QED BY <2>1, <3>2, <3>3, SurvivorsBounded DEF Live
  <2>2. CASE ~\E l \in limits : l.key = k
    <3>1. failed[k] = hits[k] /\ hits[k] \in Seq(Nat)
      BY <2>2
    <3> HIDE DEF failed
    <3>2. QED BY <3>1, LiveBounded DEF Live
  <2>3. QED BY <2>1, <2>2
<1>3. failed \in [Keys -> Seq(Nat)] /\ failed = [k \in Keys |-> failed[k]]
  BY <1>2
<1> HIDE DEF failed
<1>4. ASSUME NEW k \in Keys PROVE hits'[k] \in Seq(Nat) /\ Len(Live(hits', k)) <= Len(Live(failed, k))
  BY <1>1, <1>3, SweepTrims, TrimmedCounts
<1>5. hits' \in [Keys -> Seq(Nat)]
  BY <1>1, <1>3, <1>4, SweepDomain
<1>6. \A k \in Keys : Len(Live(hits', k)) \in Nat /\ Len(Live(hits, k)) \in Nat /\ Len(Live(failed, k)) \in Nat
  BY <1>3, <1>5, LiveBounded
<1>7. QED BY <1>2, <1>4, <1>5, <1>6

LEMMA ClearCounts ==
  ASSUME hits \in [Keys -> Seq(Nat)], now \in Nat, NEW limits, Clear(limits)
  PROVE  /\ hits' \in [Keys -> Seq(Nat)]
         /\ \A k \in Keys : Len(Live(hits', k)) <= Len(Live(hits, k))
<1>1. ASSUME NEW k \in Keys PROVE Trimmed(hits', hits, k)
  BY DEF Clear, Trimmed
<1>2. hits' = [k \in Keys |-> hits'[k]]
  BY DEF Clear
<1>3. QED BY <1>1, <1>2, TrimmedCounts

\* Who is trying: some of the handlers; and a step of one handler leaves the others as they were.
LEMMA TryingFinite ==
  ASSUME NEW k
  PROVE  /\ IsFiniteSet(Trying(k)) /\ Cardinality(Trying(k)) \in Nat
         /\ Cardinality(Trying(k)) <= Cardinality(Handlers) /\ Cardinality(Handlers) \in Nat
<1>1. Trying(k) \in SUBSET Handlers /\ IsFiniteSet(Handlers)
  BY AccountsAssumption DEF Trying
<1>2. QED BY <1>1, FS_Subset, FS_CardinalityType

LEMMA OthersTry ==
  ASSUME AccountsInv, NEW p \in Handlers, OnlyCalls(p), NEW k
  PROVE  Trying(k)' \ {p} = Trying(k) \ {p}
<1>1. \A q \in Handlers \ {p} : call'[q] = call[q]
  BY DEF OnlyCalls, AccountsInv, AccountsTypes
<1>2. \A q \in Handlers \ {p} : q \in Trying(k)' <=> q \in Trying(k)
  BY <1>1 DEF Trying
<1>3. Trying(k)' \subseteq Handlers /\ Trying(k) \subseteq Handlers
  BY DEF Trying
<1>4. QED BY <1>2, <1>3

\* The number of those that try grows only if the handler begins, and drops by one if it is done.
LEMMA TryingCounts ==
  ASSUME AccountsInv, NEW p \in Handlers, OnlyCalls(p), NEW k
  PROVE  /\ Cardinality(Trying(k)') \in Nat /\ Cardinality(Trying(k)') <= Cardinality(Handlers)
         /\ (p \in Trying(k)' => p \in Trying(k)) => Cardinality(Trying(k)') <= Cardinality(Trying(k))
         /\ p \in Trying(k) /\ p \notin Trying(k)' =>
              Cardinality(Trying(k)') = Cardinality(Trying(k)) - 1
<1>1. Trying(k)' \ {p} = Trying(k) \ {p}
  BY OthersTry
<1>2. /\ IsFiniteSet(Trying(k)) /\ Cardinality(Trying(k)) \in Nat
      /\ IsFiniteSet(Trying(k)') /\ Cardinality(Trying(k)') \in Nat
      /\ Cardinality(Trying(k)') <= Cardinality(Handlers)
  <2>1. Trying(k)' \in SUBSET Handlers /\ IsFiniteSet(Handlers)
    BY AccountsAssumption DEF Trying
  <2>2. QED BY <2>1, TryingFinite, FS_Subset, FS_CardinalityType
<1>3. (p \in Trying(k)' => p \in Trying(k)) => Trying(k)' \subseteq Trying(k)
  BY <1>1
<1>4. p \in Trying(k) /\ p \notin Trying(k)' => Trying(k)' = Trying(k) \ {p}
  BY <1>1
<1>5. Trying(k)' \subseteq Trying(k) => Cardinality(Trying(k)') <= Cardinality(Trying(k))
  BY <1>2, FS_Subset
<1>6. p \in Trying(k) => Cardinality(Trying(k) \ {p}) = Cardinality(Trying(k)) - 1
  BY <1>2, FS_RemoveElement
<1>7. QED BY <1>2, <1>3, <1>4, <1>5, <1>6

LEMMA MaxOfKeys ==
  /\ \A k \in Keys : MaxOf(k) \in Nat \ {0}
  /\ \A n : \A l \in LoginLimits(n) : l.max = MaxOf(l.key)
  /\ \A u : \A l \in PasswordChangeLimits(u) : l.max = MaxOf(l.key)
<1>1. MaxIdentity \in Nat \ {0} /\ MaxClient \in Nat \ {0} /\ MaxChange \in Nat \ {0}
  BY AccountsAssumption
<1>2. \A k \in Keys : MaxOf(k) \in Nat \ {0}
  BY <1>1 DEF Keys, MaxOf
<1>3. ASSUME NEW n, NEW l \in LoginLimits(n) PROVE l.max = MaxOf(l.key)
  <2>1. \/ l = [key |-> <<"identity", n>>, max |-> MaxIdentity]
        \/ l = [key |-> <<"client", "any">>, max |-> MaxClient]
    BY DEF LoginLimits, LoginIdentityLimits
  <2>2. MaxOf(<<"identity", n>>) = MaxIdentity /\ MaxOf(<<"client", "any">>) = MaxClient
    BY DEF MaxOf
  <2>3. QED BY <2>1, <2>2
<1>4. ASSUME NEW u, NEW l \in PasswordChangeLimits(u) PROVE l.max = MaxOf(l.key)
  <2>1. l = [key |-> <<"change", u>>, max |-> MaxChange]
    BY DEF PasswordChangeLimits
  <2>2. MaxOf(<<"change", u>>) = MaxChange
    BY DEF MaxOf
  <2>3. QED BY <2>1, <2>2
<1>5. QED BY <1>2, <1>3, <1>4

\* The bound on one key.
KeyBounded(k) == Len(Live(hits, k)) + Cardinality(Trying(k)) <= MaxOf(k) + Cardinality(Handlers) - 1

\* After a step that takes no time.
LEMMA BoundAfter ==
  ASSUME NEW k, now' = now,
         Len(Live(hits', k)) + Cardinality(Trying(k)') <= MaxOf(k) + Cardinality(Handlers) - 1
  PROVE  KeyBounded(k)'
<1>1. Live(hits, k)' = Live(hits', k)
  BY DEF Live
<1>2. MaxOf(k)' = MaxOf(k)
  BY DEF MaxOf
<1>3. KeyBounded(k)' <=> (Len(Live(hits, k)') + Cardinality(Trying(k)') <= MaxOf(k)' + Cardinality(Handlers) - 1)
  BY DEF KeyBounded
<1>4. QED BY <1>1, <1>2, <1>3

\* No failure: a handler that begins found the key below its limit, and no other one begins.
LEMMA CalmStep ==
  ASSUME AccountsInv, ThrottleInv, NEW p \in Handlers, OnlyCalls(p), now' = now,
         hits' \in [Keys -> Seq(Nat)],
         \A k \in Keys : Len(Live(hits', k)) <= Len(Live(hits, k)),
         \A k \in Keys : p \in Trying(k)' /\ p \notin Trying(k) => Len(Live(hits, k)) < MaxOf(k)
  PROVE  ThrottleInv'
<1>1. ASSUME NEW k \in Keys PROVE KeyBounded(k)'
  <2>1. /\ Len(Live(hits, k)) \in Nat /\ Len(Live(hits', k)) \in Nat
        /\ Len(Live(hits', k)) <= Len(Live(hits, k))
    BY LiveBounded DEF ThrottleInv
  <2>3. /\ Cardinality(Handlers) \in Nat /\ Cardinality(Trying(k)) \in Nat
        /\ Cardinality(Trying(k)') \in Nat /\ Cardinality(Trying(k)') <= Cardinality(Handlers)
        /\ (p \in Trying(k)' => p \in Trying(k)) => Cardinality(Trying(k)') <= Cardinality(Trying(k))
    BY TryingCounts, TryingFinite
  <2>4. MaxOf(k) \in Nat /\ KeyBounded(k)
    BY MaxOfKeys DEF ThrottleInv, AttemptsBounded, KeyBounded
  <2>6. p \in Trying(k)' /\ p \notin Trying(k) => Len(Live(hits, k)) < MaxOf(k)
    OBVIOUS
  <2>7. Len(Live(hits', k)) + Cardinality(Trying(k)') <= MaxOf(k) + Cardinality(Handlers) - 1
    BY <2>1, <2>3, <2>4, <2>6 DEF KeyBounded
  <2>8. QED BY <2>7, BoundAfter
<1>2. QED BY <1>1 DEF ThrottleInv, AttemptsBounded, KeyBounded

\* A failure counts for keys that the handler was trying, and it is done trying.
LEMMA FailedStep ==
  ASSUME AccountsInv, ThrottleInv, NEW p \in Handlers, OnlyCalls(p), now' = now, call'[p] = Idle,
         NEW limits, RecordFailure(limits),
         \A l \in limits : p \in Trying(l.key)
  PROVE  ThrottleInv'
<1>1. ASSUME NEW k \in Keys PROVE KeyBounded(k)'
  <2>1. /\ Len(Live(hits, k)) \in Nat /\ Len(Live(hits', k)) \in Nat
        /\ Len(Live(hits', k)) <= Len(Live(hits, k)) + 1
        /\ (\A l \in limits : l.key # k) => Len(Live(hits', k)) <= Len(Live(hits, k))
    BY LiveBounded, FailureCounts DEF ThrottleInv
  <2>3. p \notin Trying(k)'
    BY DEF Trying, Idle
  <2>4. /\ Cardinality(Handlers) \in Nat /\ Cardinality(Trying(k)) \in Nat
        /\ Cardinality(Trying(k)') \in Nat /\ Cardinality(Trying(k)') <= Cardinality(Trying(k))
        /\ p \in Trying(k) => Cardinality(Trying(k)') = Cardinality(Trying(k)) - 1
    BY <2>3, TryingCounts, TryingFinite
  <2>5. MaxOf(k) \in Nat /\ KeyBounded(k)
    BY MaxOfKeys DEF ThrottleInv, AttemptsBounded, KeyBounded
  <2>6. p \in Trying(k) \/ \A l \in limits : l.key # k
    OBVIOUS
  <2>7. Len(Live(hits', k)) + Cardinality(Trying(k)') <= MaxOf(k) + Cardinality(Handlers) - 1
    BY <2>1, <2>4, <2>5, <2>6 DEF KeyBounded
  <2>8. QED BY <2>7, BoundAfter
<1>2. hits' \in [Keys -> Seq(Nat)]
  BY FailureCounts DEF ThrottleInv
<1>3. QED BY <1>1, <1>2 DEF ThrottleInv, AttemptsBounded, KeyBounded

\* A request that is let through found every key of its limits below the maximum.
LEMMA NotBlocked ==
  ASSUME ThrottleInv, NEW limits, ~Blocked(limits), NEW l \in limits, l.key \in Keys,
         l.max = MaxOf(l.key)
  PROVE  Len(Live(hits, l.key)) < MaxOf(l.key)
<1>1. Len(Live(hits, l.key)) \in Nat /\ MaxOf(l.key) \in Nat
  BY LiveBounded, MaxOfKeys DEF ThrottleInv
<1>2. ~(Len(Live(hits, l.key)) >= l.max)
  BY DEF Blocked
<1>3. QED BY <1>1, <1>2

\* A step that leaves the throttle alone, of a handler that tries no other key than before.
LEMMA UncountedStep ==
  ASSUME AccountsInv, ThrottleInv, NEW p \in Handlers, OnlyCalls(p), UNCHANGED <<hits, now>>,
         \A k \in Keys : p \in Trying(k)' => p \in Trying(k) \/ Len(Live(hits, k)) < MaxOf(k)
  PROVE  ThrottleInv'
<1>1. hits' \in [Keys -> Seq(Nat)]
  BY DEF ThrottleInv
<1>2. \A k \in Keys : Len(Live(hits', k)) <= Len(Live(hits, k))
  BY LiveBounded DEF ThrottleInv
<1>3. QED BY <1>1, <1>2, CalmStep

LEMMA LoginThrottled ==
  ASSUME AccountsInv, ThrottleInv, NEW p \in Handlers,
         LoginArrive(p) \/ LoginFind(p) \/ LoginVerify(p)
  PROVE  ThrottleInv'
<1>1. Knows(p)
  BY DEF AccountsInv
<1>2. CASE LoginArrive(p)
  <2>1. PICK n \in Names, w \in Passwords :
          /\ ~Blocked(LoginLimits(n))
          /\ Begin(p, [kind |-> "login", at |-> "find", name |-> n, password |-> w, token |-> begun + 1])
    BY <1>2 DEF LoginArrive
  <2>2. OnlyCalls(p) /\ call'[p].name = n /\ call'[p].kind = "login"
    BY <2>1, BeginMoves
  <2>3. ASSUME NEW k \in Keys, p \in Trying(k)' PROVE Len(Live(hits, k)) < MaxOf(k)
    <3>1. \E l \in LoginLimits(call'[p].name) : l.key = k
      BY <2>2, <2>3 DEF Trying
    <3>2. PICK l \in LoginLimits(n) : l.key = k
      BY <2>2, <3>1
    <3>3. QED BY <2>1, <3>2, MaxOfKeys, NotBlocked
  <2>4. QED BY <1>2, <2>2, <2>3, UncountedStep DEF LoginArrive
<1>3. CASE LoginFind(p)
  <2>1. call[p].kind = "login" /\ call[p].at = "find"
    BY <1>3 DEF LoginFind, At
  <2>2. OnlyCalls(p) /\ call'[p].name = call[p].name /\ call'[p].kind = "login"
    BY <1>3 DEF LoginFind, OnlyCalls, AccountsInv, AccountsTypes
  <2>3. ASSUME NEW k \in Keys, p \in Trying(k)' PROVE p \in Trying(k)
    <3>1. \E l \in LoginLimits(call'[p].name) : l.key = k
      BY <2>2, <2>3 DEF Trying
    <3>2. QED BY <2>1, <2>2, <3>1 DEF Trying
  <2>4. QED BY <1>3, <2>2, <2>3, UncountedStep DEF LoginFind
<1>4. CASE LoginVerify(p)
  <2>1. At(p, "login", "verify") /\ now' = now /\ call[p].kind = "login" /\ call[p].at = "verify"
    BY <1>4 DEF LoginVerify, At
  <2>2. CASE Clear(LoginIdentityLimits(call[p].name)) /\ Goto(p, "session")
    <3>1. OnlyCalls(p) /\ call'[p] = [call[p] EXCEPT !.at = "session"]
      BY <2>2, GotoMoves
    <3>2. call[p] \in LoginMissed \cup LoginRead
      BY <1>1, <2>1, AtStep
    <3>3. call'[p].at = "session" /\ call'[p].kind = "login"
      BY <3>1, <3>2 DEF LoginMissed, LoginRead
    <3>4. \A k : p \notin Trying(k)'
      BY <3>3 DEF Trying
    <3>5. QED BY <2>1, <2>2, <3>1, <3>4, ClearCounts, CalmStep DEF ThrottleInv
  <2>3. CASE RecordFailure(LoginLimits(call[p].name)) /\ End(p)
    <3>1. OnlyCalls(p) /\ call'[p] = Idle
      BY <2>3, EndMoves
    <3>2. \A l \in LoginLimits(call[p].name) : p \in Trying(l.key)
      BY <2>1 DEF Trying
    <3>3. QED BY <2>1, <2>3, <3>1, <3>2, FailedStep
  <2>4. QED BY <1>4, <2>2, <2>3 DEF LoginVerify
<1>5. QED BY <1>2, <1>3, <1>4

LEMMA ChangeThrottled ==
  ASSUME AccountsInv, ThrottleInv, NEW p \in Handlers,
         ChangeArrive(p) \/ ChangeRead(p) \/ ChangeVerify(p)
  PROVE  ThrottleInv'
<1>1. Knows(p)
  BY DEF AccountsInv
<1>2. CASE ChangeArrive(p)
  <2>1. PICK s \in sessions, w \in Passwords, new \in Passwords :
          /\ ~Blocked(PasswordChangeLimits(s.user))
          /\ Begin(p, [kind |-> "change", at |-> "read", actor |-> s.user, token |-> s.token,
                       password |-> w, new |-> new])
    BY <1>2 DEF ChangeArrive
  <2>2. OnlyCalls(p) /\ call'[p].actor = s.user /\ call'[p].kind = "change"
    BY <2>1, BeginMoves
  <2>3. ASSUME NEW k \in Keys, p \in Trying(k)' PROVE Len(Live(hits, k)) < MaxOf(k)
    <3>1. \E l \in PasswordChangeLimits(call'[p].actor) : l.key = k
      BY <2>2, <2>3 DEF Trying
    <3>2. PICK l \in PasswordChangeLimits(s.user) : l.key = k
      BY <2>2, <3>1
    <3>3. QED BY <2>1, <3>2, MaxOfKeys, NotBlocked
  <2>4. QED BY <1>2, <2>2, <2>3, UncountedStep DEF ChangeArrive
<1>3. CASE ChangeRead(p)
  <2>1. call[p].kind = "change" /\ call[p].at = "read"
    BY <1>3 DEF ChangeRead, At
  <2>2. OnlyCalls(p) /\ call'[p].actor = call[p].actor /\ call'[p].kind = "change"
    BY <1>3 DEF ChangeRead, OnlyCalls, AccountsInv, AccountsTypes
  <2>3. ASSUME NEW k \in Keys, p \in Trying(k)' PROVE p \in Trying(k)
    <3>1. \E l \in PasswordChangeLimits(call'[p].actor) : l.key = k
      BY <2>2, <2>3 DEF Trying
    <3>2. QED BY <2>1, <2>2, <3>1 DEF Trying
  <2>4. QED BY <1>3, <2>2, <2>3, UncountedStep DEF ChangeRead
<1>4. CASE ChangeVerify(p)
  <2>1. call[p].kind = "change" /\ call[p].at = "verify" /\ now' = now
    BY <1>4 DEF ChangeVerify, At
  <2>2. CASE RecordFailure(PasswordChangeLimits(call[p].actor)) /\ End(p)
    <3>1. OnlyCalls(p) /\ call'[p] = Idle
      BY <2>2, EndMoves
    <3>2. \A l \in PasswordChangeLimits(call[p].actor) : p \in Trying(l.key)
      BY <2>1 DEF Trying
    <3>3. QED BY <2>1, <2>2, <3>1, <3>2, FailedStep
  <2>3. CASE Clear(PasswordChangeLimits(call[p].actor)) /\ (End(p) \/ Goto(p, "write"))
    <3>1. call[p] \in ChangeSeen
      BY <1>1, <2>1, AtStep
    <3>2. OnlyCalls(p) /\ (call'[p] = Idle \/ call'[p] = [call[p] EXCEPT !.at = "write"])
      BY <2>3, EndMoves, GotoMoves
    <3>3. call'[p].kind = "idle" \/ (call'[p].kind = "change" /\ call'[p].at = "write")
      BY <3>1, <3>2 DEF ChangeSeen, Idle
    <3>4. \A k : p \notin Trying(k)'
      BY <3>3 DEF Trying
    <3>5. QED BY <2>1, <2>3, <3>2, <3>4, ClearCounts, CalmStep DEF ThrottleInv
  <2>4. QED BY <1>4, <2>2, <2>3 DEF ChangeVerify
<1>5. QED BY <1>2, <1>3, <1>4

\* No other step of a handler has to do with the throttle.
LEMMA OthersThrottled ==
  ASSUME AccountsInv, ThrottleInv, NEW p \in Handlers, Handle(p),
         ~(LoginArrive(p) \/ LoginFind(p) \/ LoginVerify(p)),
         ~(ChangeArrive(p) \/ ChangeRead(p) \/ ChangeVerify(p))
  PROVE  ThrottleInv'
<1>1. Knows(p)
  BY DEF AccountsInv
<1>2. ASSUME OnlyCalls(p), UNCHANGED <<hits, now>>,
             \/ call'[p] = Idle
             \/ call'[p].kind \notin {"login", "change"}
             \/ call'[p].at = "others"
      PROVE  ThrottleInv'
  <2>1. \A k : p \notin Trying(k)'
    BY <1>2 DEF Trying, Idle
  <2>2. QED BY <1>2, <2>1, UncountedStep
<1>3. CASE LoginSession(p) \/ ChangeOthers(p) \/ Purge(p) \/ EnableWrite(p) \/ CreateInsert(p)
  BY <1>2, <1>3, EndMoves DEF LoginSession, ChangeOthers, Purge, EnableWrite, CreateInsert
<1>4. CASE Logout(p)
  BY <1>2, <1>4, BeginMoves DEF Logout
<1>5. CASE ResetArrive(p) \/ DeactivateArrive(p) \/ EnableArrive(p) \/ CreateArrive(p)
  <2>1. OnlyCalls(p) /\ call'[p].kind \in {"reset", "deactivate", "enable", "create"}
    <3>1. CASE ResetArrive(p)
      <4>1. PICK s \in sessions, u \in People, new \in Handed :
              Begin(p, [kind |-> "reset", at |-> "write", actor |-> s.user, target |-> u, new |-> new])
        BY <3>1 DEF ResetArrive
      <4>2. QED BY <4>1, BeginMoves
    <3>2. CASE DeactivateArrive(p)
      <4>1. PICK s \in sessions, u \in People :
              Begin(p, [kind |-> "deactivate", at |-> "write", actor |-> s.user, target |-> u])
        BY <3>2 DEF DeactivateArrive
      <4>2. QED BY <4>1, BeginMoves
    <3>3. CASE EnableArrive(p)
      <4>1. PICK s \in sessions, u \in People, n \in Names, w \in Handed, mail \in BOOLEAN :
              Begin(p, [kind |-> "enable", at |-> "find", actor |-> s.user, target |-> u,
                        name |-> n, new |-> w, mail |-> mail])
        BY <3>3 DEF EnableArrive
      <4>2. QED BY <4>1, BeginMoves
    <3>4. CASE CreateArrive(p)
      <4>1. PICK s \in sessions, n \in Names \cup {Null}, w \in Handed,
                 role \in {"Admin", "Client"}, mail \in BOOLEAN :
              /\ Ready(s)
              /\ account[s.user].role = "Admin" \/ (MayManage(s.user) /\ role = "Client")
              /\ n = Null => role = "Client"
              /\ (n # Null /\ role = "Client") => mail
              /\ \E b \in CreationTenants(s.user) :
                   Begin(p, [kind |-> "create", at |-> "insert",
                             row |-> NewRow(role, n, IF n = Null THEN Null ELSE w, b,
                                            mail \/ role # "Client")])
        BY <3>4, Zenon DEF CreateArrive
      <4>2. PICK b \in CreationTenants(s.user) :
              Begin(p, [kind |-> "create", at |-> "insert",
                        row |-> NewRow(role, n, IF n = Null THEN Null ELSE w, b, mail \/ role # "Client")])
        BY <4>1
      <4>3. QED BY <4>2, BeginMoves
    <3>5. QED BY <1>5, <3>1, <3>2, <3>3, <3>4
  <2>2. UNCHANGED <<hits, now>>
    BY <1>5, Zenon DEF ResetArrive, DeactivateArrive, EnableArrive, CreateArrive
  <2>3. QED BY <1>2, <2>1, <2>2
<1>6. CASE ChangeWrite(p)
  <2>1. call[p] \in ChangeSeen
    BY <1>1, <1>6, AtStep DEF ChangeWrite, At
  <2>2. OnlyCalls(p) /\ call'[p] = [call[p] EXCEPT !.at = "others"] /\ UNCHANGED <<hits, now>>
    BY <1>6, GotoMoves DEF ChangeWrite
  <2>3. QED BY <1>2, <2>1, <2>2 DEF ChangeSeen
<1>7. ASSUME NEW step, call[p] \in ResetAsked \cup DeactivateAsked \cup EnableAsked,
             End(p) \/ Goto(p, step), UNCHANGED <<hits, now>>
      PROVE  ThrottleInv'
  <2>1. OnlyCalls(p) /\ (call'[p] = Idle \/ call'[p] = [call[p] EXCEPT !.at = step])
    BY <1>7, EndMoves, GotoMoves
  <2>2. call'[p] = Idle \/ call'[p].kind \notin {"login", "change"}
    BY <1>7, <2>1 DEF ResetAsked, DeactivateAsked, EnableAsked
  <2>3. QED BY <1>2, <1>7, <2>1, <2>2
<1>8. CASE ResetWrite(p)
  <2>1. call[p] \in ResetAsked
    BY <1>1, <1>8, AtStep DEF ResetWrite, At
  <2>2. (End(p) \/ Goto(p, "purge")) /\ UNCHANGED <<hits, now>>
    BY <1>8, Zenon DEF ResetWrite
  <2>3. QED BY <1>7, <2>1, <2>2
<1>9. CASE DeactivateWrite(p)
  <2>1. call[p] \in DeactivateAsked
    BY <1>1, <1>9, AtStep DEF DeactivateWrite, At
  <2>2. (End(p) \/ Goto(p, "purge")) /\ UNCHANGED <<hits, now>>
    BY <1>9, Zenon DEF DeactivateWrite
  <2>3. QED BY <1>7, <2>1, <2>2
<1>10. CASE EnableFind(p)
  <2>1. call[p] \in EnableAsked
    BY <1>1, <1>10, AtStep DEF EnableFind, At
  <2>2. (End(p) \/ Goto(p, "write")) /\ UNCHANGED <<hits, now>>
    BY <1>10, Zenon DEF EnableFind
  <2>3. QED BY <1>7, <2>1, <2>2
<1>11. QED
  BY <1>3, <1>4, <1>5, <1>6, <1>8, <1>9, <1>10 DEF Handle

\* Failures age, and a restart forgets them along with the requests in flight.
LEMMA WorldThrottled ==
  ASSUME AccountsInv, ThrottleInv, Tick \/ Restart
  PROVE  ThrottleInv'
<1>1. CASE Tick
  <2>1. now' \in Nat /\ now <= now' /\ UNCHANGED <<hits, call>>
    BY <1>1 DEF Tick, ThrottleInv
  <2>2. ASSUME NEW k \in Keys PROVE KeyBounded(k)'
    <3>1. hits[k] \in Seq(Nat) /\ now \in Nat
      BY DEF ThrottleInv
    <3>2. Live(hits, k)' = Survivors(hits[k], now')
      BY <2>1 DEF Live
    <3>3. Live(hits, k) = Survivors(hits[k], now)
      BY DEF Live
    <3>4. /\ Len(Live(hits, k)') \in Nat /\ Len(Live(hits, k)) \in Nat
          /\ Len(Live(hits, k)') <= Len(Live(hits, k))
      BY <2>1, <3>1, <3>2, <3>3, SurvivorsShrink, SurvivorsBounded
    <3>5. Trying(k)' = Trying(k)
      BY <2>1 DEF Trying
    <3>6. MaxOf(k)' = MaxOf(k) /\ MaxOf(k) \in Nat
      BY MaxOfKeys DEF MaxOf
    <3>7. Cardinality(Trying(k)) \in Nat /\ Cardinality(Handlers) \in Nat
      BY TryingFinite
    <3>8. Len(Live(hits, k)') + Cardinality(Trying(k)') <= MaxOf(k)' + Cardinality(Handlers) - 1
      BY <3>4, <3>5, <3>6, <3>7 DEF ThrottleInv, AttemptsBounded
    <3>9. KeyBounded(k)' <=>
            (Len(Live(hits, k)') + Cardinality(Trying(k)') <= MaxOf(k)' + Cardinality(Handlers) - 1)
      BY DEF KeyBounded
    <3>10. QED BY <3>8, <3>9
  <2>3. QED BY <2>1, <2>2 DEF ThrottleInv, AttemptsBounded, KeyBounded
<1>2. CASE Restart
  <2>1. now' = now /\ hits' = [k \in Keys |-> <<>>] /\ \A p \in Handlers : call'[p] = Idle
    BY <1>2 DEF Restart
  <2>2. ASSUME NEW k \in Keys PROVE KeyBounded(k)'
    <3>1. Live(hits', k) = <<>>
      BY <2>1 DEF Live, Survivors
    <3>2. Trying(k)' = {}
      BY <2>1 DEF Trying, Idle
    <3>3. Len(Live(hits', k)) = 0 /\ Cardinality(Trying(k)') = 0
      BY <3>1, <3>2, EmptySeq, FS_EmptySet
    <3>4. MaxOf(k) \in Nat \ {0} /\ Cardinality(Handlers) \in Nat
      BY MaxOfKeys, TryingFinite
    <3>5. QED BY <2>1, <3>3, <3>4, BoundAfter
  <2>3. hits' \in [Keys -> Seq(Nat)]
    BY <2>1, EmptySeq
  <2>4. QED BY <2>1, <2>2, <2>3 DEF ThrottleInv, AttemptsBounded, KeyBounded
<1>3. QED BY <1>1, <1>2

LEMMA ThrottleInitInv == AccountsInit => ThrottleInv
<1> SUFFICES ASSUME AccountsInit PROVE ThrottleInv
  OBVIOUS
<1>1. ASSUME NEW k \in Keys
      PROVE  Len(Live(hits, k)) + Cardinality(Trying(k)) <= MaxOf(k) + Cardinality(Handlers) - 1
  <2>1. Live(hits, k) = <<>> /\ Trying(k) = {}
    BY DEF AccountsInit, Live, Survivors, Trying, Idle
  <2>2. Len(Live(hits, k)) = 0 /\ Cardinality(Trying(k)) = 0
    BY <2>1, EmptySeq, FS_EmptySet
  <2>3. MaxOf(k) \in Nat \ {0} /\ Cardinality(Handlers) \in Nat
    BY MaxOfKeys, TryingFinite
  <2>4. QED BY <2>2, <2>3
<1>2. hits \in [Keys -> Seq(Nat)] /\ now \in Nat
  BY EmptySeq DEF AccountsInit
<1>3. QED BY <1>1, <1>2 DEF ThrottleInv, AttemptsBounded

\* The check of the throttle and the failure it counts are awaits apart; still no key of the login or
\* of the change of a password collects more failures than its limit and the other requests in flight
\* together, through sweeps, sheddings, time and restarts (auth-throttle.ts).
THEOREM ThrottleHolds == AccountsSpec => []AttemptsBounded
<1>1. AccountsInv /\ ThrottleInv /\ [AccountsNext]_accountVars => ThrottleInv'
  <2> SUFFICES ASSUME AccountsInv, ThrottleInv, [AccountsNext]_accountVars PROVE ThrottleInv'
    OBVIOUS
  <2>1. ASSUME NEW p \in Handlers, Handle(p) PROVE ThrottleInv'
    BY <2>1, LoginThrottled, ChangeThrottled, OthersThrottled
  <2>2. CASE UNCHANGED accountVars
    <3>1. UNCHANGED <<hits, now, call>>
      BY <2>2 DEF accountVars
    <3>2. QED BY <3>1 DEF ThrottleInv, AttemptsBounded, Live, Trying, MaxOf
  <2>3. QED BY <2>1, <2>2, WorldThrottled DEF AccountsNext
<1>2. ThrottleInv => AttemptsBounded
  BY DEF ThrottleInv
<1>3. QED BY <1>1, <1>2, ThrottleInitInv, AccountsInductive, PTL DEF AccountsSpec

=============================================================================
