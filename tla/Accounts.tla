------------------------------- MODULE Accounts -------------------------------
(***************************************************************************)
(* Accounts, sessions and the attempt throttle.  Concurrent requests log   *)
(* in and out, change a password, reset, archive, enable or create an      *)
(* account.  A handler is cut at each await, so the row it verified a      *)
(* password against may be out of date when it writes.                     *)
(*                                                                         *)
(* A password stands for its hash: two hashes are of one password exactly  *)
(* when the passwords are equal.  One client address makes every request.  *)
(* The counters of the throttle live in the process: Restart clears them.  *)
(***************************************************************************)
EXTENDS Server, Sequences

CONSTANTS
  People,        \* ids of auth.users rows, stored or still to be created
  Names,         \* usernames
  Passwords,
  Handed,        \* the passwords handed out for another's account
  Stored,        \* the rows at the start, by id
  LoggedIn,      \* the sessions at the start
  Absent,        \* the row of an id not created yet
  MaxIdentity, MaxClient, MaxChange,   \* failures allowed per key
  Window,        \* how long a failure counts
  SweepAt, MaxKeys,                    \* bounds on the map of counters
  Menus,         \* the kinds of request that arrive together
  MaxTime,                             \* bound of the model
  MaxRequests                          \* and, for each menu, how many requests and restarts

\* A row of auth.users.
Tenants == {Stored[u].tenant: u \in {v \in People: Stored[v] # Absent}} \cup {Null}
Usernames == Names \cup {Stored[u].name: u \in {v \in People: Stored[v] # Absent}} \cup {Null}
Account ==
  [role: {"Admin", "Professional", "Receptionist", "Client"}, name: Usernames,
   password: Passwords \cup {Null}, tenant: Tenants, active: BOOLEAN, mustChange: BOOLEAN,
   mail: BOOLEAN, gen: Nat]

\* The constraints of the tables hold at the start: usernames are unique, and a session belongs to
\* a row.
ASSUME StoredAssumption ==
  /\ Stored \in [People -> Account \cup {Absent}]
  /\ \A u, v \in People:
       (Stored[u] # Absent /\ Stored[v] # Absent /\ Stored[u].name = Stored[v].name) =>
         u = v \/ Stored[u].name = Null
  /\ LoggedIn \subseteq [user: {u \in People: Stored[u] # Absent}, token: Nat, gen: Nat]
  /\ Absent \notin Account /\ Null \notin People /\ Handed \subseteq Passwords

ASSUME AccountsAssumption ==
  /\ {Window, MaxIdentity, MaxClient, MaxChange, SweepAt, MaxKeys} \subseteq Nat \ {0}
  /\ MaxTime \in Nat /\ MaxRequests \in [Menus -> Nat] /\ IsFiniteSet(Handlers)
  /\ Absent \notin Names /\ Null \notin Names

VARIABLES
  account,   \* auth.users, by id
  sessions,  \* auth.sessions
  hits,      \* the throttle: times of the failures of each key, oldest first
  now,
  call,      \* what each handler was asked, has read, and does next
  begun,     \* requests and restarts so far
  menu,      \* the kinds of request that arrive
  \* What the properties need to know of the past; no guard reads it:
  resetGen,  \* the generation of the password a reset gave, by account
  basis,     \* that of the password the last writer of the account had verified or given
  disturbed, \* a login, a change or a restart got between the statements of a reset
  crossed    \* an Admin archived another after being archived

ghosts == <<resetGen, basis, disturbed, crossed>>
accountVars == <<account, sessions, hits, now, call, begun, menu, ghosts>>

Keys == ({"identity"} \X Names) \cup {<<"client", "any">>} \cup ({"change"} \X People)

Idle == [kind |-> "idle"]

----------------------------------------------------------------------------
(* The throttle *)

LoginIdentityLimits(n) == {[key |-> <<"identity", n>>, max |-> MaxIdentity]}
LoginLimits(n) == LoginIdentityLimits(n) \cup {[key |-> <<"client", "any">>, max |-> MaxClient]}
PasswordChangeLimits(u) == {[key |-> <<"change", u>>, max |-> MaxChange]}

\* The failures that still count at a time are a suffix, since they come oldest first.
Survivors(times, at) ==
  LET live == {i \in DOMAIN times: times[i] > at - Window}
  IN IF live = {} THEN <<>>
     ELSE SubSeq(times, CHOOSE i \in live: \A j \in live: i <= j, Len(times))
Live(h, key) == Survivors(h[key], now)

\* Mutant: one failure more than the limit goes through.
Blocked_After(limits) == \E l \in limits: Len(Live(hits, l.key)) > l.max

Blocked(limits) == \E l \in limits: Len(Live(hits, l.key)) >= l.max

Tracked(h) == {k \in Keys: h[k] # <<>>}
LastHit(h, k) == h[k][Len(h[k])]

\* Over MaxKeys entries the keys that failed longest ago are shed.
Shed(h) ==
  LET surplus == Cardinality(Tracked(h)) - MaxKeys
      gone == CHOOSE S \in SUBSET Tracked(h):
                /\ Cardinality(S) = IF surplus > 0 THEN surplus ELSE 0
                /\ \A k \in S, o \in Tracked(h) \ S: LastHit(h, k) <= LastHit(h, o)
  IN [k \in Keys |-> IF k \in gone THEN <<>> ELSE h[k]]

Sweep(h) ==
  IF Cardinality(Tracked(h)) > SweepAt
  THEN Shed([k \in Keys |-> Live(h, k)])
  ELSE h

RecordFailure(limits) ==
  hits' = Sweep([k \in Keys |->
                   IF \E l \in limits: l.key = k THEN Append(Live(hits, k), now) ELSE hits[k]])

Clear(limits) ==
  hits' = [k \in Keys |-> IF \E l \in limits: l.key = k THEN <<>> ELSE hits[k]]

----------------------------------------------------------------------------
(* Guards *)

Exists(u) == account[u] # Absent

\* loadSessionUser: the session stands and its account is neither inactive nor archived.
Admitted(s) == s \in sessions /\ Exists(s.user) /\ account[s.user].active

\* requireAuth, then requirePasswordReady.
Ready(s) == Admitted(s) /\ ~account[s.user].mustChange

\* A super-admin reaches every tenant, everyone else their own.
InScope(actor, u) ==
  /\ Exists(u)
  /\ \/ account[actor].role = "Admin" /\ account[actor].tenant = Null
     \/ account[actor].tenant # Null /\ account[actor].tenant = account[u].tenant

NameTaken(n, u) == \E v \in People \ {u}: Exists(v) /\ account[v].name = n

ContactOnly(u) == Exists(u) /\ account[u].active /\ account[u].role = "Client" /\ account[u].name = Null

MayManage(actor) == account[actor].role \in {"Admin", "Professional", "Receptionist"}

----------------------------------------------------------------------------
(* One request *)

Accepts(p, kind) == call[p] = Idle /\ kind \in menu /\ begun < MaxRequests[menu]

Begin(p, c) ==
  /\ begun' = begun + 1
  /\ call' = [call EXCEPT ![p] = c]

Goto(p, step) == call' = [call EXCEPT ![p].at = step]
End(p) == call' = [call EXCEPT ![p] = Idle]
At(p, kind, step) == call[p].kind = kind /\ call[p].at = step

\* The reads a login or a change of u's password will act on, if some are pending.
ActsOnOldRow(p, u) ==
  \/ call[p].kind = "login" /\ call[p].at \in {"verify", "session"} /\ call[p].seen.user = u
  \/ call[p].kind = "change" /\ call[p].at \in {"verify", "write"} /\ call[p].actor = u

NoteReset(u) ==
  /\ resetGen' = [resetGen EXCEPT ![u] = account[u].gen + 1]
  /\ basis' = [basis EXCEPT ![u] = account[u].gen + 1]
  /\ disturbed' = [disturbed EXCEPT ![u] = @ \/ \E q \in Handlers: ActsOnOldRow(q, u)]
  /\ UNCHANGED crossed

(* POST /auth/login *)
LoginArrive(p) ==
  /\ Accepts(p, "login")
  /\ \E n \in Names, w \in Passwords:
       /\ ~Blocked(LoginLimits(n))
       /\ Begin(p, [kind |-> "login", at |-> "find", name |-> n, password |-> w, token |-> begun + 1])
  /\ UNCHANGED <<account, sessions, hits, now, ghosts, menu>>

LoginFind(p) ==
  /\ At(p, "login", "find")
  /\ LET found == {u \in People: Exists(u) /\ account[u].name = call[p].name /\ account[u].active}
         row == IF found = {} THEN [user |-> Null]
                ELSE LET u == CHOOSE x \in found: TRUE
                     IN [user |-> u, password |-> account[u].password, gen |-> account[u].gen]
     IN call' = [call EXCEPT ![p] =
          [kind |-> "login", at |-> "verify", name |-> @.name, password |-> @.password,
           token |-> @.token, seen |-> row]]
  /\ UNCHANGED <<account, sessions, hits, now, begun, ghosts, menu>>

LoginVerify(p) ==
  /\ At(p, "login", "verify")
  /\ LET c == call[p]
     IN IF c.seen.user # Null /\ c.seen.password = c.password
        THEN Clear(LoginIdentityLimits(c.name)) /\ Goto(p, "session")
        ELSE RecordFailure(LoginLimits(c.name)) /\ End(p)
  /\ UNCHANGED <<account, sessions, now, begun, ghosts, menu>>

LoginSession(p) ==
  /\ At(p, "login", "session")
  /\ sessions' = sessions \cup
       {[user |-> call[p].seen.user, token |-> call[p].token, gen |-> call[p].seen.gen]}
  /\ End(p)
  /\ UNCHANGED <<account, hits, now, begun, ghosts, menu>>

(* POST /auth/logout *)
Logout(p) ==
  /\ Accepts(p, "logout")
  /\ \E s \in sessions: sessions' = sessions \ {s}
  /\ Begin(p, Idle)
  /\ UNCHANGED <<account, hits, now, ghosts, menu>>

(* POST /auth/change-password *)
ChangeArrive(p) ==
  /\ Accepts(p, "change")
  /\ \E s \in sessions, w \in Passwords, new \in Passwords:
       /\ Admitted(s)
       /\ ~Blocked(PasswordChangeLimits(s.user))
       /\ Begin(p, [kind |-> "change", at |-> "read", actor |-> s.user, token |-> s.token,
                 password |-> w, new |-> new])
  /\ UNCHANGED <<account, sessions, hits, now, ghosts, menu>>

ChangeRead(p) ==
  /\ At(p, "change", "read")
  /\ LET c == call[p]
     IN call' = [call EXCEPT ![p] =
          [kind |-> "change", at |-> "verify", actor |-> c.actor, token |-> c.token,
           password |-> c.password, new |-> c.new,
           seen |-> [password |-> account[c.actor].password, gen |-> account[c.actor].gen]]]
  /\ UNCHANGED <<account, sessions, hits, now, begun, ghosts, menu>>

ChangeVerify(p) ==
  /\ At(p, "change", "verify")
  /\ LET c == call[p]
     IN IF c.seen.password # c.password
        THEN RecordFailure(PasswordChangeLimits(c.actor)) /\ End(p)
        ELSE /\ Clear(PasswordChangeLimits(c.actor))
             /\ IF c.new = c.password THEN End(p) ELSE Goto(p, "write")
  /\ UNCHANGED <<account, sessions, now, begun, ghosts, menu>>

ChangeWrite(p) ==
  /\ At(p, "change", "write")
  /\ LET u == call[p].actor
     IN /\ account' = [account EXCEPT ![u].password = call[p].new, ![u].mustChange = FALSE,
                                      ![u].gen = @ + 1]
        /\ basis' = [basis EXCEPT ![u] = call[p].seen.gen]
  /\ Goto(p, "others")
  /\ UNCHANGED <<sessions, hits, now, begun, menu, resetGen, disturbed, crossed>>

ChangeOthers(p) ==
  /\ At(p, "change", "others")
  /\ sessions' = {s \in sessions: s.user # call[p].actor \/ s.token = call[p].token}
  /\ End(p)
  /\ UNCHANGED <<account, hits, now, begun, ghosts, menu>>

(* POST /admin/users/:id/reset-password *)
ResetArrive(p) ==
  /\ Accepts(p, "reset")
  /\ \E s \in sessions, u \in People, new \in Handed:
       /\ Ready(s) /\ account[s.user].role = "Admin"
       /\ u # s.user
       /\ Begin(p, [kind |-> "reset", at |-> "write", actor |-> s.user, target |-> u, new |-> new])
  /\ UNCHANGED <<account, sessions, hits, now, ghosts, menu>>

\* Mutant: a reset leaves the sessions of the account open.
ResetWrite_KeepsSessions(p) ==
  /\ At(p, "reset", "write")
  /\ LET u == call[p].target
     IN IF InScope(call[p].actor, u) /\ account[u].active
        THEN /\ account' = [account EXCEPT ![u].password = call[p].new, ![u].mustChange = TRUE,
                                           ![u].gen = @ + 1]
             /\ NoteReset(u)
             /\ End(p)
        ELSE End(p) /\ UNCHANGED <<account, ghosts>>
  /\ UNCHANGED <<sessions, hits, now, begun, menu>>

ResetWrite(p) ==
  /\ At(p, "reset", "write")
  /\ LET u == call[p].target
     IN IF InScope(call[p].actor, u) /\ account[u].active
        THEN /\ account' = [account EXCEPT ![u].password = call[p].new, ![u].mustChange = TRUE,
                                           ![u].gen = @ + 1]
             /\ NoteReset(u)
             /\ Goto(p, "purge")
        ELSE End(p) /\ UNCHANGED <<account, ghosts>>
  /\ UNCHANGED <<sessions, hits, now, begun, menu>>

(* POST /admin/users/:id/deactivate *)
\* Mutant: an Admin may archive their own account.
DeactivateArrive_Oneself(p) ==
  /\ Accepts(p, "deactivate")
  /\ \E s \in sessions, u \in People:
       /\ Ready(s) /\ account[s.user].role = "Admin"
       /\ Begin(p, [kind |-> "deactivate", at |-> "write", actor |-> s.user, target |-> u])
  /\ UNCHANGED <<account, sessions, hits, now, ghosts, menu>>

DeactivateArrive(p) ==
  /\ Accepts(p, "deactivate")
  /\ \E s \in sessions, u \in People:
       /\ Ready(s) /\ account[s.user].role = "Admin"
       /\ u # s.user
       /\ Begin(p, [kind |-> "deactivate", at |-> "write", actor |-> s.user, target |-> u])
  /\ UNCHANGED <<account, sessions, hits, now, ghosts, menu>>

DeactivateWrite(p) ==
  /\ At(p, "deactivate", "write")
  /\ LET u == call[p].target
     IN IF InScope(call[p].actor, u) /\ account[u].active
        THEN /\ account' = [account EXCEPT ![u].active = FALSE]
             /\ crossed' = (crossed \/ ~account[call[p].actor].active)
             /\ Goto(p, "purge")
        ELSE End(p) /\ UNCHANGED <<account, crossed>>
  /\ UNCHANGED <<sessions, hits, now, begun, menu, resetGen, basis, disturbed>>

(* deleteUserSessions, the second statement of a reset or a deactivation *)
Purge(p) ==
  /\ call[p].kind \in {"reset", "deactivate"} /\ call[p].at = "purge"
  /\ sessions' = {s \in sessions: s.user # call[p].target}
  /\ End(p)
  /\ UNCHANGED <<account, hits, now, begun, ghosts, menu>>

(* POST /admin/users/:id/enable-login *)
EnableArrive(p) ==
  /\ Accepts(p, "enable")
  /\ \E s \in sessions, u \in People, n \in Names, w \in Handed, mail \in BOOLEAN:
       /\ Ready(s) /\ MayManage(s.user)
       /\ Begin(p, [kind |-> "enable", at |-> "find", actor |-> s.user, target |-> u,
                 name |-> n, new |-> w, mail |-> mail])
  /\ UNCHANGED <<account, sessions, hits, now, ghosts, menu>>

EnableFind(p) ==
  /\ At(p, "enable", "find")
  /\ LET u == call[p].target
     IN IF ContactOnly(u) /\ InScope(call[p].actor, u) /\ (account[u].mail \/ call[p].mail)
        THEN Goto(p, "write")
        ELSE End(p)
  /\ UNCHANGED <<account, sessions, hits, now, begun, ghosts, menu>>

\* Mutant: the UPDATE trusts the row read before the hash.
EnableWrite_Unguarded(p) ==
  /\ At(p, "enable", "write")
  /\ LET u == call[p].target
     IN IF /\ InScope(call[p].actor, u)
           /\ account[u].mail \/ call[p].mail
           /\ ~NameTaken(call[p].name, u)
        THEN account' = [account EXCEPT ![u].name = call[p].name, ![u].password = call[p].new,
                                        ![u].mail = TRUE, ![u].mustChange = TRUE, ![u].gen = @ + 1]
        ELSE UNCHANGED account
  /\ End(p)
  /\ UNCHANGED <<sessions, hits, now, begun, ghosts, menu>>

EnableWrite(p) ==
  /\ At(p, "enable", "write")
  /\ LET u == call[p].target
     IN IF /\ ContactOnly(u) /\ InScope(call[p].actor, u)
           /\ account[u].mail \/ call[p].mail
           /\ ~NameTaken(call[p].name, u)
        THEN account' = [account EXCEPT ![u].name = call[p].name, ![u].password = call[p].new,
                                        ![u].mail = TRUE, ![u].mustChange = TRUE, ![u].gen = @ + 1]
        ELSE UNCHANGED account
  /\ End(p)
  /\ UNCHANGED <<sessions, hits, now, begun, ghosts, menu>>

(* POST /admin/users *)
NewRow(role, n, w, tenant, mail) ==
  [role |-> role, name |-> n, password |-> w, tenant |-> tenant, active |-> TRUE,
   mustChange |-> n # Null, mail |-> mail, gen |-> 1]

\* A super-admin names the tenant, everyone else gets their own.
CreationTenants(actor) ==
  IF account[actor].role = "Admin" /\ account[actor].tenant = Null
  THEN {account[u].tenant: u \in {x \in People: Exists(x)}} \ {Null}
  ELSE {account[actor].tenant} \ {Null}

\* Staff without an address get a placeholder; a client with a login must have one.
CreateArrive(p) ==
  /\ Accepts(p, "create")
  /\ \E s \in sessions, n \in Names \cup {Null}, w \in Handed,
        role \in {"Admin", "Client"}, mail \in BOOLEAN:
       /\ Ready(s)
       /\ account[s.user].role = "Admin" \/ (MayManage(s.user) /\ role = "Client")
       /\ n = Null => role = "Client"
       /\ (n # Null /\ role = "Client") => mail
       /\ \E b \in CreationTenants(s.user):
            Begin(p, [kind |-> "create", at |-> "insert",
                      row |-> NewRow(role, n, IF n = Null THEN Null ELSE w, b,
                                     mail \/ role # "Client")])
  /\ UNCHANGED <<account, sessions, hits, now, ghosts, menu>>

CreateInsert(p) ==
  /\ At(p, "create", "insert")
  /\ \E u \in People:
       /\ ~Exists(u)
       /\ account' = IF call[p].row.name # Null /\ NameTaken(call[p].row.name, u)
                     THEN account
                     ELSE [account EXCEPT ![u] = call[p].row]
  /\ End(p)
  /\ UNCHANGED <<sessions, hits, now, begun, ghosts, menu>>

----------------------------------------------------------------------------
(* The world around *)

Tick ==
  /\ "wait" \in menu
  /\ now < MaxTime
  /\ now' = now + 1
  /\ UNCHANGED <<account, sessions, hits, call, begun, ghosts, menu>>

\* Requests in flight are lost between two statements; the counters are gone.
Restart ==
  /\ "restart" \in menu
  /\ begun < MaxRequests[menu]
  /\ begun' = begun + 1
  /\ call' = [p \in Handlers |-> Idle]
  /\ hits' = [k \in Keys |-> <<>>]
  /\ disturbed' = [u \in People |->
                    disturbed[u] \/ \E p \in Handlers: At(p, "reset", "purge") /\ call[p].target = u]
  /\ UNCHANGED <<account, sessions, now, menu, resetGen, basis, crossed>>

AccountsInit ==
  /\ menu \in Menus
  /\ account = Stored
  /\ sessions = LoggedIn
  /\ hits = [k \in Keys |-> <<>>]
  /\ now = 0
  /\ call = [p \in Handlers |-> Idle]
  /\ begun = 0
  /\ resetGen = [u \in People |-> 0] /\ basis = [u \in People |-> 0]
  /\ disturbed = [u \in People |-> FALSE] /\ crossed = FALSE

Handle(p) ==
  \/ LoginArrive(p) \/ LoginFind(p) \/ LoginVerify(p) \/ LoginSession(p) \/ Logout(p)
  \/ ChangeArrive(p) \/ ChangeRead(p) \/ ChangeVerify(p) \/ ChangeWrite(p) \/ ChangeOthers(p)
  \/ ResetArrive(p) \/ ResetWrite(p) \/ DeactivateArrive(p) \/ DeactivateWrite(p) \/ Purge(p)
  \/ EnableArrive(p) \/ EnableFind(p) \/ EnableWrite(p)
  \/ CreateArrive(p) \/ CreateInsert(p)

AccountsNext == (\E p \in Handlers: Handle(p)) \/ Tick \/ Restart

AccountsSpec == AccountsInit /\ [][AccountsNext]_accountVars

----------------------------------------------------------------------------
(* Properties *)

Resetting(u) == \E p \in Handlers: At(p, "reset", "purge") /\ call[p].target = u

\* After an admin resets a password nothing of the old one is left: every session of the account
\* was opened with a later password, the account must change the one it was given, and whoever
\* changed it had verified a later one.  The reset is two statements and a login or a change is
\* several: only one that had read the row when the reset wrote it, or a restart between the two
\* statements, gets round it.
ResetHolds ==
  \A u \in People:
    LET since == resetGen[u]
    IN (Exists(u) /\ since # 0 /\ ~disturbed[u] /\ ~Resetting(u)) =>
         /\ basis[u] >= since
         /\ \A s \in sessions: s.user = u => s.gen >= since
         /\ account[u].gen = since => account[u].mustChange

\* The handlers that passed the check of a key and have not failed or succeeded yet.
Trying(key) ==
  {p \in Handlers:
     \/ /\ call[p].kind = "login" /\ call[p].at \in {"find", "verify"}
        /\ \E l \in LoginLimits(call[p].name): l.key = key
     \/ /\ call[p].kind = "change" /\ call[p].at \in {"read", "verify"}
        /\ \E l \in PasswordChangeLimits(call[p].actor): l.key = key}

MaxOf(key) == CASE key[1] = "identity" -> MaxIdentity
                [] key[1] = "client" -> MaxClient
                [] key[1] = "change" -> MaxChange

\* The check of the throttle and the failure it counts are separated by a database read and a
\* password hash, so a key can collect more failures than its limit; but never by more than the
\* other requests in flight, whatever mix of logins and changes is running.
AttemptsBounded ==
  \A key \in Keys:
    Len(Live(hits, key)) + Cardinality(Trying(key)) <= MaxOf(key) + Cardinality(Handlers) - 1

\* Nobody may archive themselves, so the last active Admin can only be lost when two of them
\* archive each other: one of the two writes after its own account was archived.
LockoutNeedsARace ==
  crossed \/ \E u \in People: Exists(u) /\ account[u].role = "Admin" /\ account[u].active

\* Two requests that enable the same client's login, or create an account of the same name, do not
\* overwrite one another: a username, once set, belongs to that account, with one owner.
NamesStick ==
  [][\A u \in People: Exists(u) /\ account[u].name # Null =>
        /\ account'[u].name = account[u].name
        /\ \A v \in People \ {u}: account'[v] # Absent => account'[v].name # account[u].name]_accountVars

=============================================================================
