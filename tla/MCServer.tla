------------------------------- MODULE MCServer -------------------------------
(***************************************************************************)
(* The parts of the server that share no state, checked side by side: an   *)
(* initial state picks one, and only that one moves.                       *)
(***************************************************************************)
EXTENDS Accounts, MCDesk, Entities, Settings, Operations

CONSTANTS a1, a2, x1, n1, n2, n3, n4, w1, w2, b1, b2

VARIABLE world

----------------------------------------------------------------------------
(* Two admins with a session, a client without a login, a row to create *)

Person(role, n, w) ==
  [role |-> role, name |-> n, password |-> w, tenant |-> b1, active |-> TRUE,
   mustChange |-> FALSE, mail |-> n # Null, gen |-> 1]
SomePeople == a1 :> Person("Admin", n1, w1) @@ a2 :> Person("Admin", n2, w1)
              @@ c1 :> Person("Client", Null, Null) @@ x1 :> Absent
SomeSessions == {[user |-> u, token |-> 0, gen |-> 1]: u \in {a1, a2}}
SomeMenus == {{"login", "change", "reset", "restart"}, {"login", "wait"},
              {"deactivate", "enable", "logout"}, {"create", "enable"}}
SomeMaxRequests == [m \in SomeMenus |-> IF "login" \in m THEN 3 ELSE 2]

----------------------------------------------------------------------------
(* Two professionals, a client, a service, a room in b1; one of each first two kinds in b2 *)

Held(table, business) == [table |-> table, business |-> business]
SomeLasting ==
  (-1 :> Held("professionals", b1)) @@ (-2 :> Held("professionals", b1))
  @@ (-3 :> Held("professionals", b2)) @@ (-4 :> Held("clients", b1))
  @@ (-5 :> Held("services", b1)) @@ (-6 :> Held("services", b2)) @@ (-7 :> Held("resources", b1))

First(table, columns) == With(Blank(table, Null, 0), columns)
SomeRows ==
  (-8 :> First("schedule_blocks", [prof |-> -1]))
  @@ (-9 :> First("schedule_block_services", [prof |-> -1, block |-> -8, service |-> -5]))
  @@ (-10 :> First("schedule_exceptions", [prof |-> -1]))
  @@ (-11 :> First("schedule_exceptions", [business |-> b1]))
  @@ (-12 :> First("professional_services", [prof |-> -1, service |-> -5]))
  @@ (-13 :> First("schedule_blocks", [prof |-> -2]))

SomeActors == {"super", "admin", "pro", "desk"}
SomeActor ==
  [super |-> [id |-> 0, role |-> "Admin", business |-> Null],
   admin |-> [id |-> 1, role |-> "Admin", business |-> b1],
   pro |-> [id |-> -1, role |-> "Professional", business |-> b1],
   desk |-> [id |-> 2, role |-> "Receptionist", business |-> b1]]
SomeGrants == {<<-1, 2>>}
SomeReferences == [prof |-> {-1, -2, -3}, client |-> {-4}, room |-> {-7}, service |-> {-5, -6},
                   block |-> {-8, -13, 1}]
All(table) == {table} \X {"create", "update", "delete"}
SomeEntityMenus ==
  {All("schedule_blocks"),
   {<<"schedule_blocks", "delete">>, <<"schedule_blocks", "create">>} \cup All("schedule_block_services"),
   All("schedule_exceptions") \cup {"closures"} \X {"create", "change", "reopen"},
   All("client_professional_services") \cup {<<"professionals", "delete">>},
   All("professional_services") \cup All("services"),
   All("resources") \cup All("clients") \cup All("professionals"),
   {<<"schedule_blocks", "update">>, <<"grants", "delete">>},
   {<<"schedule_block_services", "delete">>} \cup {"grants"} \X {"create", "delete"}}

----------------------------------------------------------------------------
(* Three files, edited, broken and ending their own transaction *)

SomeContent ==
  (<<1, "a">> :> <<"work", "commit", "work">>) @@ (<<1, "b">> :> <<"work">>)
  @@ (<<2, "a">> :> <<"work", "abort", "work">>) @@ (<<2, "b">> :> <<"work", "fail">>)
  @@ (<<2, "c">> :> <<"commit", "work">>) @@ (<<3, "a">> :> <<"work">>)
SomeDirectories ==
  {1 :> "b", 1 :> "a" @@ 2 :> "a" @@ 3 :> "a", 1 :> "a" @@ 2 :> "b", 1 :> "a" @@ 2 :> "c" @@ 3 :> "a"}

----------------------------------------------------------------------------

ServerInit ==
  /\ world \in {"accounts", "desk", "entities", "settings", "operations"}
  /\ AccountsInit /\ (world = "accounts" \/ menu = CHOOSE m \in Menus: TRUE)
  /\ DeskInit /\ (\/ world = "desk"
                  \/ /\ deskMenu = CHOOSE m \in DeskMenus: TRUE
                     /\ desk.state = "requested" /\ granted = {})
  /\ EntitiesInit /\ (world = "entities" \/ entityMenu = CHOOSE m \in EntityMenus: TRUE)
  /\ SettingsInit
  /\ OperationsInit

ServerNext ==
  /\ world' = world
  /\ \/ /\ world = "accounts" /\ AccountsNext
        /\ UNCHANGED <<deskVars, entityVars, settingsVars, operationVars>>
     \/ /\ world = "desk" /\ DeskNext
        /\ UNCHANGED <<accountVars, entityVars, settingsVars, operationVars>>
     \/ /\ world = "entities" /\ EntitiesNext
        /\ UNCHANGED <<accountVars, deskVars, settingsVars, operationVars>>
     \/ /\ world = "settings" /\ SettingsNext
        /\ UNCHANGED <<accountVars, deskVars, entityVars, operationVars>>
     \/ /\ world = "operations" /\ OperationsNext
        /\ UNCHANGED <<accountVars, deskVars, entityVars, settingsVars>>

ServerSpec ==
  ServerInit /\ [][ServerNext]_<<world, accountVars, deskVars, entityVars, settingsVars, operationVars>>

=============================================================================
