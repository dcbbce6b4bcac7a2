-------------------------------- MODULE MCDesk --------------------------------
(* The appointment of c1 with pro1, an admin, a receptionist and a client who *)
(* never met pro1.                                                            *)
EXTENDS Desk, TLC

CONSTANTS c1, c2, pro1, adm1, rec1

SomeRoles == pro1 :> "Professional" @@ adm1 :> "Admin" @@ rec1 :> "Receptionist"
SomeKnown == {<<pro1, c1>>}
SomeDeskMenus == {{"ledger", "transition"}, {"transition", "patch", "ignore"}, {"ledger", "grant"},
                  {"patch", "grant"}}

Asked(client, linked, type, description, priced) ==
  [client |-> client, linked |-> linked, type |-> type, description |-> description,
   priced |-> priced]

SomeLedgerRequests ==
  {Asked(c1, TRUE, "charge", Null, TRUE), Asked(c2, TRUE, "charge", Null, TRUE),
   Asked(c1, TRUE, "charge", "blank", FALSE), Asked(c1, TRUE, "charge", "text", TRUE),
   Asked(c1, FALSE, "adjustment_credit", Null, TRUE), Asked(c2, TRUE, "payment", Null, FALSE)}

=============================================================================
