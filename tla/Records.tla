--------------------------------- MODULE Records -------------------------------
(***************************************************************************)
(* The pages of one client and of one professional, and the forms they     *)
(* hold.  A form that is a component of its own is not heard once closed;  *)
(* a page whose subject is deactivated is left with it.                    *)
(***************************************************************************)
EXTENDS Views

\* A client: profile, appointments and account; the three are asked on entry.  A series saved here
\* has no row yet, and the list of appointments shows rows only.
ClientProfileLoad      == Keeping(Load("loading"))
ClientAppointmentsLoad == Load("contentLoading")
ClientLedgerLoad       == Load("")
ClientEdit             == Sparing({"appointments", "ledger"}, Hidden("loading", Child(Drawn(Editor("submitting", {"profile"})))))
ClientCancel           == Sparing({"profile", "ledger"}, Hidden("contentLoading", Forgetting({"cancel"}, Dialog({"appointments"}))))
ClientBook             == Sparing({"profile"}, Hidden("loading", Checked(Child(Drawn(Creator("saving", {"appointments", "ledger"}))))))
ClientEntry            == Sparing({"profile", "appointments"}, Hidden("loading", Child(Drawn(Creator("entering", {"ledger"})))))
ClientLogin            == Sparing({"appointments", "ledger"}, Hidden("loading", Drawn(Creator("enableLoginSubmitting", {"profile"}))))
Deactivate             == Hidden("loading", [Dialog({}) EXCEPT !.opens = "blank"])
ClientDeactivate       == Sparing({"profile", "appointments", "ledger"}, Deactivate)
ClientPage ==
  View({"profile", "appointments", "ledger"},
       [profile |-> ClientProfileLoad, appointments |-> ClientAppointmentsLoad, ledger |-> ClientLedgerLoad],
       [edit |-> ClientEdit, cancel |-> ClientCancel, book |-> ClientBook, entry |-> ClientEntry,
        login |-> ClientLogin, deactivate |-> ClientDeactivate])

\* An entry of the account: the picker asks for the appointments the first time it shows.
EntryAppointmentsLoad == Keeping(Load("loadingAppointments"))
EntryPicker           == Only({"appointments"})
EntrySave             == Sparing({"appointments"}, Fields("loading", {}))
LedgerEntryForm ==
  View({}, [appointments |-> EntryAppointmentsLoad], [picker |-> EntryPicker, save |-> EntrySave])

\* A professional: profile, services and upcoming appointments.
ProfessionalProfileLoad      == Keeping(Load("loading"))
ProfessionalServicesLoad     == Load("")
ProfessionalAppointmentsLoad == Load("")
ProfessionalEdit             == Sparing({"services", "appointments"}, Hidden("loading", Child(Drawn(Editor("submitting", {"profile"})))))
ProfessionalDeactivate       == Sparing({"profile", "services", "appointments"}, Deactivate)
ProfessionalPage ==
  View({"profile", "services", "appointments"},
       [profile |-> ProfessionalProfileLoad, services |-> ProfessionalServicesLoad,
        appointments |-> ProfessionalAppointmentsLoad],
       [edit |-> ProfessionalEdit, deactivate |-> ProfessionalDeactivate])
=============================================================================
