---------------------------------- MODULE Lists --------------------------------
(***************************************************************************)
(* The lists: a page of rows for the filters, the order and the page in    *)
(* the address, and the panels to create, change and delete a row.         *)
(***************************************************************************)
EXTENDS Sections

\* The generic table, its form and its confirmation.  Every change mounts the table anew and
\* asks for the labels of the references to it.
TableLoad      == About("query", Load("loading"))
ReferencesLoad == Load("referencesLoading")
RowCreate      == Anew(Child(Drawn(Creator("submitting", {"rows", "references"}))))
RowEdit        == Anew(Child(Drawn(Editor("submitting", {"rows", "references"}))))
RowDelete      == Anew(Forgetting({"delete"}, Within(Dialog({"rows", "references"}))))
GenericCrud ==
  Listing("rows", View({"rows", "references"}, [rows |-> TableLoad, references |-> ReferencesLoad],
                       [create |-> RowCreate, edit |-> RowEdit, delete |-> RowDelete]))

\* What is typed to find a reference: only the newest query may add to the options.
SearchLoad == About("subject", Guarded("latest", Keeping(Load("searching"))))
ReferenceSearch == View({"options"}, [options |-> SearchLoad], NoForms)

\* The clients found for a booking are added to the ones there were, newest search only.
ClientSearchLoad == About("subject", Guarded("latest", Keeping(Load("searchingClients"))))
BookingOptionsLoad == Keeping(Load("loading"))
BookingOptions ==
  View({"options", "clients"}, [options |-> BookingOptionsLoad, clients |-> ClientSearchLoad], NoForms)

\* Clients: the rows of one are asked when its pointer is entered, and kept for its panel, which
\* loads itself.  Whom the viewer has seen is asked once: a first booking does not ask it again.
ClientsLoad    == About("query", Load("loading"))
RelatedLoad    == Keeping(Load(""))
PreviewLoad    == Kept(Load("opening"))
ClientOpen     == Drawer({"preview"})
ClientChange   == Sparing({"preview"}, Missing({"related"}, Drawn(Unguarded(Common(Button("", {"rows"}))))))
ClientCreate   == Sparing({"related", "preview"}, Child(Drawn(Creator("submitting", {"rows"}))))
Clients ==
  Listing("rows", View({"rows", "related"},
                       [rows |-> ClientsLoad, related |-> RelatedLoad, preview |-> PreviewLoad],
                       [open |-> ClientOpen, change |-> ClientChange, create |-> ClientCreate]))

\* Professionals: a change inside the panel mounts the table anew.
ProfessionalOpen   == Drawer({})
ProfessionalChange == Anew(Drawn(Unguarded(Common(Button("", {"rows"})))))
Professionals ==
  Listing("rows", View({"rows"}, [rows |-> TableLoad],
                       [open |-> ProfessionalOpen, change |-> ProfessionalChange]))

\* Accounts.
Users ==
  Listing("rows", View({"rows"}, [rows |-> TableLoad],
                       [create |-> UserCreate, deactivate |-> UserDeactivate, reset |-> UserReset]))

\* The audit log and the client's own account: lists to read.
AuditLoad   == About("query", Load("loading"))
Audit       == Listing("rows", View({"rows"}, [rows |-> AuditLoad], NoForms))
BalanceLoad == About("query", Load("loadingEntries"))
Balance     == Listing("rows", View({"rows"}, [rows |-> BalanceLoad], NoForms))
=============================================================================
