-------------------------------- MODULE Screens --------------------------------
(***************************************************************************)
(* Every view by its name.  A view that shows several independent things is   *)
(* listed as several, each with the loads its own forms touch.             *)
(***************************************************************************)
EXTENDS Lists, Records, Boards, Calendars

ViewOf ==
  [closures |-> Closures, rooms |-> Rooms, offerings |-> Offerings, grants |-> Grants, prices |-> Prices,
   myExceptions |-> MyExceptions, business |-> Business, profile |-> Profile,
   crud |-> GenericCrud, reference |-> ReferenceSearch, bookingOptions |-> BookingOptions, clients |-> Clients,
   professionals |-> Professionals, users |-> Users, audit |-> Audit, balance |-> Balance,
   client |-> ClientPage, ledgerEntry |-> LedgerEntryForm, professional |-> ProfessionalPage,
   admin |-> AdminDashboard, professionalDay |-> ProfessionalDashboard, receptionistDay |-> ReceptionistDashboard,
   requests |-> Requests, ownTurnos |-> OwnTurnos, requestFlow |-> RequestFlow,
   week |-> WeekCalendar, month |-> MonthCalendar,
   hours |-> MonthHours, booking |-> BookingCalendar, room |-> RoomCalendar, detail |-> DetailPanel,
   series |-> SeriesScopes, rule |-> SeriesRule, template |-> Template, blockServices |-> BlockServices]
=============================================================================
