------------------------------ MODULE Descriptors ------------------------------
(***************************************************************************)
(* The tables a generic list reads, as their descriptors declare them: the *)
(* columns with what a request may do to each, who may read the table, and *)
(* what narrows a read.  Labels, validators and inputs are left out.       *)
(***************************************************************************)

Column(type, flags) ==
  [type |-> type, identity |-> flags \cap {"pk", "fk", "options"} # {}, pk |-> "pk" \in flags,
   filterable |-> "filter" \in flags, sortable |-> "sort" \in flags, nullable |-> "null" \in flags]

\* Filters and order both, filters only, order only, neither.
Full(type)   == Column(type, {"filter", "sort"})
Sought(type) == Column(type, {"filter"})
Sorted(type) == Column(type, {"sort"})
Plain(type)  == Column(type, {})
Maybe(c)     == [c EXCEPT !.nullable = TRUE]

Pk       == Column("string", {"pk", "filter", "sort"})
Link     == Column("string", {"fk", "filter"})
Choice   == Column("string", {"options", "filter", "sort"})

----------------------------------------------------------------------------

Columns_users ==
  [id |-> Pk, business_id |-> Maybe(Link), username |-> Full("string"), email |-> Full("string"),
   role |-> Choice, is_active |-> Sought("boolean"), must_change_password |-> Plain("boolean")]

Columns_clients ==
  [id |-> Pk, display_name |-> Full("string"), email |-> Maybe(Full("string")),
   dni |-> Maybe(Full("string")), username |-> Maybe(Plain("string")),
   phone |-> Maybe(Sought("string")), notes |-> Maybe(Plain("string"))]

Columns_professionals ==
  [id |-> Pk, display_name |-> Full("string"), bio |-> Maybe(Plain("string"))]

Columns_resources ==
  [id |-> Pk, business_id |-> Link, name |-> Full("string"), description |-> Maybe(Plain("string"))]

Columns_services ==
  [id |-> Pk, business_id |-> Link, name |-> Full("string"), description |-> Maybe(Plain("string")),
   default_duration_minutes |-> Full("number"), default_price_ars |-> Sorted("string")]

Columns_client_professional_services ==
  [id |-> Pk, client_user_id |-> Link, professional_user_id |-> Link, service_id |-> Link,
   price_ars |-> Sorted("string")]

Columns_professional_services ==
  [id |-> Pk, professional_user_id |-> Link, service_id |-> Link,
   min_booking_days |-> Maybe(Plain("number")), max_booking_days |-> Maybe(Plain("number"))]

Columns_schedule_blocks ==
  [id |-> Pk, professional_user_id |-> Maybe(Link), resource_id |-> Maybe(Link),
   weekday |-> Choice, start_time |-> Sorted("string"), end_time |-> Plain("string")]

Columns_schedule_block_services ==
  [id |-> Pk, professional_user_id |-> Link, schedule_block_id |-> Link, service_id |-> Link,
   duration_minutes |-> Maybe(Plain("number")), price_ars |-> Maybe(Sorted("string"))]

Columns_schedule_exceptions ==
  [id |-> Pk, professional_user_id |-> Maybe(Link), resource_id |-> Maybe(Link),
   business_id |-> Maybe(Link), exception_date |-> Full("string"),
   is_unavailable |-> Maybe(Sought("boolean")), start_time |-> Maybe(Plain("string")),
   end_time |-> Maybe(Plain("string")), granularity_minutes |-> Maybe(Plain("number")),
   reason |-> Maybe(Plain("string"))]

Columns ==
  [users |-> Columns_users, clients |-> Columns_clients, professionals |-> Columns_professionals,
   resources |-> Columns_resources, services |-> Columns_services,
   client_professional_services |-> Columns_client_professional_services,
   professional_services |-> Columns_professional_services,
   schedule_blocks |-> Columns_schedule_blocks,
   schedule_block_services |-> Columns_schedule_block_services,
   schedule_exceptions |-> Columns_schedule_exceptions]

\* roleRequired.read; every other table is protected and reads as unknown.
Readers ==
  LET Staff == {"Admin", "Professional", "Receptionist"}
  IN [users |-> {"Admin"}, clients |-> Staff \cup {"Client"}, professionals |-> Staff \cup {"Client"},
      resources |-> Staff \cup {"Client"}, services |-> Staff \cup {"Client"},
      client_professional_services |-> Staff \cup {"Client"},
      professional_services |-> Staff \cup {"Client"}, schedule_blocks |-> Staff,
      schedule_block_services |-> Staff, schedule_exceptions |-> Staff \cup {"Client"}]

\* Columns whose row leads to the business; a business_id of the row itself otherwise.
BusinessPaths ==
  [schedule_blocks |-> {"professional_user_id", "resource_id"},
   schedule_exceptions |-> {"professional_user_id", "resource_id"},
   schedule_block_services |-> {"professional_user_id"},
   professional_services |-> {"professional_user_id"},
   client_professional_services |-> {"client_user_id"}]

\* ownership on read, and the column a receptionist's grants are matched on.
ReadOwner ==
  [clients |-> [column |-> "id", role |-> "Client"],
   schedule_blocks |-> [column |-> "professional_user_id", role |-> "Professional"],
   schedule_block_services |-> [column |-> "professional_user_id", role |-> "Professional"]]
ReadGrant ==
  [professionals |-> "id", schedule_blocks |-> "professional_user_id",
   schedule_block_services |-> "professional_user_id"]

Archived == {"users", "clients", "professionals", "resources", "services"}
Discriminator == [clients |-> "Client", professionals |-> "Professional"]
=============================================================================
