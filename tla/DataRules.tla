------------------------------ MODULE DataRules ------------------------------
(***************************************************************************)
(* The cleaning rules of data_cleaning/pipeline.py: what a run derives     *)
(* from the organizer's files and the reference of administrative areas,   *)
(* and what loading it does to the database (postgres.py and the schema).  *)
(*                                                                         *)
(* A dataset is a record:                                                  *)
(*   vendors    the service vendors of the master file                     *)
(*   vendorOf   its services, with the vendor each one names               *)
(*   districts  the organizer's districts                                  *)
(*   orphans    the districts whose county the file does not list          *)
(*   reference  the areas of the reference snapshot                        *)
(*   feedback   the services the consultation feedback refers to           *)
(*   orders     the historical orders: the service and the vendor each one *)
(*              names, and the worst finding about the order itself        *)
(* Texts, amounts, codes and the shapes of order items are left out, and   *)
(* so are the outputs nobody loads.  A district code keeps its name.       *)
(***************************************************************************)
EXTENDS Naturals, Sequences, FiniteSets

CONSTANTS
    Vendor, Service, Order, District,
    Name,           \* full names of administrative areas
    NameOf,         \* the name of each district
    RepairService,  \* service 17, which the form and the demo rows use
    DemoNames       \* the areas the demo rows use

ASSUME RulesAssumption ==
    /\ NameOf \in [District -> Name]
    /\ RepairService \in Service
    /\ DemoNames \subseteq Name

OrderRow == [service : Service, vendor : Vendor,
             finding : {"none", "warning", "error"}]
PartialFunctions(S, T) == UNION {[D -> T] : D \in SUBSET S}
Dataset == [vendors : SUBSET Vendor, vendorOf : PartialFunctions(Service, Vendor),
            districts : SUBSET District, orphans : SUBSET District,
            reference : SUBSET Name, feedback : SUBSET Service,
            orders : PartialFunctions(Order, OrderRow)]

-----------------------------------------------------------------------------
(***************************************************************************)
(* What a run derives from a dataset.                                      *)
(***************************************************************************)
\* The vendors are listed as they are; a service that names a vendor the file
\* does not list stays in the catalogue, quarantined.
Services(src) ==
    [s \in DOMAIN src.vendorOf |->
        [vendor |-> src.vendorOf[s], ok |-> src.vendorOf[s] \in src.vendors]]

Located(src) == src.districts \ src.orphans
OrganizerId(d) == <<"ORG", d>>
ReferenceId(n) == <<"NLSC", n>>
LocationId == {OrganizerId(d) : d \in District} \cup {ReferenceId(n) : n \in Name}

\* Each of the organizer's districts, verified if the reference knows it, and
\* the areas of the reference that the organizer lacks.
Locations(src) ==
    LET added == src.reference \ {NameOf[d] : d \in Located(src)} IN
    [id \in {OrganizerId(d) : d \in Located(src)} \cup {ReferenceId(n) : n \in added} |->
        IF id[1] = "ORG"
        THEN [name |-> NameOf[id[2]], ok |-> NameOf[id[2]] \in src.reference]
        ELSE [name |-> id[2], ok |-> TRUE]]

Ordered(src) == {src.orders[o].service : o \in DOMAIN src.orders}
OrderedFrom(src) == {src.orders[o].vendor : o \in DOMAIN src.orders}

\* An identifier of the data is resolved exactly if the master file lists it,
\* quarantined services included.
Mappings(src) ==
    [key \in {<<"service", s>> : s \in DOMAIN src.vendorOf \cup src.feedback
                                                           \cup Ordered(src)}
             \cup {<<"vendor", v>> : v \in src.vendors \cup OrderedFrom(src)} |->
        key[2] \in IF key[1] = "service" THEN DOMAIN src.vendorOf ELSE src.vendors]

\* The findings that quarantine an order.
OrderErrors(src, o) ==
    LET row == src.orders[o] IN
    {code \in {"ORPHAN_ORDER_SERVICE", "ORPHAN_ORDER_VENDOR", "ORDER_ERROR"} :
        CASE code = "ORPHAN_ORDER_SERVICE" -> row.service \notin DOMAIN src.vendorOf
          [] code = "ORPHAN_ORDER_VENDOR" -> row.vendor \notin src.vendors
          [] OTHER -> row.finding = "error"}

\* Every row of the consultation package, and the orders with an error.
Quarantine(src) ==
    [key \in {<<"feedback", s>> : s \in src.feedback}
             \cup {<<"order", o>> : o \in {o \in DOMAIN src.orders :
                                             OrderErrors(src, o) # {}}} |->
        IF key[1] = "order" THEN OrderErrors(src, key[2])
        ELSE {"UNUSABLE_TEST_CONSULTATION_SNAPSHOT"}
             \cup {code \in {"ORPHAN_FEEDBACK_SERVICE"} :
                      key[2] \notin DOMAIN src.vendorOf}]

\* The demo rows cover these areas: one location for each name.
Named(src, n) == {id \in DOMAIN Locations(src) : Locations(src)[id].name = n}
OneOf(ids) == CHOOSE id \in ids : TRUE
Areas(src) == {OneOf(Named(src, n)) : n \in DemoNames}

\* The one consultation form is that of the repair service.
Forms == {RepairService}

\* A run stops, with nothing written, if the demo rows lack their area.
RulesPass(src) == \A n \in DemoNames : Named(src, n) # {}

-----------------------------------------------------------------------------
(***************************************************************************)
(* The tables.  A row is verified and eligible, or neither (ok).           *)
(***************************************************************************)
EmptyTable == [k \in {} |-> TRUE]
EmptyDatabase ==
    [vendor |-> {}, service |-> EmptyTable, location |-> EmptyTable,
     mapping |-> EmptyTable, form |-> {}, quarantine |-> EmptyTable,
     area |-> {}]

DatabaseType ==
    [vendor : SUBSET Vendor,
     service : PartialFunctions(Service, [vendor : Vendor, ok : BOOLEAN]),
     location : PartialFunctions(LocationId, [name : Name, ok : BOOLEAN]),
     mapping : PartialFunctions(({"service"} \X Service) \cup ({"vendor"} \X Vendor),
                                BOOLEAN),
     form : SUBSET Forms,
     quarantine : PartialFunctions(({"feedback"} \X Service) \cup ({"order"} \X Order),
         SUBSET {"ORPHAN_ORDER_SERVICE", "ORPHAN_ORDER_VENDOR", "ORDER_ERROR",
                 "ORPHAN_FEEDBACK_SERVICE", "UNUSABLE_TEST_CONSULTATION_SNAPSHOT"}),
     area : SUBSET LocationId]

\* Mutant: a row that is there already is kept (DO NOTHING).
UpsertNew(rows, table) ==
    [k \in DOMAIN rows \cup DOMAIN table |->
        IF k \in DOMAIN table THEN table[k] ELSE rows[k]]
\* INSERT ... ON CONFLICT (the key) DO UPDATE; nothing is ever deleted.
Upsert(rows, table) ==
    [k \in DOMAIN rows \cup DOMAIN table |->
        IF k \in DOMAIN rows THEN rows[k] ELSE table[k]]

\* The foreign keys and the unique name of core.location.
ServicesHaveVendors(d) == \A s \in DOMAIN d.service : d.service[s].vendor \in d.vendor
NamesAreUnique(d) ==
    \A x, y \in DOMAIN d.location : d.location[x].name = d.location[y].name => x = y
FormHasItsService(d) == d.form \subseteq DOMAIN d.service
AreasAreLocations(d) == d.area \subseteq DOMAIN d.location
Integrity(d) ==
    ServicesHaveVendors(d) /\ NamesAreUnique(d) /\ FormHasItsService(d)
    /\ AreasAreLocations(d)

\* The rows each table is given.
WriteVendors(d, src) == [d EXCEPT !.vendor = @ \cup src.vendors]
WriteServices(d, src) == [d EXCEPT !.service = Upsert(Services(src), @)]
WriteLocations(d, src) == [d EXCEPT !.location = Upsert(Locations(src), @)]
WriteMappings(d, src) == [d EXCEPT !.mapping = Upsert(Mappings(src), @)]
WriteForm(d, src) == [d EXCEPT !.form = @ \cup Forms]
WriteQuarantine(d, src) == [d EXCEPT !.quarantine = Upsert(Quarantine(src), @)]
WriteDemo(d, src) == [d EXCEPT !.area = @ \cup Areas(src)]

\* The database after a load of src.
Loaded(d, src) ==
    LET core == WriteMappings(WriteLocations(WriteServices(
                    WriteVendors(d, src), src), src), src)
    IN WriteDemo(WriteQuarantine(WriteForm(core, src), src), src)

-----------------------------------------------------------------------------
(***************************************************************************)
(* The agent schema: what the views show, and what the read services make  *)
(* of it.                                                                  *)
(***************************************************************************)
AgentServices(d) == {s \in DOMAIN d.service : d.service[s].ok}
AgentLocations(d) == {id \in DOMAIN d.location : d.location[id].ok}
\* Mutant: the view does not join the location catalogue.
AgentSlotsUnjoined(d) == d.area
\* The slots of the demo providers, all of the repair service, by location.
AgentSlots(d) == d.area \cap AgentLocations(d)

\* resolve_location: the only location of that name, or an error.
Resolvable(d, id) ==
    {x \in AgentLocations(d) : d.location[x].name = d.location[id].name} = {id}
=============================================================================
