------------------------------ MODULE DataImport ------------------------------
(***************************************************************************)
(* clean_data.py: a run of the pipeline over the organizer's files, the    *)
(* output files it writes one after another, and the load of these files   *)
(* into PostgreSQL, table by table in one transaction after the migrations *)
(* have been committed one by one.  The process may be killed anywhere,    *)
(* and the database may refuse a row.                                      *)
(*                                                                         *)
(* An output file is the dataset it was derived from: the rules are        *)
(* deterministic (DataRules), and the reference date is fixed.             *)
(***************************************************************************)
EXTENDS DataRules

CONSTANTS
    Sources,        \* the datasets the organizer may provide
    None,
    Migrations,     \* the number of files under sql/migrations
    MaxRuns         \* bound on the runs started

ASSUME ImportAssumption ==
    /\ Sources \subseteq Dataset /\ None \notin Sources
    /\ Migrations \in Nat \ {0} /\ MaxRuns \in Nat

VARIABLES
    files,          \* the output files
    db,             \* the committed database
    migrated,       \* how many migrations it has had
    pc,             \* where the process is
    done,           \* files written, migrations applied or tables loaded there
    gen,            \* what the process computed
    tx,             \* the database as the open transaction sees it
    loaded,         \* the dataset of the last load committed
    runs            \* the runs started so far

process == <<pc, done, gen, tx>>
vars == <<files, db, migrated, process, loaded, runs>>

Outputs == <<"service_catalog", "locations", "repair_form", "demo_seed",
             "source_mappings", "quality_summary", "historical_orders",
             "quarantine", "report">>
Tables == <<"vendor", "service", "location", "mapping", "form", "quarantine", "demo">>
FileOf == [t \in {Tables[n] : n \in DOMAIN Tables} |->
    CASE t \in {"vendor", "service"} -> "service_catalog"
      [] t = "location" -> "locations"
      [] t = "mapping" -> "source_mappings"
      [] t = "form" -> "repair_form"
      [] t = "quarantine" -> "quarantine"
      [] OTHER -> "demo_seed"]

Stop ==
    pc' = "idle" /\ done' = 0 /\ gen' = None /\ tx' = EmptyDatabase
Enter(place) == pc' = place /\ done' = 0

-----------------------------------------------------------------------------
(***************************************************************************)
(* run_pipeline.                                                           *)
(***************************************************************************)
\* Everything is read and derived before anything is written: a missing file or
\* a missing demo area stops the run here, and nothing has changed.
StartRun(src) ==
    /\ pc = "idle"
    /\ runs < MaxRuns
    /\ RulesPass(src)
    /\ runs' = runs + 1
    /\ Enter("write") /\ gen' = src
    /\ UNCHANGED <<files, db, migrated, tx, loaded>>

WriteFile ==
    /\ pc = "write"
    /\ done < Len(Outputs)
    /\ files' = [files EXCEPT ![Outputs[done + 1]] = gen]
    /\ done' = done + 1
    /\ UNCHANGED <<db, migrated, pc, gen, tx, loaded, runs>>

-----------------------------------------------------------------------------
(***************************************************************************)
(* load_pipeline_outputs.                                                  *)
(***************************************************************************)
\* Mutant: the load starts before the report has been written.
AfterWritingEarly ==
    /\ pc = "write" /\ done >= Len(Outputs) - 1
    /\ \/ Stop
       \/ Enter("migrate") /\ UNCHANGED <<gen, tx>>
       \/ Enter("load") /\ tx' = db /\ UNCHANGED gen
    /\ UNCHANGED <<files, db, migrated, loaded, runs>>
\* Without DATABASE_URL the run ends here; --skip-migration goes on to load.
AfterWriting ==
    /\ pc = "write" /\ done = Len(Outputs)
    /\ \/ Stop
       \/ Enter("migrate") /\ UNCHANGED <<gen, tx>>
       \/ Enter("load") /\ tx' = db /\ UNCHANGED gen
    /\ UNCHANGED <<files, db, migrated, loaded, runs>>

\* Each migration begins and commits a transaction of its own.
Migrate ==
    /\ pc = "migrate"
    /\ IF done < Migrations
       THEN /\ done' = done + 1
            /\ migrated' = IF migrated > done THEN migrated ELSE done + 1
            /\ UNCHANGED <<pc, tx>>
       ELSE Enter("load") /\ tx' = db /\ UNCHANGED migrated
    /\ UNCHANGED <<files, db, gen, loaded, runs>>

\* The rows of a table in the file read for it, written over those in d.
Written(t, d) ==
    LET src == files[FileOf[t]] IN
    CASE t = "vendor" -> WriteVendors(d, src)
      [] t = "service" -> WriteServices(d, src)
      [] t = "location" -> WriteLocations(d, src)
      [] t = "mapping" -> WriteMappings(d, src)
      [] t = "form" -> WriteForm(d, src)
      [] t = "quarantine" -> WriteQuarantine(d, src)
      [] OTHER -> WriteDemo(d, src)

\* The constraints that the rows of a table are checked against.
Allowed(t, d) ==
    CASE t = "service" -> ServicesHaveVendors(d)
      [] t = "location" -> NamesAreUnique(d)
      [] t = "form" -> FormHasItsService(d)
      [] t = "demo" -> AreasAreLocations(d)
      [] OTHER -> TRUE

Loading == pc = "load" /\ migrated > 0
LoadTable ==
    /\ Loading
    /\ done < Len(Tables)
    /\ LET t == Tables[done + 1] IN
       /\ Allowed(t, Written(t, tx))
       /\ tx' = Written(t, tx)
    /\ done' = done + 1
    /\ UNCHANGED <<files, db, migrated, pc, gen, loaded, runs>>

Commit ==
    /\ Loading
    /\ done = Len(Tables)
    /\ db' = tx
    /\ loaded' = gen
    /\ Stop
    /\ UNCHANGED <<files, migrated, runs>>

\* Mutant: what was loaded before the failure stays.
RolledBackNot == db' = IF pc = "load" THEN tx ELSE db
RolledBack == db' = db

\* A row is refused, there is no schema yet, or the connection is lost.
LoadFails ==
    /\ pc \in {"migrate", "load"}
    /\ RolledBack
    /\ Stop
    /\ UNCHANGED <<files, migrated, loaded, runs>>

\* External: the process is killed.
Crash ==
    /\ pc = "write"
    /\ Stop
    /\ UNCHANGED <<files, db, migrated, loaded, runs>>

-----------------------------------------------------------------------------
Init ==
    /\ files = [f \in {Outputs[n] : n \in DOMAIN Outputs} |-> None]
    /\ db = EmptyDatabase /\ migrated = 0
    /\ pc = "idle" /\ done = 0 /\ gen = None /\ tx = EmptyDatabase
    /\ loaded = None /\ runs = 0

Next ==
    \/ \E src \in Sources : StartRun(src)
    \/ WriteFile \/ AfterWriting \/ Migrate
    \/ LoadTable \/ Commit \/ LoadFails \/ Crash

Spec == Init /\ [][Next]_vars

-----------------------------------------------------------------------------
(***************************************************************************)
(* Properties.                                                             *)
(***************************************************************************)
\* The type invariant.  A load reads files of one run, whatever runs were
\* killed before it.
TypeOK ==
    /\ files \in [{Outputs[n] : n \in DOMAIN Outputs} -> Sources \cup {None}]
    /\ db \in DatabaseType /\ tx \in DatabaseType
    /\ migrated \in 0..Migrations
    /\ pc \in {"idle", "write", "migrate", "load"}
    /\ done \in 0..(Len(Outputs) + Migrations)
    /\ gen \in Sources \cup {None} /\ loaded \in Sources \cup {None}
    /\ pc \in {"migrate", "load"} => \A f \in DOMAIN files : files[f] = gen
    /\ runs \in 0..MaxRuns

\* What the last load's rules decided about a row is what the database holds,
\* over whatever earlier loads had decided: a service or a location that they
\* no longer verify is out of the agent's reach.
GateShowsTheLastLoad ==
    loaded # None =>
        /\ \A s \in DOMAIN Services(loaded) : db.service[s] = Services(loaded)[s]
        /\ \A id \in DOMAIN Locations(loaded) :
              /\ db.location[id] = Locations(loaded)[id]
              /\ id \in AgentLocations(db) => db.location[id].name \in loaded.reference
        /\ \A key \in DOMAIN Mappings(loaded) : db.mapping[key] = Mappings(loaded)[key]
        /\ \A key \in DOMAIN Quarantine(loaded) :
              db.quarantine[key] = Quarantine(loaded)[key]

\* Wherever matching offers a slot, the consumer's county and district resolve
\* to that location: it is verified and no other location has its name.
SlotsResolve == \A id \in AgentSlots(db) : Resolvable(db, id)

\* An import is a sequence of whole loads: rows refused by the database, lost
\* connections and killed processes leave no half of a dataset behind.
Gate == INSTANCE DataGate
GateSpec == Gate!Spec

\* The documented gate: the service catalogue of the agent holds no service
\* that the last load could not resolve.
UnresolvedNotOffered ==
    \A s \in AgentServices(db) :
        <<"service", s>> \in DOMAIN db.mapping => db.mapping[<<"service", s>>]
===============================================================================
