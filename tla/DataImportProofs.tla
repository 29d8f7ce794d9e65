-------------------------- MODULE DataImportProofs --------------------------
(***************************************************************************)
(* DataImport implements DataGate, whatever the datasets and the bounds,   *)
(* and what the agent may read is what the last load's rules decided.      *)
(*                                                                         *)
(* The argument: a database is a record of seven tables, each load writes  *)
(* them in the order of Tables, and after n of them the open transaction   *)
(* sees Stage(n, db, gen).  A run that loads has written every output      *)
(* file, so all the rows come from its own dataset; a table once checked   *)
(* against its constraint is not written again before the commit.          *)
(***************************************************************************)
EXTENDS DataImport, TLAPS

\* The database after the first n tables of a load of src.
Stage(n, d, src) ==
    [vendor |-> IF n >= 1 THEN d.vendor \cup src.vendors ELSE d.vendor,
     service |-> IF n >= 2 THEN Upsert(Services(src), d.service) ELSE d.service,
     location |-> IF n >= 3 THEN Upsert(Locations(src), d.location) ELSE d.location,
     mapping |-> IF n >= 4 THEN Upsert(Mappings(src), d.mapping) ELSE d.mapping,
     form |-> IF n >= 5 THEN d.form \cup Forms ELSE d.form,
     quarantine |-> IF n >= 6 THEN Upsert(Quarantine(src), d.quarantine)
                    ELSE d.quarantine,
     area |-> IF n >= 7 THEN d.area \cup Areas(src) ELSE d.area]
Shaped(d) ==
    d = [vendor |-> d.vendor, service |-> d.service, location |-> d.location,
         mapping |-> d.mapping, form |-> d.form, quarantine |-> d.quarantine,
         area |-> d.area]

OutputFile == {Outputs[n] : n \in DOMAIN Outputs}

\* Where a run is, and what it has from where.
RunInv ==
    /\ pc \in {"idle", "write", "migrate", "load"}
    /\ done \in Nat
    /\ DOMAIN files = OutputFile
    /\ pc # "idle" => gen \in Sources /\ RulesPass(gen)
    /\ pc = "write" => \A n \in 1..done : files[Outputs[n]] = gen
    /\ pc \in {"migrate", "load"} => \A f \in OutputFile : files[f] = gen
\* What a load has in its transaction, and which constraints it has met.
LoadInv ==
    pc = "load" =>
        /\ done <= 7
        /\ tx = Stage(done, db, gen)
        /\ done >= 2 => ServicesHaveVendors(tx)
        /\ done >= 3 => NamesAreUnique(tx)
        /\ done >= 5 => FormHasItsService(tx)
        /\ done >= 7 => AreasAreLocations(tx)
IInv ==
    /\ Shaped(db) /\ NamesAreUnique(db)
    /\ RunInv
    /\ LoadInv
    /\ GateShowsTheLastLoad

-----------------------------------------------------------------------------
(***************************************************************************)
(* The stages of a load.                                                   *)
(***************************************************************************)
LEMMA StageShaped == ASSUME NEW n, NEW d, NEW src PROVE Shaped(Stage(n, d, src))
  BY DEF Shaped, Stage

LEMMA StageFirst ==
  ASSUME NEW d, NEW src, Shaped(d) PROVE Stage(0, d, src) = d
  BY DEF Shaped, Stage

LEMMA Stages ==
  ASSUME NEW d, NEW src
  PROVE  /\ WriteVendors(Stage(0, d, src), src) = Stage(1, d, src)
         /\ WriteServices(Stage(1, d, src), src) = Stage(2, d, src)
         /\ WriteLocations(Stage(2, d, src), src) = Stage(3, d, src)
         /\ WriteMappings(Stage(3, d, src), src) = Stage(4, d, src)
         /\ WriteForm(Stage(4, d, src), src) = Stage(5, d, src)
         /\ WriteQuarantine(Stage(5, d, src), src) = Stage(6, d, src)
         /\ WriteDemo(Stage(6, d, src), src) = Stage(7, d, src)
  <1>1. WriteVendors(Stage(0, d, src), src) = Stage(1, d, src)
    BY DEF Stage, WriteVendors
  <1>2. WriteServices(Stage(1, d, src), src) = Stage(2, d, src)
    BY DEF Stage, WriteServices
  <1>3. WriteLocations(Stage(2, d, src), src) = Stage(3, d, src)
    BY DEF Stage, WriteLocations
  <1>4. WriteMappings(Stage(3, d, src), src) = Stage(4, d, src)
    BY DEF Stage, WriteMappings
  <1>5. WriteForm(Stage(4, d, src), src) = Stage(5, d, src)
    <2> DEFINE old == Stage(4, d, src)
               new == Stage(5, d, src)
    <2>1. Shaped(old) /\ Shaped(new)
      BY StageShaped
    <2>2. /\ new.vendor = old.vendor /\ new.service = old.service
          /\ new.location = old.location /\ new.mapping = old.mapping
          /\ new.area = old.area /\ new.quarantine = old.quarantine
      BY DEF Stage
    <2>3. new.form = old.form \cup Forms
      BY DEF Stage
    <2> HIDE DEF old, new
    <2>4. WriteForm(old, src) = [old EXCEPT !.form = new.form]
      BY <2>3 DEF WriteForm
    <2>5. [old EXCEPT !.form = new.form] = new
      BY <2>1, <2>2 DEF Shaped
    <2> QED BY <2>4, <2>5 DEF old, new
  <1>6. WriteQuarantine(Stage(5, d, src), src) = Stage(6, d, src)
    BY DEF Stage, WriteQuarantine
  <1>7. WriteDemo(Stage(6, d, src), src) = Stage(7, d, src)
    <2> DEFINE old == Stage(6, d, src)
               new == Stage(7, d, src)
    <2>1. Shaped(old) /\ Shaped(new)
      BY StageShaped
    <2>2. /\ new.vendor = old.vendor /\ new.service = old.service
          /\ new.location = old.location /\ new.mapping = old.mapping
          /\ new.form = old.form /\ new.quarantine = old.quarantine
      BY DEF Stage
    <2>3. new.area = old.area \cup Areas(src)
      BY DEF Stage
    <2> HIDE DEF old, new
    <2>4. WriteDemo(old, src) = [old EXCEPT !.area = new.area]
      BY <2>3 DEF WriteDemo
    <2>5. [old EXCEPT !.area = new.area] = new
      BY <2>1, <2>2 DEF Shaped
    <2> QED BY <2>4, <2>5 DEF old, new
  <1> QED BY <1>1, <1>2, <1>3, <1>4, <1>5, <1>6, <1>7

LEMMA StageLast ==
  ASSUME NEW d, NEW src, Shaped(d) PROVE Stage(7, d, src) = Loaded(d, src)
  BY StageFirst, Stages DEF Loaded

\* The constraint of a table that was written before stays met.
LEMMA StagesKeep ==
  ASSUME NEW d, NEW src, NEW n \in 0..6
  PROVE  /\ n >= 2 /\ ServicesHaveVendors(Stage(n, d, src))
              => ServicesHaveVendors(Stage(n + 1, d, src))
         /\ n >= 3 /\ NamesAreUnique(Stage(n, d, src))
              => NamesAreUnique(Stage(n + 1, d, src))
         /\ n >= 5 /\ FormHasItsService(Stage(n, d, src))
              => FormHasItsService(Stage(n + 1, d, src))
  <1>1. n >= 2 => /\ Stage(n + 1, d, src).vendor = Stage(n, d, src).vendor
                  /\ Stage(n + 1, d, src).service = Stage(n, d, src).service
    BY DEF Stage
  <1>2. n >= 3 => Stage(n + 1, d, src).location = Stage(n, d, src).location
    BY DEF Stage
  <1>3. n >= 5 => Stage(n + 1, d, src).form = Stage(n, d, src).form
    BY DEF Stage
  <1> QED
    BY <1>1, <1>2, <1>3 DEF ServicesHaveVendors, NamesAreUnique, FormHasItsService

-----------------------------------------------------------------------------
(***************************************************************************)
(* What a whole load leaves.                                               *)
(***************************************************************************)
LEMMA UpsertHas ==
  ASSUME NEW rows, NEW table, NEW k \in DOMAIN rows
  PROVE  Upsert(rows, table)[k] = rows[k]
  BY DEF Upsert

\* A location that the rules verify has a name of the reference.
LEMMA VerifiedIsInReference ==
  ASSUME NEW src, NEW id \in DOMAIN Locations(src), Locations(src)[id].ok
  PROVE  Locations(src)[id].name \in src.reference
  <1> DEFINE added == src.reference \ {NameOf[d] : d \in Located(src)}
             ids == {OrganizerId(d) : d \in Located(src)}
                    \cup {ReferenceId(n) : n \in added}
  <1>1. id \in ids
    BY DEF Locations
  <1>2. Locations(src)[id] =
          IF id[1] = "ORG"
          THEN [name |-> NameOf[id[2]], ok |-> NameOf[id[2]] \in src.reference]
          ELSE [name |-> id[2], ok |-> TRUE]
    BY <1>1 DEF Locations
  <1>3. CASE id[1] = "ORG"
    <2> DEFINE known == NameOf[id[2]] \in src.reference
    <2>1. Locations(src)[id] = [name |-> NameOf[id[2]], ok |-> known]
      BY <1>2, <1>3, Zenon
    <2> HIDE DEF known
    <2>2. Locations(src)[id].ok = known /\ Locations(src)[id].name = NameOf[id[2]]
      BY <2>1
    <2>3. known
      BY <2>2, Zenon
    <2> QED BY <2>2, <2>3 DEF known
  <1>4. CASE id[1] # "ORG"
    <2>1. \A d \in Located(src) : OrganizerId(d)[1] = "ORG"
      BY DEF OrganizerId
    <2>2. PICK n \in added : id = ReferenceId(n)
      BY <1>1, <1>4, <2>1
    <2> QED
      BY <1>2, <1>4, <2>2 DEF ReferenceId
  <1> QED BY <1>3, <1>4

LEMMA LoadShows ==
  ASSUME NEW d, NEW src
  PROVE  LET new == Stage(7, d, src) IN
         /\ \A s \in DOMAIN Services(src) : new.service[s] = Services(src)[s]
         /\ \A id \in DOMAIN Locations(src) :
               /\ new.location[id] = Locations(src)[id]
               /\ id \in AgentLocations(new) => new.location[id].name \in src.reference
         /\ \A key \in DOMAIN Mappings(src) : new.mapping[key] = Mappings(src)[key]
         /\ \A key \in DOMAIN Quarantine(src) :
               new.quarantine[key] = Quarantine(src)[key]
  <1> DEFINE new == Stage(7, d, src)
  <1>1. /\ new.service = Upsert(Services(src), d.service)
        /\ new.location = Upsert(Locations(src), d.location)
        /\ new.mapping = Upsert(Mappings(src), d.mapping)
        /\ new.quarantine = Upsert(Quarantine(src), d.quarantine)
    BY DEF Stage
  <1>2. ASSUME NEW id \in DOMAIN Locations(src)
        PROVE  new.location[id] = Locations(src)[id]
    BY <1>1, UpsertHas
  <1>3. ASSUME NEW id \in DOMAIN Locations(src), id \in AgentLocations(new)
        PROVE  new.location[id].name \in src.reference
    <2>1. Locations(src)[id].ok
      BY <1>2, <1>3 DEF AgentLocations
    <2> QED BY <1>2, <2>1, VerifiedIsInReference
  <1>4. \A s \in DOMAIN Services(src) : new.service[s] = Services(src)[s]
    BY <1>1, UpsertHas
  <1>5. \A key \in DOMAIN Mappings(src) : new.mapping[key] = Mappings(src)[key]
    BY <1>1, UpsertHas
  <1>6. \A key \in DOMAIN Quarantine(src) : new.quarantine[key] = Quarantine(src)[key]
    BY <1>1, UpsertHas
  <1> HIDE DEF new
  <1>7. \A id \in DOMAIN Locations(src) :
           /\ new.location[id] = Locations(src)[id]
           /\ id \in AgentLocations(new) => new.location[id].name \in src.reference
    BY <1>2, <1>3
  <1>8. /\ \A s \in DOMAIN Services(src) : new.service[s] = Services(src)[s]
        /\ \A id \in DOMAIN Locations(src) :
              /\ new.location[id] = Locations(src)[id]
              /\ id \in AgentLocations(new) => new.location[id].name \in src.reference
        /\ \A key \in DOMAIN Mappings(src) : new.mapping[key] = Mappings(src)[key]
        /\ \A key \in DOMAIN Quarantine(src) :
              new.quarantine[key] = Quarantine(src)[key]
    BY <1>4, <1>5, <1>6, <1>7
  <1> QED BY <1>8 DEF new

-----------------------------------------------------------------------------
(***************************************************************************)
(* The invariant.                                                          *)
(***************************************************************************)
LEMMA LenOutputs == Len(Outputs) = 9 /\ DOMAIN Outputs = 1..9
  BY DEF Outputs

LEMMA LenTables == Len(Tables) = 7
  BY DEF Tables

LEMMA FilesRead ==
  ASSUME NEW t \in {Tables[n] : n \in DOMAIN Tables}
  PROVE  FileOf[t] \in OutputFile
  BY DEF FileOf, OutputFile, Outputs, Tables

LEMMA InitIInv == Init => IInv
  <1> SUFFICES ASSUME Init PROVE IInv
    OBVIOUS
  <1>1. Shaped(db) /\ NamesAreUnique(db)
    BY DEF Init, EmptyDatabase, EmptyTable, Shaped, NamesAreUnique
  <1>2. RunInv
    BY DEF Init, RunInv, OutputFile
  <1> QED
    BY <1>1, <1>2 DEF Init, IInv, LoadInv, GateShowsTheLastLoad

\* Actions outside a load leave the database and what the agent sees.
LEMMA SameDatabase ==
  ASSUME IInv, UNCHANGED <<db, loaded>>
  PROVE  Shaped(db)' /\ NamesAreUnique(db)' /\ GateShowsTheLastLoad'
  BY DEF IInv, Shaped, NamesAreUnique, GateShowsTheLastLoad, AgentLocations

LEMMA StartRunIInv ==
  ASSUME IInv, NEW src \in Sources, StartRun(src) PROVE IInv'
  <1>1. UNCHANGED <<db, loaded>>
    BY DEF StartRun
  <1>2. RunInv'
    BY DEF IInv, RunInv, StartRun, Enter, OutputFile
  <1>3. LoadInv'
    BY DEF StartRun, Enter, LoadInv
  <1> QED BY <1>1, <1>2, <1>3, SameDatabase DEF IInv

LEMMA WriteFileIInv ==
  ASSUME IInv, WriteFile PROVE IInv'
  <1>1. UNCHANGED <<db, loaded>>
    BY DEF WriteFile
  <1>2. RunInv'
    <2>1. DOMAIN files' = OutputFile
      BY DEF IInv, RunInv, WriteFile, OutputFile
    <2>2. ASSUME NEW n \in 1..done' PROVE files'[Outputs[n]] = gen'
      <3>1. n \in DOMAIN Outputs /\ Outputs[n] \in OutputFile
        BY <2>2, LenOutputs DEF IInv, RunInv, WriteFile, OutputFile
      <3>2. CASE n = done + 1
        BY <3>1, <3>2 DEF IInv, RunInv, WriteFile
      <3>3. CASE n \in 1..done
        BY <3>1, <3>3 DEF IInv, RunInv, WriteFile
      <3> QED BY <3>2, <3>3 DEF IInv, RunInv, WriteFile
    <2> QED BY <2>1, <2>2 DEF IInv, RunInv, WriteFile, OutputFile
  <1>3. LoadInv'
    BY DEF WriteFile, LoadInv
  <1> QED BY <1>1, <1>2, <1>3, SameDatabase DEF IInv

\* A load that begins sees the database as it is.
LEMMA BeginLoad ==
  ASSUME IInv, pc' = "load", done' = 0, tx' = db, UNCHANGED db
  PROVE  LoadInv'
  <1>1. tx' = Stage(0, db, gen')
    BY StageFirst DEF IInv
  <1> QED BY <1>1 DEF LoadInv

LEMMA AfterWritingIInv ==
  ASSUME IInv, AfterWriting PROVE IInv'
  <1>1. UNCHANGED <<db, loaded>>
    BY DEF AfterWriting
  <1>2. \A f \in OutputFile : files[f] = gen
    BY LenOutputs DEF IInv, RunInv, AfterWriting, OutputFile
  <1>3. CASE Stop
    BY <1>1, <1>3, SameDatabase DEF IInv, RunInv, LoadInv, AfterWriting, Stop, OutputFile
  <1>4. CASE Enter("migrate") /\ UNCHANGED <<gen, tx>>
    BY <1>1, <1>2, <1>4, SameDatabase
       DEF IInv, RunInv, LoadInv, AfterWriting, Enter, OutputFile
  <1>5. CASE Enter("load") /\ tx' = db /\ UNCHANGED gen
    <2>1. LoadInv'
      BY <1>1, <1>5, BeginLoad DEF Enter
    <2>2. RunInv'
      BY <1>2, <1>5 DEF IInv, RunInv, AfterWriting, Enter, OutputFile
    <2> QED BY <1>1, <2>1, <2>2, SameDatabase DEF IInv
  <1> QED BY <1>3, <1>4, <1>5 DEF AfterWriting

LEMMA MigrateIInv ==
  ASSUME IInv, Migrate PROVE IInv'
  <1>1. UNCHANGED <<db, loaded>>
    BY DEF Migrate
  <1>2. CASE done < Migrations
    BY <1>1, <1>2, SameDatabase DEF IInv, RunInv, LoadInv, Migrate, OutputFile
  <1>3. CASE ~(done < Migrations)
    <2>1. LoadInv'
      BY <1>1, <1>3, BeginLoad DEF Migrate, Enter
    <2>2. RunInv'
      BY <1>3 DEF IInv, RunInv, Migrate, Enter, OutputFile
    <2> QED BY <1>1, <2>1, <2>2, SameDatabase DEF IInv
  <1> QED BY <1>2, <1>3

\* The rows of a table come from the dataset of the run, whatever the file.
LEMMA TableStage ==
  ASSUME IInv, Loading, done < 7, Allowed(Tables[done + 1], Written(Tables[done + 1], tx))
  PROVE  /\ Written(Tables[done + 1], tx) = Stage(done + 1, db, gen)
         /\ done = 1 => ServicesHaveVendors(Written("service", tx))
         /\ done = 2 => NamesAreUnique(Written("location", tx))
         /\ done = 4 => FormHasItsService(Written("form", tx))
         /\ done = 6 => AreasAreLocations(Written("demo", tx))
  <1>1. done \in 0..6 /\ tx = Stage(done, db, gen)
    BY DEF IInv, RunInv, LoadInv, Loading
  <1>2. \A t \in {Tables[n] : n \in DOMAIN Tables} : files[FileOf[t]] = gen
    BY FilesRead DEF IInv, RunInv, Loading
  <1>3. /\ Written("vendor", tx) = WriteVendors(tx, gen)
        /\ Written("service", tx) = WriteServices(tx, gen)
        /\ Written("location", tx) = WriteLocations(tx, gen)
        /\ Written("mapping", tx) = WriteMappings(tx, gen)
        /\ Written("form", tx) = WriteForm(tx, gen)
        /\ Written("quarantine", tx) = WriteQuarantine(tx, gen)
        /\ Written("demo", tx) = WriteDemo(tx, gen)
    BY <1>2 DEF Written, Tables
  <1>4. /\ Tables[1] = "vendor" /\ Tables[2] = "service" /\ Tables[3] = "location"
        /\ Tables[4] = "mapping" /\ Tables[5] = "form"
        /\ Tables[6] = "quarantine" /\ Tables[7] = "demo"
    BY DEF Tables
  <1>5. CASE done = 0
    BY <1>1, <1>3, <1>4, <1>5, Stages
  <1>6. CASE done = 1
    BY <1>1, <1>3, <1>4, <1>6, Stages DEF Allowed
  <1>7. CASE done = 2
    BY <1>1, <1>3, <1>4, <1>7, Stages DEF Allowed
  <1>8. CASE done = 3
    BY <1>1, <1>3, <1>4, <1>8, Stages
  <1>9. CASE done = 4
    BY <1>1, <1>3, <1>4, <1>9, Stages DEF Allowed
  <1>10. CASE done = 5
    BY <1>1, <1>3, <1>4, <1>10, Stages
  <1>11. CASE done = 6
    BY <1>1, <1>3, <1>4, <1>11, Stages DEF Allowed
  <1> QED BY <1>1, <1>5, <1>6, <1>7, <1>8, <1>9, <1>10, <1>11

LEMMA LoadTableIInv ==
  ASSUME IInv, LoadTable PROVE IInv'
  <1>1. UNCHANGED <<db, loaded>>
    BY DEF LoadTable
  <1>2. Loading /\ done \in 0..6 /\ tx' = Written(Tables[done + 1], tx)
    BY LenTables DEF IInv, RunInv, LoadTable, Loading
  <1>3. /\ tx' = Stage(done + 1, db, gen)
        /\ done = 1 => ServicesHaveVendors(Written("service", tx))
        /\ done = 2 => NamesAreUnique(Written("location", tx))
        /\ done = 4 => FormHasItsService(Written("form", tx))
        /\ done = 6 => AreasAreLocations(Written("demo", tx))
    BY <1>2, TableStage DEF LoadTable
  <1>4. /\ Tables[2] = "service" /\ Tables[3] = "location"
        /\ Tables[5] = "form" /\ Tables[7] = "demo"
    BY DEF Tables
  <1>5. done' = done + 1 /\ UNCHANGED <<pc, gen, files>>
    BY DEF LoadTable
  <1>6. tx = Stage(done, db, gen)
    BY <1>2 DEF IInv, LoadInv, Loading
  <1>7. done + 1 >= 2 => ServicesHaveVendors(tx)'
    <2>1. CASE done = 1
      <3>1. Tables[done + 1] = "service"
        BY <1>4, <2>1
      <3>2. tx' = Written("service", tx) /\ ServicesHaveVendors(Written("service", tx))
        BY <1>2, <1>3, <2>1, <3>1
      <3> QED BY <3>2 DEF ServicesHaveVendors
    <2>2. CASE done >= 2
      <3>1. ServicesHaveVendors(Stage(done, db, gen))
        BY <1>2, <1>6, <2>2 DEF IInv, LoadInv, Loading
      <3>2. ServicesHaveVendors(Stage(done + 1, db, gen))
        BY <1>2, <2>2, <3>1, StagesKeep
      <3> QED BY <1>3, <3>2 DEF ServicesHaveVendors
    <2> QED BY <1>2, <2>1, <2>2
  <1>8. done + 1 >= 3 => NamesAreUnique(tx)'
    <2>1. CASE done = 2
      <3>1. Tables[done + 1] = "location"
        BY <1>4, <2>1
      <3>2. tx' = Written("location", tx) /\ NamesAreUnique(Written("location", tx))
        BY <1>2, <1>3, <2>1, <3>1
      <3> QED BY <3>2 DEF NamesAreUnique
    <2>2. CASE done >= 3
      <3>1. NamesAreUnique(Stage(done, db, gen))
        BY <1>2, <1>6, <2>2 DEF IInv, LoadInv, Loading
      <3>2. NamesAreUnique(Stage(done + 1, db, gen))
        BY <1>2, <2>2, <3>1, StagesKeep
      <3> QED BY <1>3, <3>2 DEF NamesAreUnique
    <2> QED BY <1>2, <2>1, <2>2
  <1>9. done + 1 >= 5 => FormHasItsService(tx)'
    <2>1. CASE done = 4
      <3>1. Tables[done + 1] = "form"
        BY <1>4, <2>1
      <3>2. tx' = Written("form", tx) /\ FormHasItsService(Written("form", tx))
        BY <1>2, <1>3, <2>1, <3>1
      <3> QED BY <3>2 DEF FormHasItsService
    <2>2. CASE done >= 5
      <3>1. FormHasItsService(Stage(done, db, gen))
        BY <1>2, <1>6, <2>2 DEF IInv, LoadInv, Loading
      <3>2. FormHasItsService(Stage(done + 1, db, gen))
        BY <1>2, <2>2, <3>1, StagesKeep
      <3> QED BY <1>3, <3>2 DEF FormHasItsService
    <2> QED BY <1>2, <2>1, <2>2
  <1>10. done + 1 >= 7 => AreasAreLocations(tx)'
    <2> SUFFICES ASSUME done = 6 PROVE AreasAreLocations(tx)'
      BY <1>2
    <2>1. Tables[done + 1] = "demo"
      BY <1>4
    <2>2. tx' = Written("demo", tx) /\ AreasAreLocations(Written("demo", tx))
      BY <1>2, <1>3, <2>1
    <2> QED BY <2>2 DEF AreasAreLocations
  <1>11. LoadInv'
    BY <1>1, <1>2, <1>3, <1>5, <1>7, <1>8, <1>9, <1>10 DEF LoadInv
  <1>12. RunInv'
    BY <1>2, <1>5 DEF IInv, RunInv, Loading, OutputFile
  <1> QED BY <1>1, <1>11, <1>12, SameDatabase DEF IInv

\* What a commit makes of the database.
LEMMA CommitLoads ==
  ASSUME IInv, Commit
  PROVE  /\ db' = Stage(7, db, gen) /\ db' = Loaded(db, gen)
         /\ Integrity(db') /\ loaded' = gen
         /\ gen \in Sources /\ RulesPass(gen)
  <1>1. pc = "load" /\ done = 7 /\ db' = tx /\ loaded' = gen
    BY LenTables DEF Commit, Loading
  <1>2. tx = Stage(7, db, gen) /\ Integrity(tx)
    BY <1>1 DEF IInv, LoadInv, Integrity
  <1> QED BY <1>1, <1>2, StageLast DEF IInv, RunInv

LEMMA CommitIInv ==
  ASSUME IInv, Commit PROVE IInv'
  <1>1. Shaped(db)'
    <2>1. Shaped(Stage(7, db, gen))
      BY StageShaped
    <2> QED BY <2>1, CommitLoads DEF Shaped
  <1>2. NamesAreUnique(db)'
    BY CommitLoads DEF Integrity, NamesAreUnique
  <1>3. GateShowsTheLastLoad'
    BY CommitLoads, LoadShows DEF GateShowsTheLastLoad, AgentLocations
  <1>4. RunInv' /\ LoadInv'
    BY DEF IInv, RunInv, LoadInv, Commit, Stop, OutputFile
  <1> QED BY <1>1, <1>2, <1>3, <1>4 DEF IInv

LEMMA StopIInv ==
  ASSUME IInv, Stop, UNCHANGED <<files, db, loaded>> PROVE IInv'
  BY SameDatabase DEF IInv, RunInv, LoadInv, Stop, OutputFile

LEMMA NextIInv == IInv /\ [Next]_vars => IInv'
  <1> SUFFICES ASSUME IInv, [Next]_vars PROVE IInv'
    OBVIOUS
  <1>1. CASE \E src \in Sources : StartRun(src)
    BY <1>1, StartRunIInv
  <1>2. CASE WriteFile
    BY <1>2, WriteFileIInv
  <1>3. CASE AfterWriting
    BY <1>3, AfterWritingIInv
  <1>4. CASE Migrate
    BY <1>4, MigrateIInv
  <1>5. CASE LoadTable
    BY <1>5, LoadTableIInv
  <1>6. CASE Commit
    BY <1>6, CommitIInv
  <1>7. CASE LoadFails
    BY <1>7, StopIInv DEF LoadFails, RolledBack
  <1>8. CASE Crash
    BY <1>8, StopIInv DEF Crash
  <1>9. CASE UNCHANGED vars
    <2>1. RunInv' /\ LoadInv'
      BY <1>9 DEF IInv, RunInv, LoadInv, OutputFile, vars, process
    <2> QED BY <1>9, <2>1, SameDatabase DEF IInv, vars
  <1> QED
    BY <1>1, <1>2, <1>3, <1>4, <1>5, <1>6, <1>7, <1>8, <1>9 DEF Next

LEMMA Invariant == Spec => []IInv
  BY InitIInv, NextIInv, PTL DEF Spec

-----------------------------------------------------------------------------
(***************************************************************************)
(* DataGate reads the same rules.                                          *)
(***************************************************************************)
LEMMA SameRules ==
  ASSUME NEW d, NEW src
  PROVE  /\ Gate!EmptyDatabase = EmptyDatabase
         /\ Gate!RulesPass(src) <=> RulesPass(src)
         /\ Gate!Integrity(d) <=> Integrity(d)
         /\ Gate!Loaded(d, src) = Loaded(d, src)
  <1>1. Gate!EmptyDatabase = EmptyDatabase
    BY DEF Gate!EmptyDatabase, EmptyDatabase, Gate!EmptyTable, EmptyTable
  <1>2. Gate!Locations(src) = Locations(src)
    BY Zenon DEF Gate!Locations, Locations, Gate!Located, Located, Gate!OrganizerId,
           OrganizerId, Gate!ReferenceId, ReferenceId
  <1>3. \A n : Gate!Named(src, n) = Named(src, n)
    BY <1>2, Zenon DEF Gate!Named, Named
  <1>4. Gate!RulesPass(src) <=> RulesPass(src)
    BY <1>3, Zenon DEF Gate!RulesPass, RulesPass
  <1>5. Gate!Areas(src) = Areas(src)
    <2>1. \A ids : Gate!OneOf(ids) = OneOf(ids)
      BY Zenon DEF Gate!OneOf, OneOf
    <2> QED BY <1>3, <2>1, Zenon DEF Gate!Areas, Areas
  <1>6. Gate!Integrity(d) <=> Integrity(d)
    BY Zenon DEF Gate!Integrity, Integrity, Gate!ServicesHaveVendors, ServicesHaveVendors,
           Gate!NamesAreUnique, NamesAreUnique, Gate!FormHasItsService,
           FormHasItsService, Gate!AreasAreLocations, AreasAreLocations
  <1>7. \A rows, table : Gate!Upsert(rows, table) = Upsert(rows, table)
    BY Zenon DEF Gate!Upsert, Upsert
  <1>8. /\ Gate!Services(src) = Services(src)
        /\ Gate!Mappings(src) = Mappings(src)
        /\ Gate!Quarantine(src) = Quarantine(src)
    BY Zenon DEF Gate!Services, Services, Gate!Mappings, Mappings, Gate!Quarantine,
           Quarantine, Gate!OrderErrors, OrderErrors, Gate!Ordered, Ordered,
           Gate!OrderedFrom, OrderedFrom
  <1>9. Gate!Loaded(d, src) = Loaded(d, src)
    BY <1>2, <1>5, <1>7, <1>8, Zenon
       DEF Gate!Loaded, Loaded, Gate!WriteVendors, WriteVendors, Gate!WriteServices,
           WriteServices, Gate!WriteLocations, WriteLocations, Gate!WriteMappings,
           WriteMappings, Gate!WriteForm, WriteForm, Gate!Forms, Forms,
           Gate!WriteQuarantine, WriteQuarantine, Gate!WriteDemo, WriteDemo
  <1> QED BY <1>1, <1>4, <1>6, <1>9

-----------------------------------------------------------------------------
(***************************************************************************)
(* The theorems.                                                           *)
(***************************************************************************)
\* What the last load's rules decided about a row is what the database holds,
\* after any number of loads of any datasets, killed and refused ones included.
THEOREM GateShows == Spec => []GateShowsTheLastLoad
  <1>1. IInv => GateShowsTheLastLoad
    BY DEF IInv
  <1> QED BY <1>1, Invariant, PTL

\* Every slot of the agent has a location that its own name resolves to.
THEOREM SlotsAlwaysResolve == Spec => []SlotsResolve
  <1>1. IInv => SlotsResolve
    BY DEF IInv, SlotsResolve, AgentSlots, AgentLocations, Resolvable, NamesAreUnique
  <1> QED BY <1>1, Invariant, PTL

\* The import implements its promise: the database changes only by whole loads,
\* each of one dataset that passes the rules and fits the rows already there.
THEOREM ImportImplementsGate == Spec => GateSpec
  <1>1. Init => Gate!Init
    BY SameRules DEF Init, Gate!Init
  <1>2. IInv /\ [Next]_vars => [Gate!Next]_db
    <2> SUFFICES ASSUME IInv, [Next]_vars PROVE Gate!Next \/ UNCHANGED db
      BY Zenon
    <2>1. CASE Commit
      <3>1. /\ gen \in Sources /\ RulesPass(gen)
            /\ db' = Loaded(db, gen) /\ Integrity(Loaded(db, gen))
        BY <2>1, CommitLoads, Zenon
      <3>2. db' # db => Gate!Load(gen)
        BY <3>1, SameRules, Zenon DEF Gate!Load
      <3> QED BY <3>1, <3>2 DEF Gate!Next
    <2>2. CASE ~Commit
      BY <2>2 DEF Next, vars, StartRun, WriteFile, AfterWriting, Migrate,
                  LoadTable, LoadFails, RolledBack, Crash
    <2> QED BY <2>1, <2>2
  <1> QED BY <1>1, <1>2, Invariant, PTL DEF Spec, GateSpec, Gate!Spec

-----------------------------------------------------------------------------
(***************************************************************************)
(* The types.  Everything the rules derive from a dataset is about its own *)
(* identifiers; the area of a demo row is a location because the run       *)
(* stopped unless the rules found one of that name.                        *)
(***************************************************************************)
ServiceTable == PartialFunctions(Service, [vendor : Vendor, ok : BOOLEAN])
LocationTable == PartialFunctions(LocationId, [name : Name, ok : BOOLEAN])
MappingKey == ({"service"} \X Service) \cup ({"vendor"} \X Vendor)
QuarantineKey == ({"feedback"} \X Service) \cup ({"order"} \X Order)
Code == {"ORPHAN_ORDER_SERVICE", "ORPHAN_ORDER_VENDOR", "ORDER_ERROR",
         "ORPHAN_FEEDBACK_SERVICE", "UNUSABLE_TEST_CONSULTATION_SNAPSHOT"}

LEMMA PartialMade ==
  ASSUME NEW S, NEW T, NEW D \in SUBSET S, NEW f \in [D -> T]
  PROVE  f \in PartialFunctions(S, T)
  BY DEF PartialFunctions

LEMMA Partial ==
  ASSUME NEW S, NEW T, NEW f
  PROVE  f \in PartialFunctions(S, T) <=>
         /\ DOMAIN f \subseteq S /\ f = [x \in DOMAIN f |-> f[x]]
         /\ \A x \in DOMAIN f : f[x] \in T
  <1>1. ASSUME f \in PartialFunctions(S, T)
        PROVE  /\ DOMAIN f \subseteq S /\ f = [x \in DOMAIN f |-> f[x]]
               /\ \A x \in DOMAIN f : f[x] \in T
    <2>1. PICK D \in SUBSET S : f \in [D -> T]
      BY <1>1 DEF PartialFunctions
    <2> QED BY <2>1
  <1>2. ASSUME DOMAIN f \subseteq S, f = [x \in DOMAIN f |-> f[x]],
               \A x \in DOMAIN f : f[x] \in T
        PROVE  f \in PartialFunctions(S, T)
    <2>1. f \in [DOMAIN f -> T]
      BY <1>2
    <2> QED BY <1>2, <2>1, PartialMade
  <1> QED BY <1>1, <1>2

LEMMA UpsertTyped ==
  ASSUME NEW S, NEW T, NEW rows \in PartialFunctions(S, T),
         NEW table \in PartialFunctions(S, T)
  PROVE  Upsert(rows, table) \in PartialFunctions(S, T)
  <1> DEFINE u == Upsert(rows, table)
  <1>1. /\ DOMAIN rows \subseteq S /\ \A x \in DOMAIN rows : rows[x] \in T
        /\ DOMAIN table \subseteq S /\ \A x \in DOMAIN table : table[x] \in T
    BY Partial
  <1>2. /\ DOMAIN u \subseteq S /\ u = [x \in DOMAIN u |-> u[x]]
        /\ \A x \in DOMAIN u : u[x] \in T
    BY <1>1 DEF Upsert
  <1> QED BY <1>2, Partial

LEMMA ServicesTyped ==
  ASSUME NEW src \in Dataset PROVE Services(src) \in ServiceTable
  <1>1. /\ DOMAIN src.vendorOf \subseteq Service
        /\ \A s \in DOMAIN src.vendorOf : src.vendorOf[s] \in Vendor
    BY Partial DEF Dataset
  <1>2. Services(src) \in [DOMAIN src.vendorOf -> [vendor : Vendor, ok : BOOLEAN]]
    BY <1>1 DEF Services
  <1> QED BY <1>1, <1>2, PartialMade DEF ServiceTable

LEMMA LocationsTyped ==
  ASSUME NEW src \in Dataset PROVE Locations(src) \in LocationTable
  <1> DEFINE added == src.reference \ {NameOf[d] : d \in Located(src)}
             ids == {OrganizerId(d) : d \in Located(src)}
                    \cup {ReferenceId(n) : n \in added}
             row(id) == IF id[1] = "ORG"
                        THEN [name |-> NameOf[id[2]], ok |-> NameOf[id[2]] \in src.reference]
                        ELSE [name |-> id[2], ok |-> TRUE]
  <1>1. Located(src) \subseteq District /\ added \subseteq Name
    BY DEF Dataset, Located
  <1>2. ASSUME NEW d \in District
        PROVE  row(OrganizerId(d)) \in [name : Name, ok : BOOLEAN]
    BY RulesAssumption DEF OrganizerId
  <1>3. ASSUME NEW n \in Name
        PROVE  row(ReferenceId(n)) \in [name : Name, ok : BOOLEAN]
    BY DEF ReferenceId
  <1>4. Locations(src) = [id \in ids |-> row(id)]
    BY Zenon DEF Locations
  <1> HIDE DEF added, row
  <1>5. ids \subseteq LocationId /\ \A id \in ids : row(id) \in [name : Name, ok : BOOLEAN]
    BY <1>1, <1>2, <1>3 DEF LocationId
  <1> HIDE DEF ids
  <1>6. Locations(src) \in [ids -> [name : Name, ok : BOOLEAN]]
    BY <1>4, <1>5
  <1> QED BY <1>5, <1>6, PartialMade DEF LocationTable

LEMMA OrdersTyped ==
  ASSUME NEW src \in Dataset
  PROVE  /\ DOMAIN src.orders \subseteq Order
         /\ Ordered(src) \subseteq Service /\ OrderedFrom(src) \subseteq Vendor
  <1>1. /\ DOMAIN src.orders \subseteq Order
        /\ \A o \in DOMAIN src.orders : src.orders[o] \in OrderRow
    BY Partial DEF Dataset
  <1> QED BY <1>1 DEF Ordered, OrderedFrom, OrderRow

LEMMA MappingsTyped ==
  ASSUME NEW src \in Dataset
  PROVE  Mappings(src) \in PartialFunctions(MappingKey, BOOLEAN)
  <1> DEFINE services == DOMAIN src.vendorOf \cup src.feedback \cup Ordered(src)
             vendors == src.vendors \cup OrderedFrom(src)
             keys == {<<"service", s>> : s \in services} \cup {<<"vendor", v>> : v \in vendors}
             ok(key) == key[2] \in IF key[1] = "service" THEN DOMAIN src.vendorOf
                                                          ELSE src.vendors
  <1>1. services \subseteq Service /\ vendors \subseteq Vendor
    BY OrdersTyped, Partial DEF Dataset
  <1>2. Mappings(src) = [key \in keys |-> ok(key)]
    BY Zenon DEF Mappings
  <1>3. \A key : ok(key) \in BOOLEAN
    OBVIOUS
  <1> HIDE DEF services, vendors, ok
  <1>4. keys \subseteq MappingKey
    BY <1>1 DEF MappingKey
  <1> HIDE DEF keys
  <1> QED BY <1>2, <1>3, <1>4, Partial

LEMMA QuarantineTyped ==
  ASSUME NEW src \in Dataset
  PROVE  Quarantine(src) \in PartialFunctions(QuarantineKey, SUBSET Code)
  <1> DEFINE orders == {o \in DOMAIN src.orders : OrderErrors(src, o) # {}}
             keys == {<<"feedback", s>> : s \in src.feedback}
                     \cup {<<"order", o>> : o \in orders}
             codes(key) == IF key[1] = "order" THEN OrderErrors(src, key[2])
                           ELSE {"UNUSABLE_TEST_CONSULTATION_SNAPSHOT"}
                                \cup {code \in {"ORPHAN_FEEDBACK_SERVICE"} :
                                         key[2] \notin DOMAIN src.vendorOf}
  <1>1. orders \subseteq Order /\ src.feedback \subseteq Service
    BY OrdersTyped DEF Dataset
  <1>2. Quarantine(src) = [key \in keys |-> codes(key)]
    BY Zenon DEF Quarantine
  <1>3. \A key : codes(key) \in SUBSET Code
    BY DEF OrderErrors, Code
  <1> HIDE DEF orders, codes
  <1>4. keys \subseteq QuarantineKey
    BY <1>1 DEF QuarantineKey
  <1> HIDE DEF keys
  <1> QED BY <1>2, <1>3, <1>4, Partial

LEMMA AreasTyped ==
  ASSUME NEW src \in Dataset, RulesPass(src) PROVE Areas(src) \subseteq LocationId
  <1>1. DOMAIN Locations(src) \subseteq LocationId
    BY LocationsTyped, Partial DEF LocationTable
  <1>2. ASSUME NEW n \in DemoNames PROVE OneOf(Named(src, n)) \in Named(src, n)
    BY DEF RulesPass, OneOf
  <1> QED BY <1>1, <1>2 DEF Areas, Named

LEMMA DatabaseFields ==
  DatabaseType = [vendor : SUBSET Vendor, service : ServiceTable, location : LocationTable,
                  mapping : PartialFunctions(MappingKey, BOOLEAN), form : SUBSET Forms,
                  quarantine : PartialFunctions(QuarantineKey, SUBSET Code),
                  area : SUBSET LocationId]
  BY Zenon DEF DatabaseType, ServiceTable, LocationTable, MappingKey, QuarantineKey, Code

LEMMA StageTyped ==
  ASSUME NEW d \in DatabaseType, NEW src \in Dataset, RulesPass(src), NEW n
  PROVE  Stage(n, d, src) \in DatabaseType
  <1>1. /\ d.vendor \subseteq Vendor /\ d.service \in ServiceTable
        /\ d.location \in LocationTable
        /\ d.mapping \in PartialFunctions(MappingKey, BOOLEAN)
        /\ d.form \subseteq Forms
        /\ d.quarantine \in PartialFunctions(QuarantineKey, SUBSET Code)
        /\ d.area \subseteq LocationId
    BY DatabaseFields
  <1>2. /\ src.vendors \subseteq Vendor
        /\ Upsert(Services(src), d.service) \in ServiceTable
        /\ Upsert(Locations(src), d.location) \in LocationTable
    BY <1>1, ServicesTyped, LocationsTyped, UpsertTyped
       DEF Dataset, ServiceTable, LocationTable
  <1>3. /\ Upsert(Mappings(src), d.mapping) \in PartialFunctions(MappingKey, BOOLEAN)
        /\ Upsert(Quarantine(src), d.quarantine)
             \in PartialFunctions(QuarantineKey, SUBSET Code)
        /\ Areas(src) \subseteq LocationId
    BY <1>1, MappingsTyped, QuarantineTyped, AreasTyped, UpsertTyped
  <1> QED BY <1>1, <1>2, <1>3, DatabaseFields DEF Stage

LEMMA EmptyTyped == EmptyDatabase \in DatabaseType
  <1>1. \A S, T : EmptyTable \in PartialFunctions(S, T)
    <2>1. \A T : EmptyTable \in [{} -> T]
      BY DEF EmptyTable
    <2> QED BY <2>1, PartialMade
  <1> QED BY <1>1, DatabaseFields DEF EmptyDatabase, ServiceTable, LocationTable

\* TypeOK with how far each part of a run can be.
TypeInv ==
    /\ TypeOK
    /\ pc = "idle" => done = 0
    /\ pc = "write" => done <= 9
    /\ pc = "migrate" => done <= Migrations
    /\ pc = "load" => done <= 7
LEMMA Sizes == Len(Outputs) = 9 /\ Len(Tables) = 7 /\ Migrations \in Nat \ {0}
                /\ MaxRuns \in Nat
  BY LenOutputs, LenTables, ImportAssumption

\* What a run has computed and loaded is typed with its dataset.
LEMMA Generated ==
  ASSUME IInv, pc # "idle" PROVE gen \in Sources /\ gen \in Dataset /\ RulesPass(gen)
  BY ImportAssumption DEF IInv, RunInv

LEMMA InitTypeInv == Init => TypeInv
  <1> SUFFICES ASSUME Init PROVE TypeInv
    OBVIOUS
  <1>1. files \in [OutputFile -> Sources \cup {None}]
    BY DEF Init, OutputFile
  <1> QED BY <1>1, EmptyTyped, Sizes DEF Init, TypeInv, TypeOK, OutputFile

\* What a run that stops leaves.
LEMMA StopTypeInv ==
  ASSUME TypeInv, Stop, UNCHANGED <<files, migrated, runs>>, db' \in DatabaseType,
         loaded' \in Sources \cup {None}
  PROVE  TypeInv'
  BY EmptyTyped, Sizes DEF TypeInv, TypeOK, Stop

\* What a load begins with.
LEMMA LoadTypeInv ==
  ASSUME IInv, TypeInv, pc # "idle", pc' = "load", done' = 0, tx' = db,
         \A f \in OutputFile : files[f] = gen,
         UNCHANGED <<files, db, migrated, gen, loaded, runs>>
  PROVE  TypeInv'
  BY Sizes DEF IInv, RunInv, TypeInv, TypeOK, OutputFile

LEMMA StepTypeInv ==
  ASSUME IInv, TypeInv, [Next]_vars PROVE TypeInv'
  <1>1. ASSUME NEW src \in Sources, StartRun(src) PROVE TypeInv'
    BY <1>1, Sizes DEF TypeInv, TypeOK, StartRun, Enter
  <1>2. CASE WriteFile
    <2>1. gen \in Sources /\ done \in 0..8 /\ done' = done + 1
      BY <1>2, Generated, Sizes DEF WriteFile, IInv, RunInv
    <2>2. files' \in [OutputFile -> Sources \cup {None}]
      BY <1>2, <2>1 DEF TypeInv, TypeOK, WriteFile, OutputFile
    <2> QED BY <1>2, <2>1, <2>2, Sizes DEF TypeInv, TypeOK, WriteFile, OutputFile
  <1>3. CASE AfterWriting
    <2>1. \A f \in OutputFile : files[f] = gen
      BY <1>3, LenOutputs DEF IInv, RunInv, AfterWriting, OutputFile
    <2>2. CASE Stop
      BY <1>3, <2>2, StopTypeInv DEF AfterWriting, TypeInv, TypeOK
    <2>3. CASE Enter("migrate") /\ UNCHANGED <<gen, tx>>
      BY <1>3, <2>1, <2>3, Sizes
         DEF IInv, RunInv, AfterWriting, Enter, TypeInv, TypeOK, OutputFile
    <2>4. CASE Enter("load") /\ tx' = db /\ UNCHANGED gen
      BY <1>3, <2>1, <2>4, LoadTypeInv DEF AfterWriting, Enter
    <2> QED BY <1>3, <2>2, <2>3, <2>4 DEF AfterWriting
  <1>4. CASE Migrate
    <2>1. CASE done < Migrations
      <3>1. done' \in 0..Migrations /\ migrated' \in 0..Migrations
        BY <1>4, <2>1, Sizes DEF Migrate, IInv, RunInv, TypeInv, TypeOK
      <3> QED BY <1>4, <2>1, <3>1, Sizes DEF Migrate, TypeInv, TypeOK
    <2>2. CASE ~(done < Migrations)
      BY <1>4, <2>2, LoadTypeInv DEF Migrate, Enter, IInv, RunInv
    <2> QED BY <2>1, <2>2
  <1>5. CASE LoadTable
    <2>1. Loading /\ done \in 0..6 /\ tx' = Written(Tables[done + 1], tx)
      BY <1>5, Sizes DEF IInv, RunInv, LoadTable, Loading
    <2>2. tx' = Stage(done + 1, db, gen)
      BY <1>5, <2>1, TableStage DEF LoadTable
    <2>3. tx' \in DatabaseType
      BY <2>1, <2>2, Generated, StageTyped DEF Loading, TypeInv, TypeOK
    <2> QED BY <1>5, <2>1, <2>3, Sizes DEF LoadTable, Loading, TypeInv, TypeOK
  <1>6. CASE Commit
    <2>1. loaded' \in Sources
      BY <1>6, CommitLoads
    <2>2. db' \in DatabaseType
      BY <1>6 DEF Commit, TypeInv, TypeOK
    <2> QED BY <1>6, <2>1, <2>2, StopTypeInv DEF Commit
  <1>7. CASE LoadFails
    BY <1>7, StopTypeInv DEF LoadFails, RolledBack, TypeInv, TypeOK
  <1>8. CASE Crash
    BY <1>8, StopTypeInv DEF Crash, TypeInv, TypeOK
  <1>9. CASE UNCHANGED vars
    BY <1>9 DEF vars, process, TypeInv, TypeOK
  <1> QED
    BY <1>1, <1>2, <1>3, <1>4, <1>5, <1>6, <1>7, <1>8, <1>9 DEF Next

\* The types of the output files, the database and the open transaction, and:
\* load_pipeline_outputs reads every file from the run that calls it.
THEOREM TypeCorrect == Spec => []TypeOK
  <1>1. IInv /\ TypeInv /\ [Next]_vars => TypeInv'
    BY StepTypeInv
  <1>2. TypeInv => TypeOK
    BY DEF TypeInv
  <1> QED BY <1>1, <1>2, InitTypeInv, Invariant, PTL DEF Spec
=============================================================================
