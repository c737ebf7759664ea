------------------------------ MODULE PgSchema ------------------------------
(***************************************************************************)
(* Who brings the PostgreSQL schema up to date: migrators, each applying   *)
(* the files of its directory in transactions of their own, and the API,   *)
(* which at every start runs the same statements without a version table   *)
(* and falls back to verify_schema when it is refused.                     *)
(***************************************************************************)
EXTENDS Naturals, Sequences

CONSTANTS Migrators  \* runs of the migrator

VARIABLES
  schema,    \* what the database has: the table and its later changes
  migrator,
  api

schemaVars == <<schema, migrator, api>>

\* The sorted directory; a file's version is its position.
Files == <<"table", "scoped", "stamps">>

Current(s) == \A i \in DOMAIN Files : Files[i] \in s.has

\* 0001 IF NOT EXISTS, 0002 replaces the key whatever it is, 0003 IF NOT EXISTS.
Applied(s, i) == [s EXCEPT !.has = @ \cup {Files[i]}]

\* A new database, or one that a migrator and the API have finished with.
SchemaInit(new) ==
  /\ schema = IF new THEN [has |-> {}, versions |-> {}]
              ELSE [has |-> {Files[i] : i \in DOMAIN Files}, versions |-> DOMAIN Files]
  /\ migrator = [m \in Migrators |-> [state |-> IF new THEN "check" ELSE "done", at |-> 1]]
  /\ \E ddl \in BOOLEAN :
       api = [state |-> IF new THEN "down" ELSE "serving", at |-> 1, ddl |-> new /\ ddl]

-----------------------------------------------------------------------------
(* The migrator.                                                           *)

Check(m) ==
  LET at == migrator[m].at IN
  /\ migrator[m].state = "check"
  /\ migrator' = [migrator EXCEPT ![m] =
       CASE at > Len(Files) -> [state |-> "done", at |-> at]
         [] at <= Len(Files) /\ at \in schema.versions -> [state |-> "check", at |-> at + 1]
         [] OTHER -> [state |-> "apply", at |-> at]]
  /\ UNCHANGED <<schema, api>>

\* Mistake: the version is recorded before the file has run.
ApplyRecordedFirst(m) ==
  LET at == migrator[m].at IN
  /\ migrator[m].state = "apply"
  /\ at \notin schema.versions
  /\ schema' \in {[schema EXCEPT !.versions = @ \cup {at}],
                  [Applied(schema, at) EXCEPT !.versions = @ \cup {at}]}
  /\ migrator' = [migrator EXCEPT ![m] = [state |-> "check", at |-> at + 1]]
  /\ UNCHANGED api

\* The file and its version commit together; another run's version refuses it.
Apply(m) ==
  LET at == migrator[m].at IN
  /\ migrator[m].state = "apply"
  /\ at \notin schema.versions
  /\ schema' = [Applied(schema, at) EXCEPT !.versions = @ \cup {at}]
  /\ migrator' = [migrator EXCEPT ![m] = [state |-> "check", at |-> at + 1]]
  /\ UNCHANGED api

\* Any statement may fail; the run exits 1 with its transaction rolled back.
MigratorFails(m) ==
  /\ migrator[m].state \in {"check", "apply"}
  /\ migrator' = [migrator EXCEPT ![m].state = "failed"]
  /\ UNCHANGED <<schema, api>>

-----------------------------------------------------------------------------
(* The API: build_store and PostgresStore::migrate.                        *)

Start ==
  /\ api.state = "down"
  /\ api' = [api EXCEPT !.state = "migrate", !.at = 1]
  /\ UNCHANGED <<schema, migrator>>

\* migrate needs the DDL role and applies what is missing, without a version.
Migrate ==
  /\ api.state = "migrate"
  /\ api.ddl
  /\ schema' = Applied(schema, api.at)
  /\ api' = IF api.at = Len(Files) THEN [api EXCEPT !.state = "serving"]
            ELSE [api EXCEPT !.at = @ + 1]
  /\ UNCHANGED migrator

MigrateRefused ==
  /\ api.state = "migrate"
  /\ api' = [api EXCEPT !.state = "verify"]
  /\ UNCHANGED <<schema, migrator>>

\* verify_schema counts the records; without the table the process exits.
Verify ==
  /\ api.state = "verify"
  /\ api' = [api EXCEPT !.state = IF "table" \in schema.has THEN "serving" ELSE "down"]
  /\ UNCHANGED <<schema, migrator>>

SchemaNext ==
  \/ \E m \in Migrators : Check(m) \/ Apply(m) \/ MigratorFails(m)
  \/ Start \/ Migrate \/ MigrateRefused \/ Verify

(* A migrator that exits 0 has left the whole schema behind, whatever other *)
(* runs failed or raced it and whatever the API applied without a version   *)
(* (migrator main.rs: one transaction per file and version).                *)
MigratedMeansCurrent ==
  \A m \in Migrators : migrator[m].state = "done" => Current(schema)

(* An API that serves has the whole schema under it.                        *)
ServedMeansCurrent == api.state = "serving" => Current(schema)

=============================================================================
