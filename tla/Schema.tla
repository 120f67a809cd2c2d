-------------------------------- MODULE Schema -------------------------------
(***************************************************************************)
(* How sqlitetestdb brings a database file up to date: every process that  *)
(* opens the file reads its version once, then applies the migrations it   *)
(* thinks are missing, each in a transaction of its own. Several processes *)
(* (the server, a command line) may open one old file together, and any of *)
(* them may die or fail between two transactions. What a build of that     *)
(* time wrote into the tables is kept as whether any of it is still there. *)
(*                                                                         *)
(* An operator named ...Bug is a plausible slip in the one it precedes,    *)
(* used only to show which property notices.                               *)
(***************************************************************************)
EXTENDS Naturals

CONSTANT Openers    \* processes that open the file

VARIABLES
    schema,     \* the file: its version and what its tables look like
    opener      \* [at, next] per process: where it stands, the migration it is about to apply

schemaVars == <<schema, opener>>

Tables == {"tests", "items", "sessions"}

Migrations == 6     \* the number of entries of schemaMigrations

(* The layout of a file at a version. "document" is the JSON table; the    *)
(* scaffold one it replaced is kept aside as ..._v1_legacy.                *)
Layout(v, t) ==
    LET since == [items |-> 2, tests |-> 4, sessions |-> 5]
    IN  IF v = 0 THEN "none" ELSE IF v < since[t] THEN "scaffold" ELSE "document"

(* tables: their layout. columns: the generated query columns of items.    *)
(* scaffoldRows: tables whose scaffold rows are still in the file, in      *)
(* place or set aside. unversioned: a session document without a Version.  *)
FileAt(v, rows, unversioned) ==
    [version |-> v, tables |-> [t \in Tables |-> Layout(v, t)], columns |-> v >= 3,
     scaffoldRows |-> rows, unversioned |-> unversioned]

(* A fresh file, one left by the build of any earlier migration, or one by *)
(* a newer build. Only builds of Block 8 wrote sessions without a version. *)
SchemaInit ==
    /\ opener = [o \in Openers |-> [at |-> "closed", next |-> 0]]
    /\ \/ schema = FileAt(0, {}, FALSE)
       \/ \E v \in 1..Migrations : schema = FileAt(v, Tables, v = 5)
       \/ schema = [FileAt(Migrations, {}, FALSE) EXCEPT !.version = Migrations + 1]

-----------------------------------------------------------------------------
(* Rename the scaffold table and create the document one in its place; the *)
(* rename fails when the legacy name is taken.                             *)
QuarantineBug(t) == [schema EXCEPT !.tables[t] = "document", !.scaffoldRows = @ \ {t}]

Quarantine(t) == [schema EXCEPT !.tables[t] = "document"]

(* The scaffold tables can be created once, the columns added once, a table *)
(* set aside once; only the back-fill can be applied again.                 *)
Applies(n) ==
    CASE n = 1 -> \A t \in Tables : schema.tables[t] = "none"
      [] n = 2 -> schema.tables["items"] = "scaffold"
      [] n = 3 -> schema.tables["items"] = "document" /\ ~schema.columns
      [] n = 4 -> schema.tables["tests"] = "scaffold"
      [] n = 5 -> schema.tables["sessions"] = "scaffold"
      [] n = 6 -> schema.tables["sessions"] = "document"

Applied(n) ==
    CASE n = 1 -> [schema EXCEPT !.tables = [t \in Tables |-> "scaffold"]]
      [] n = 2 -> Quarantine("items")
      [] n = 3 -> [schema EXCEPT !.columns = TRUE]
      [] n = 4 -> Quarantine("tests")
      [] n = 5 -> Quarantine("sessions")
      [] n = 6 -> [schema EXCEPT !.unversioned = FALSE]

-----------------------------------------------------------------------------
(* A version from the future is taken for an up-to-date one. *)
ReadVersionBug(o) ==
    /\ opener[o].at = "closed"
    /\ opener' = [opener EXCEPT ![o] = [at |-> "migrating", next |-> schema.version + 1]]
    /\ UNCHANGED schema

(* The version is read outside every transaction, and once. A version this *)
(* build does not know is refused.                                         *)
ReadVersion(o) ==
    /\ opener[o].at = "closed"
    /\ opener' = [opener EXCEPT ![o] =
            IF schema.version > Migrations THEN [at |-> "refused", next |-> 0]
            ELSE [at |-> "migrating", next |-> schema.version + 1]]
    /\ UNCHANGED schema

(* The next migration and the version bump, in one transaction. *)
Migrate(o) ==
    LET n == opener[o].next
    IN  /\ opener[o].at = "migrating" /\ n <= Migrations
        /\ Applies(n)
        /\ schema' = [Applied(n) EXCEPT !.version = n]
        /\ opener' = [opener EXCEPT ![o].next = n + 1]

(* A statement fails, because another opener was faster or the disk is     *)
(* full: the transaction rolls back and openDB closes the database.        *)
MigrateFails(o) ==
    /\ opener[o].at = "migrating" /\ opener[o].next <= Migrations
    /\ opener' = [opener EXCEPT ![o] = [at |-> "failed", next |-> 0]]
    /\ UNCHANGED schema

Opened(o) ==
    /\ opener[o].at = "migrating" /\ opener[o].next > Migrations
    /\ opener' = [opener EXCEPT ![o] = [at |-> "open", next |-> 0]]
    /\ UNCHANGED schema

(* The process dies or gives up, and is started again. *)
Reopen(o) ==
    /\ opener[o].at # "closed"
    /\ opener' = [opener EXCEPT ![o] = [at |-> "closed", next |-> 0]]
    /\ UNCHANGED schema

SchemaNext ==
    \E o \in Openers : ReadVersion(o) \/ Migrate(o) \/ MigrateFails(o) \/ Opened(o) \/ Reopen(o)

SchemaSpec == SchemaInit /\ [][SchemaNext]_schemaVars

-----------------------------------------------------------------------------
(* Whoever races or dies in the middle of migrating, a process that got    *)
(* the file open finds the schema it was built for: the three document     *)
(* tables, the query columns, and every session writable (a document       *)
(* without a Version never passes the compare-and-swap of SaveSession).    *)
OpenIsUpToDate ==
    \A o \in Openers : opener[o].at = "open" =>
        /\ schema.version = Migrations
        /\ \A t \in Tables : schema.tables[t] = "document"
        /\ schema.columns /\ ~schema.unversioned

(* A migration never loses rows of an earlier build ("any rows are         *)
(* preserved for manual recovery") nor takes the file back to a version    *)
(* whose migrations would then be applied twice.                           *)
MigrationsKeepData ==
    [][ schema'.scaffoldRows = schema.scaffoldRows /\ schema'.version >= schema.version ]_schema
=============================================================================
