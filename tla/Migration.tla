----------------------------- MODULE Migration ------------------------------
(***************************************************************************)
(* The data migration scripts/migrate-mongo-to-pg.ts: every legacy         *)
(* collection is read and its documents get new ids, then every document   *)
(* becomes a row with its references rewritten, then one transaction       *)
(* empties the tables and loads the rows.  It may fail at any await, and   *)
(* is run again by hand.                                                   *)
(*                                                                         *)
(* A collection has at most one document here, which stands for all of its *)
(* kind; a reference field is named by the collection it points to.  The   *)
(* legacy database does not change while it is read.                       *)
(*                                                                         *)
(* Left out: the columns that are copied as they are, the environment, the *)
(* log, and the table of stock adjustments, which is not touched.          *)
(***************************************************************************)
EXTENDS Integers, Sequences

CONSTANTS
    Populated,  \* the collections that may have a document
    MaxRuns     \* bound: how often the script is run

\* LOAD_ORDER.
LoadOrder == <<"businesses", "users", "customers", "resources", "orders", "invoices",
               "appointments", "email_changes", "admins", "verification_codes", "mails">>

Collections == {LoadOrder[i] : i \in 1 .. Len(LoadOrder)}

ASSUME MigrationAssumption ==
    /\ Populated \subseteq Collections
    /\ MaxRuns \in Nat

VARIABLES
    legacy,  \* the legacy database: "absent", "bad" (a column of its own breaks a
             \* constraint) or "good", and where the references point
    run,     \* the number of the current or last run
    job,     \* the script: where it is, in which collection, and how it was called
    docs,    \* collections read so far
    idMap,   \* documents that have an id
    rows,    \* the rows to load
    staged,  \* the tables as the transaction sees them
    tables   \* the tables

migrationVars == <<legacy, run, job, docs, idMap, rows, staged, tables>>

-----------------------------------------------------------------------------
(* The reference fields of the transformers: the collection, and whether    *)
(* the column is required or may be null.                                   *)

Field(coll, kind) == [to |-> coll, kind |-> kind]

BusinessFields == {Field("users", "required")}
UserFields == {Field("businesses", "nullable")}
CustomerFields == {Field("businesses", "required")}
ResourceFields == {Field("businesses", "required")}

\* resourceId of the items is inside a JSON column: it is not looked at.
OrderFields == {Field("businesses", "required"), Field("customers", "required"),
                Field("resources", "embedded"), Field("invoices", "nullable")}

InvoiceFields == {Field("businesses", "required"), Field("orders", "embedded"),
                  Field("customers", "nullable")}

AppointmentFields == {Field("businesses", "required"), Field("users", "required"),
                      Field("customers", "nullable")}

EmailChangeFields == {Field("users", "required")}

Fields(coll) ==
    CASE coll = "businesses"    -> BusinessFields
      [] coll = "users"         -> UserFields
      [] coll = "customers"     -> CustomerFields
      [] coll = "resources"     -> ResourceFields
      [] coll = "orders"        -> OrderFields
      [] coll = "invoices"      -> InvoiceFields
      [] coll = "appointments"  -> AppointmentFields
      [] coll = "email_changes" -> EmailChangeFields
      [] OTHER                  -> {}

-----------------------------------------------------------------------------
NewId(k, coll) == [run |-> k, of |-> coll]
Null == [run |-> 0, of |-> "null"]
OldHex == [run |-> 0, of |-> "hex"]

\* remap: empty stays null; a document that was read gives its new id; a
\* reference to none is dropped where it may be, and kept as it was elsewhere.
Remap(field, target) ==
    CASE target = "empty" -> Null
      [] target = "set" /\ field.to \in idMap -> NewId(run, field.to)
      [] OTHER -> IF field.kind = "nullable" THEN Null ELSE OldHex

\* The row of the document of coll: its id and its references.
Transformed(coll) ==
    [id |-> NewId(run, coll),
     refs |-> {[field |-> f, value |-> Remap(f, legacy[coll].refs[f.to])] :
                   f \in Fields(coll)}]

\* validateRow: no constraint of its own is broken, no required reference is null.
Valid(coll, row) ==
    /\ legacy[coll].state = "good"
    /\ \A ref \in row.refs : ref.field.kind = "required" => ref.value # Null

-----------------------------------------------------------------------------
(* The script *)

NoJob == [pc |-> "idle", at |-> 1, dry |-> FALSE]

NoRows == [c \in Collections |-> {}]

At == LoadOrder[job.at]

\* The script goes on with the next collection, or with pc after the last one.
NextCollection(pc) ==
    job' = IF job.at < Len(LoadOrder) THEN [job EXCEPT !.at = @ + 1]
           ELSE [job EXCEPT !.at = 1, !.pc = pc]

StartMigration(dry) ==
    /\ job.pc = "idle"
    /\ run < MaxRuns
    /\ run' = run + 1
    /\ job' = [NoJob EXCEPT !.pc = "read", !.dry = dry]
    /\ docs' = {} /\ idMap' = {} /\ rows' = NoRows /\ staged' = NoRows
    /\ UNCHANGED <<legacy, tables>>

\* Pass 1.
ReadCollection ==
    /\ job.pc = "read"
    /\ docs' = IF legacy[At].state = "absent" THEN docs ELSE docs \cup {At}
    /\ idMap' = IF legacy[At].state = "absent" THEN idMap ELSE idMap \cup {At}
    /\ NextCollection("transform")
    /\ UNCHANGED <<legacy, run, rows, staged, tables>>

\* Rows that would break a constraint are left out; their ids stay in the map.
\* A dry run ends here.
Transform ==
    /\ job.pc = "transform"
    /\ rows' = [c \in Collections |->
                   {row \in {Transformed(d) : d \in docs \cap {c}} : Valid(c, row)}]
    /\ job' = IF job.dry THEN NoJob ELSE [job EXCEPT !.pc = "truncate"]
    /\ UNCHANGED <<legacy, run, docs, idMap, staged, tables>>

\* BEGIN and TRUNCATE.
Truncate ==
    /\ job.pc = "truncate"
    /\ staged' = NoRows
    /\ job' = [job EXCEPT !.pc = "insert"]
    /\ UNCHANGED <<legacy, run, docs, idMap, rows, tables>>

\* Mutant: every insert commits itself.
InsertAtOnce ==
    /\ job.pc = "insert"
    /\ staged' = [staged EXCEPT ![At] = rows[At]]
    /\ tables' = [tables EXCEPT ![At] = rows[At]]
    /\ NextCollection("commit")
    /\ UNCHANGED <<legacy, run, docs, idMap, rows>>

InsertRows ==
    /\ job.pc = "insert"
    /\ staged' = [staged EXCEPT ![At] = rows[At]]
    /\ NextCollection("commit")
    /\ UNCHANGED <<legacy, run, docs, idMap, rows, tables>>

Commit ==
    /\ job.pc = "commit"
    /\ tables' = staged
    /\ job' = NoJob
    /\ UNCHANGED <<legacy, run, docs, idMap, rows, staged>>

\* An error rolls back, and so does a connection that is gone.
MigrationFails ==
    /\ job.pc # "idle"
    /\ job' = NoJob
    /\ UNCHANGED <<legacy, run, docs, idMap, rows, staged, tables>>

\* The script is not run again.
Finished ==
    /\ job.pc = "idle" /\ run = MaxRuns
    /\ UNCHANGED migrationVars

-----------------------------------------------------------------------------
Targets(coll) == {f.to : f \in Fields(coll)}

\* A reference that is set points to a document that is there; a field the
\* document does not have is not counted twice.
Plausible(db) ==
    \A c \in Populated, t \in Populated :
        /\ db[c].refs[t] = "set" => db[t].state # "absent"
        /\ t \notin Targets(c) \/ db[c].state = "absent" => db[c].refs[t] = "empty"

Nothing == [state |-> "absent", refs |-> [t \in Collections |-> "empty"]]

\* The legacy database holds db; references to other collections are stale.
Holds(db) ==
    legacy = [c \in Collections |->
                 IF c \in DOMAIN db
                 THEN [state |-> db[c].state,
                       refs |-> [t \in Collections |->
                                    IF t \in Populated THEN db[c].refs[t] ELSE "stale"]]
                 ELSE Nothing]

AtRest ==
    /\ run = 0
    /\ job = NoJob
    /\ docs = {} /\ idMap = {}
    /\ rows = NoRows /\ staged = NoRows /\ tables = NoRows

MigrationInit ==
    /\ \E db \in [Populated -> [state : {"absent", "bad", "good"},
                                refs : [Populated -> {"set", "stale", "empty"}]]] :
          Plausible(db) /\ Holds(db)
    /\ AtRest

MigrationNext ==
    \/ \E dry \in BOOLEAN : StartMigration(dry)
    \/ ReadCollection
    \/ Transform
    \/ Truncate
    \/ InsertRows
    \/ Commit
    \/ MigrationFails
    \/ Finished

MigrationSpec == MigrationInit /\ [][MigrationNext]_migrationVars

-----------------------------------------------------------------------------
(* Properties *)

\* Whether a row of coll gets loaded by a run.
Loadable(coll) ==
    /\ legacy[coll].state = "good"
    /\ \A f \in Fields(coll) : f.kind = "required" => legacy[coll].refs[f.to] # "empty"

\* The values the variables take.
MigrationTypeOK ==
    /\ run \in 0 .. MaxRuns
    /\ job.pc \in {"idle", "read", "transform", "truncate", "insert", "commit"}
    /\ job.at \in 1 .. Len(LoadOrder)
    /\ idMap \subseteq Collections /\ docs \subseteq Collections
    /\ DOMAIN tables = Collections /\ DOMAIN staged = Collections

\* The tables hold what they held before, or all that one single run could load
\* of every collection, whatever failed and however often it was run again: never
\* a part of it, never rows of two runs, and nothing of a dry run ("so one bad
\* legacy document can't abort the entire atomic load").
LoadIsAllOrNothing ==
    \/ tables = NoRows
    \/ \E k \in 1 .. run :
          \A c \in Collections :
              {row.id : row \in tables[c]} = IF Loadable(c) THEN {NewId(k, c)} ELSE {}

\* "preserving all relations": where a document pointed to one that was loaded,
\* its row points to the row of that one, in both directions of a cycle (a
\* business and its owner, an order and its invoice).
RelationsPreserved ==
    \A c \in Collections : \A row \in tables[c], f \in Fields(c) :
        legacy[c].refs[f.to] = "set" /\ Loadable(f.to) =>
            \E target \in tables[f.to] : [field |-> f, value |-> target.id] \in row.refs

\* What a migration leaves behind: one whole load, with its relations (main).
MigrationIsFaithful == LoadIsAllOrNothing /\ RelationsPreserved

=============================================================================
