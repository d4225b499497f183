----------------------------- MODULE Migrations -----------------------------
(***************************************************************************)
(* The migration command (cmd/migrate): up applies the files that are not  *)
(* in the tracking table as one batch, down reverts the last batch, fresh  *)
(* drops the schema and applies everything.  A run of the command is a     *)
(* process of its own; nothing locks the database, so runs may overlap,    *)
(* and a run may be killed between any two statements.                     *)
(*                                                                         *)
(* What is abstracted.  A migration is its version, the place of its file  *)
(* in the sorted directory.  Its SQL is sent as one simple query, hence    *)
(* all or nothing; what it does to the database is that the version is in  *)
(* effect or not, what it references is in Needs.  The up files of the     *)
(* repository say IF NOT EXISTS (Repeatable), their down files IF EXISTS.  *)
(* migrate create leaves files of comments, which run without effect, and  *)
(* someone writes their SQL later; a file may also be empty.               *)
(***************************************************************************)
EXTENDS Integers, FiniteSets

CONSTANTS
  Versions,    \* a set of positive numbers
  Needs,       \* the versions whose tables a version references
  Repeatable,  \* versions whose up file may run when they are in effect
  NoDown,      \* versions without a down file
  Empty,       \* versions whose up file may be empty
  Reused,      \* versions migrate create may be given again
  Runs,        \* runs of the command
  DbFails      \* may a statement fail for a reason of its own?

ASSUME MigrationsAssumption ==
  /\ Versions \subseteq Nat \ {0}
  /\ Needs \in [Versions -> SUBSET Versions]
  /\ \A v \in Versions : \A w \in Needs[v] : w < v
  /\ Repeatable \subseteq Versions
  /\ NoDown \subseteq Versions
  /\ Empty \subseteq Versions
  /\ Reused \subseteq Versions
  /\ DbFails \in BOOLEAN

VARIABLES
  public,   \* schema public exists
  table,    \* table migrations exists
  rows,     \* its rows: [id, v, batch]
  serial,   \* the last value of its id sequence
  schema,   \* versions in effect
  files,    \* versions with files in the directory
  written,  \* those whose files hold SQL, not only comments
  blank,    \* those whose up file is empty
  run,      \* the local state of each run
  \* History, read by no step:
  disturbed,  \* runs under way during which another changed the database
  drift       \* versions whose tracking went wrong for a known reason

vars == <<public, table, rows, serial, schema, files, written, blank, run,
          disturbed, drift>>

database == <<public, table, rows, serial, schema>>

directory == <<files, written, blank>>

RunState ==
  [pc   : {"idle", "open", "batch", "check", "exec", "track", "list", "revert",
           "untrack", "recreate", "over"},
   kind    : {"up", "down", "fresh"},
   found   : SUBSET Versions,           \* files an up found, rows a down listed
   broken  : BOOLEAN,                   \* what rows.Err() would say; read by no step
   batch   : Nat,
   todo    : SUBSET (Nat \X Versions),  \* what is left: <<position, version>>
   skipped : SUBSET Versions]           \* passed over: empty, or "Failed to rollback"

TypeOK ==
  /\ public \in BOOLEAN
  /\ table \in BOOLEAN
  /\ table => public
  /\ rows \subseteq [id : 1 .. serial, v : Versions, batch : Nat \ {0}]
  /\ rows # {} => table
  /\ \A x, y \in rows : x.id = y.id \/ x.v = y.v => x = y
  /\ serial \in Nat
  /\ schema \subseteq Versions
  /\ files \subseteq Versions
  /\ written \subseteq files
  /\ blank \subseteq files \ written
  /\ run \in [Runs -> RunState]
  /\ disturbed \subseteq Runs
  /\ drift \subseteq Versions

\* The memory of a process that is not running.
Memory(pc) ==
  [pc |-> pc, kind |-> "up", found |-> {}, broken |-> FALSE, batch |-> 0,
   todo |-> {}, skipped |-> {}]

Init ==
  /\ public = TRUE
  /\ table = FALSE
  /\ rows = {}
  /\ serial = 0
  /\ schema = {}
  /\ files \in SUBSET Versions
  /\ blank \in SUBSET (files \cap Empty)
  /\ written = files \ blank
  /\ run = [p \in Runs |-> Memory("idle")]
  /\ disturbed = {}
  /\ drift = {}

-----------------------------------------------------------------------------
(* Helpers.                                                                *)

Over(p) == run[p].pc \in {"idle", "over"}

Goes(p, pc) == run' = [run EXCEPT ![p].pc = pc]

\* The process exits, with or without an error.
Ends(p) == run' = [run EXCEPT ![p] = Memory("over")]

Tracked(v) == \E x \in rows : x.v = v

\* SELECT COALESCE(MAX(batch), 0).
LastBatch ==
  IF rows = {} THEN 0
  ELSE CHOOSE b \in {x.batch : x \in rows} : \A x \in rows : x.batch <= b

\* Mutant of Foremost: ORDER BY id.
ForemostFirst(p) ==
  CHOOSE x \in run[p].todo : \A y \in run[p].todo \ {x} : x[1] < y[1]

\* The files of an up are taken by name, the rows of a down by id, descending.
Foremost(p) ==
  LET before(x, y) == IF run[p].kind = "down" THEN x[1] > y[1] ELSE x[1] < y[1]
  IN  CHOOSE x \in run[p].todo : \A y \in run[p].todo \ {x} : before(x, y)

\* The run leaves a migration as it is and goes on to the next.
Skip(p) ==
  LET x == Foremost(p)
      next == IF run[p].kind = "down" THEN "revert" ELSE "check"
  IN  run' = [run EXCEPT ![p].pc = next, ![p].todo = @ \ {x}, ![p].skipped = @ \cup {x[2]}]

\* A run that changes the database disturbs those under way.
Disturb(p) ==
  disturbed' = disturbed \cup {q \in Runs \ {p} : ~Over(q)}

\* A run that others disturb may lose track of what it works on.
Doubt(p, vs) == drift' = IF p \in disturbed THEN drift \cup vs ELSE drift

-----------------------------------------------------------------------------
(* migrate create, and a release that brings new files.                    *)

\* A prefix in use is not refused: create overwrites the file.
AddFile(v) ==
  /\ v \notin files \/ v \in Reused
  /\ files' = files \cup {v}
  /\ written' = written \ {v}
  /\ blank' = blank \ {v}
  /\ UNCHANGED <<database, run, disturbed, drift>>

WriteFile(v) ==
  /\ v \in files \ written
  /\ written' = written \cup {v}
  /\ blank' = blank \ {v}
  /\ UNCHANGED <<database, files, run, disturbed, drift>>

-----------------------------------------------------------------------------
(* migrate up.                                                             *)

BeginUp(p) ==
  /\ run[p].pc = "idle"
  /\ run' = [run EXCEPT ![p].pc = "open", ![p].kind = "up"]
  /\ UNCHANGED <<database, directory, disturbed, drift>>

\* ReadDir, then CREATE TABLE IF NOT EXISTS migrations, its error ignored.
OpenTable(p) ==
  /\ run[p].pc = "open"
  /\ IF files = {}
       THEN Ends(p) /\ UNCHANGED table
       ELSE /\ run' = [run EXCEPT ![p].pc = "batch", ![p].found = files,
                                  ![p].todo = {<<v, v>> : v \in files}]
            /\ \/ table' = public
               \/ DbFails /\ UNCHANGED table
  /\ UNCHANGED <<public, rows, serial, schema, directory, disturbed, drift>>

ReadBatch(p) ==
  /\ run[p].pc = "batch"
  /\ \/ /\ ~table \/ DbFails
        /\ Ends(p)
     \/ /\ table
        /\ run' = [run EXCEPT ![p].pc = "check", ![p].batch = LastBatch + 1]
  /\ UNCHANGED <<database, directory, disturbed, drift>>

\* SELECT COUNT of the rows of that name: what is tracked is skipped.
CheckFile(p) ==
  /\ run[p].pc = "check"
  /\ \/ /\ run[p].todo = {}
        /\ Ends(p)
     \/ /\ run[p].todo # {}
        /\ ~table \/ DbFails
        /\ Ends(p)
     \/ /\ run[p].todo # {}
        /\ table
        /\ LET x == Foremost(p) IN
             IF Tracked(x[2]) THEN run' = [run EXCEPT ![p].todo = @ \ {x}]
                              ELSE Goes(p, "exec")
  /\ UNCHANGED <<database, directory, disturbed, drift>>

\* The up file: an empty one is passed over, neither run nor tracked; an error
\* ends the run.
ExecUp(p) ==
  LET v == Foremost(p)[2]
      legal == public /\ Needs[v] \subseteq schema /\ (v \in Repeatable \/ v \notin schema)
  IN
  /\ run[p].pc = "exec"
  /\ \/ /\ DbFails \/ (v \in written /\ ~legal)
        /\ Ends(p)
        /\ UNCHANGED <<schema, disturbed, drift>>
     \/ /\ v \in written /\ legal
        /\ schema' = schema \cup {v}
        /\ Goes(p, "track")
        /\ Disturb(p)
        /\ Doubt(p, {v})
     \/ /\ v \in files \ (written \cup blank)
        /\ Goes(p, "track")
        /\ drift' = drift \cup {v}
        /\ UNCHANGED <<schema, disturbed>>
     \/ /\ v \in blank
        /\ Skip(p)
        /\ UNCHANGED <<schema, disturbed, drift>>
  /\ UNCHANGED <<public, table, rows, serial, directory>>

\* Mutant of Track: the name column is not UNIQUE.
TrackTwice(p) ==
  LET x == Foremost(p) IN
  /\ run[p].pc = "track"
  /\ run' = [run EXCEPT ![p].pc = "check", ![p].todo = @ \ {x}]
  /\ table
  /\ serial' = serial + 1
  /\ rows' = rows \cup {[id |-> serial + 1, v |-> x[2], batch |-> run[p].batch]}
  /\ Disturb(p)
  /\ Doubt(p, {x[2]})
  /\ UNCHANGED <<public, table, schema, directory>>

\* INSERT INTO migrations, its error ignored; name is UNIQUE.
Track(p) ==
  LET x == Foremost(p) IN
  /\ run[p].pc = "track"
  /\ run' = [run EXCEPT ![p].pc = "check", ![p].todo = @ \ {x}]
  /\ \/ /\ table /\ ~Tracked(x[2])
        /\ serial' = serial + 1
        /\ rows' = rows \cup {[id |-> serial + 1, v |-> x[2], batch |-> run[p].batch]}
        /\ Disturb(p)
        /\ Doubt(p, {x[2]})
     \/ /\ ~table \/ Tracked(x[2]) \/ DbFails
        /\ drift' = drift \cup {x[2]}
        /\ UNCHANGED <<rows, serial, disturbed>>
  /\ UNCHANGED <<public, table, schema, directory>>

-----------------------------------------------------------------------------
(* migrate down.                                                           *)

BeginDown(p) ==
  /\ run[p].pc = "idle"
  /\ \/ /\ ~table \/ DbFails
        /\ Ends(p)
     \/ /\ table
        /\ LastBatch = 0
        /\ Ends(p)
     \/ /\ table
        /\ LastBatch # 0
        /\ run' = [run EXCEPT ![p].pc = "list", ![p].kind = "down", ![p].batch = LastBatch]
  /\ UNCHANGED <<database, directory, disturbed, drift>>

\* The rows a down will roll back.
List(p, listed, broken) ==
  run' = [run EXCEPT ![p].pc = "revert",
                     ![p].found = {x.v : x \in listed},
                     ![p].broken = broken,
                     ![p].todo = {<<x.id, x.v>> : x \in listed}]

\* Mutant of ListBatch: every batch is rolled back.
ListEverything(p) ==
  /\ run[p].pc = "list"
  /\ List(p, rows, FALSE)
  /\ UNCHANGED <<database, directory, disturbed, drift>>

\* SELECT of the batch, the last id first.  The error of a listing that breaks off
\* is not asked for: the down goes on with what it has read until then.
ListBatch(p) ==
  LET batch == {x \in rows : x.batch = run[p].batch} IN
  /\ run[p].pc = "list"
  /\ \/ /\ ~table \/ DbFails \/ batch = {}
        /\ Ends(p)
     \/ /\ table
        /\ batch # {}
        /\ List(p, batch, FALSE)
     \/ /\ table /\ DbFails
        /\ \E listed \in SUBSET batch \ {{}, batch} :
             /\ \A x \in listed, y \in batch \ listed : y.id < x.id
             /\ List(p, listed, TRUE)
  /\ UNCHANGED <<database, directory, disturbed, drift>>

\* Versions in effect that reference v.
Dependents(v) == {w \in schema : v \in Needs[w]}

\* The down file.  A missing file and an error skip the migration (tables that
\* others reference are an error), except an error that says "does not exist":
\* that counts as rolled back, though none of the file took effect.
ExecDown(p) ==
  LET v == Foremost(p)[2] IN
  /\ run[p].pc = "revert"
  /\ \/ /\ run[p].todo = {}
        /\ Ends(p)
        /\ UNCHANGED <<schema, disturbed, drift>>
     \/ /\ run[p].todo # {}
        /\ v \in NoDown \/ DbFails \/ (v \in written /\ Dependents(v) # {})
        /\ Skip(p)
        /\ UNCHANGED <<schema, disturbed, drift>>
     \/ /\ run[p].todo # {}
        /\ v \in written \ NoDown /\ Dependents(v) = {}
        /\ schema' = schema \ {v}
        /\ Goes(p, "untrack")
        /\ Disturb(p)
        /\ Doubt(p, {v})
     \/ /\ run[p].todo # {}
        /\ v \notin NoDown
        /\ v \notin written \/ DbFails
        /\ Goes(p, "untrack")
        /\ drift' = drift \cup {v}
        /\ UNCHANGED <<schema, disturbed>>
  /\ UNCHANGED <<public, table, rows, serial, directory>>

\* Mutant of Untrack: the row stays.
UntrackNot(p) ==
  /\ run[p].pc = "untrack"
  /\ run' = [run EXCEPT ![p].pc = "revert", ![p].todo = @ \ {Foremost(p)}]
  /\ UNCHANGED <<database, directory, disturbed, drift>>

\* DELETE of the row by its id, its error ignored.
Untrack(p) ==
  LET x == Foremost(p)
      gone == {y \in rows : y.id = x[1]}
  IN
  /\ run[p].pc = "untrack"
  /\ run' = [run EXCEPT ![p].pc = "revert", ![p].todo = @ \ {x}]
  /\ \/ /\ table
        /\ rows' = rows \ gone
        /\ Disturb(p)
        /\ Doubt(p, {x[2]} \cup {y.v : y \in gone})
     \/ /\ ~table \/ DbFails
        /\ drift' = drift \cup {x[2]}
        /\ UNCHANGED <<rows, disturbed>>
  /\ UNCHANGED <<public, table, serial, schema, directory>>

-----------------------------------------------------------------------------
(* migrate fresh.                                                          *)

\* DROP SCHEMA public CASCADE.
DropSchema(p) ==
  /\ run[p].pc = "idle"
  /\ \/ /\ ~public \/ DbFails
        /\ Ends(p)
        /\ UNCHANGED <<database, disturbed, drift>>
     \/ /\ public
        /\ run' = [run EXCEPT ![p].pc = "recreate", ![p].kind = "fresh"]
        /\ public' = FALSE
        /\ table' = FALSE
        /\ rows' = {}
        /\ serial' = 0
        /\ schema' = {}
        /\ Disturb(p)
        /\ drift' = {}
  /\ UNCHANGED <<directory>>

\* CREATE SCHEMA public, then runMigrations.
CreateSchema(p) ==
  /\ run[p].pc = "recreate"
  /\ \/ /\ public \/ DbFails
        /\ Ends(p)
        /\ UNCHANGED <<public, disturbed>>
     \/ /\ ~public
        /\ public' = TRUE
        /\ Goes(p, "open")
        /\ Disturb(p)
  /\ UNCHANGED <<table, rows, serial, schema, directory, drift>>

-----------------------------------------------------------------------------

\* The process dies between two statements.
Kill(p) ==
  /\ ~Over(p)
  /\ Ends(p)
  /\ drift' = IF run[p].pc \in {"track", "untrack"} THEN drift \cup {Foremost(p)[2]}
                                                   ELSE drift
  /\ UNCHANGED <<database, directory, disturbed>>

RunStep(p) ==
  \/ BeginUp(p) \/ OpenTable(p) \/ ReadBatch(p) \/ CheckFile(p) \/ ExecUp(p) \/ Track(p)
  \/ BeginDown(p) \/ ListBatch(p) \/ ExecDown(p) \/ Untrack(p)
  \/ DropSchema(p) \/ CreateSchema(p)

Next ==
  \/ \E p \in Runs : RunStep(p) \/ Kill(p)
  \/ \E v \in Versions : AddFile(v) \/ WriteFile(v)

Spec == Init /\ [][Next]_vars

-----------------------------------------------------------------------------
(* Properties.                                                             *)

\* v has a tracking error the code accepts, or some run is between its SQL and
\* its tracking statement.
InDoubt(v) ==
  \/ v \in drift
  \/ \E p \in Runs : run[p].pc \in {"track", "untrack"} /\ Foremost(p)[2] = v

\* The tracking table says what is in effect (runMigrations, rollbackMigration),
\* except while a run is between the two statements, after a kill there, after
\* an error the code ignores, for files run before they were written, and where
\* runs overlapped.
DriftExplained ==
  \A v \in Versions : (v \in schema <=> Tracked(v)) \/ InDoubt(v)

\* An up or fresh that ends well (runMigrations) with no other run changing the
\* database meanwhile leaves every file it found tracked and in effect, but for the
\* empty ones it passed over.
UpDelivers ==
  [][\A p \in Runs \ disturbed :
       run[p].pc = "check" /\ run[p].todo = {} /\ run'[p].pc = "over"
       => \A v \in run[p].found \ run[p].skipped :
            (Tracked(v) /\ v \in schema) \/ InDoubt(v)]_vars

\* A migration of its batch that the down p leaves behind: it said that it failed
\* to roll it back, or its tracking is in doubt.
LeftBehind(p, v) == v \in run[p].skipped \/ InDoubt(v)

\* A down (rollbackMigration) alone with the database removes rows of the last batch
\* only, the last one first, and ends with none of it but those it said it failed to
\* roll back and, when the listing broke off, those that were not listed: the down
\* then reverts the later part of the batch and reports that it completed.
DownDelivers ==
  [][\A p \in Runs \ disturbed' :
       run[p].kind = "down"
       => /\ run[p].pc = "untrack" => \A x \in rows \ rows' :
               /\ x.batch = run[p].batch
               /\ \A y \in rows : y.batch = x.batch /\ y.id > x.id => LeftBehind(p, y.v)
          /\ run[p].pc = "revert" /\ run[p].todo = {} /\ run'[p].pc = "over"
             => \A x \in rows : x.batch = run[p].batch =>
                  \/ LeftBehind(p, x.v)
                  \/ run[p].broken /\ x.v \notin run[p].found]_vars

\* What one run of the command, undisturbed, leaves in the database.
CommandDelivers == UpDelivers /\ DownDelivers

\* A down takes migrations in an order that does not break references (ORDER BY
\* id DESC): it passes over one that others in effect reference only after it
\* passed over those, or while another run is applying one.
RollbackOrder ==
  [][\A p \in Runs \ disturbed : \A v \in run'[p].skipped \ run[p].skipped :
       run[p].kind = "down"
       => InDoubt(v) \/ \A w \in Dependents(v) : w \in run[p].skipped \/ InDoubt(w)]_vars

-----------------------------------------------------------------------------
(* The inductive strengthening the proofs use.                             *)

\* The batches in the table have a last one.
BatchesBounded == \E n \in Nat : \A x \in rows : x.batch <= n

\* What the position in the command says of a run's memory, in any company.
Shape(p) ==
  LET r == run[p] IN
  /\ r.pc \in {"idle", "over"} => r = Memory(r.pc)
  /\ r.pc \in {"list", "revert", "untrack"} <=> r.kind = "down"
  /\ r.pc = "batch" => r.todo = {<<v, v>> : v \in r.found}
  /\ r.pc \in {"check", "exec", "track"} => r.batch # 0
  /\ r.pc \in {"exec", "track", "untrack"} => r.todo # {}
  /\ \A x, y \in r.todo : x[1] = y[1] => x = y
  /\ r.kind = "down" => \E n \in Nat : \A x \in r.todo : x[1] <= n

\* v is in doubt for good: a disturbed run leaves what it works on in drift.
Doubted(v) ==
  \/ v \in drift
  \/ \E q \in disturbed : run[q].pc \in {"track", "untrack"} /\ Foremost(q)[2] = v

\* An up or fresh alone with the database: its batch is the last one, the files it
\* has dealt with are tracked, the one it has run is in effect.
UpAlone(p) ==
  run[p].pc \in {"check", "exec", "track"} /\ p \notin disturbed =>
    /\ \A x \in rows : x.batch <= run[p].batch
    /\ \A v \in run[p].found :
         <<v, v>> \in run[p].todo \/ Tracked(v) \/ v \in run[p].skipped \cup drift
    /\ run[p].pc = "track" =>
         LET v == Foremost(p)[2] IN
         v \in drift \/ (v \in schema /\ Needs[v] \subseteq schema)

\* A row of the last batch that a broken listing kept from the down p: it comes
\* before all that is left to do.
Unlisted(p, y) ==
  /\ run[p].broken /\ y.v \notin run[p].found
  /\ \A x \in run[p].todo : y.id < x[1]

\* Why a row of the last batch is still there.
Accounted(p, y) ==
  \/ <<y.id, y.v>> \in run[p].todo
  \/ y.v \in run[p].skipped \cup drift
  \/ Unlisted(p, y)

\* A down alone with the database: it has listed the last batch, the migrations it
\* has dealt with are gone or skipped, the one it has reverted is not in effect.
DownAlone(p) ==
  run[p].kind = "down" /\ p \notin disturbed =>
    /\ \A x \in rows : x.batch <= run[p].batch
    /\ run[p].pc # "list" =>
         /\ \A x \in run[p].todo : \E y \in rows :
              y.id = x[1] /\ y.v = x[2] /\ y.batch = run[p].batch
         /\ \A y \in rows : y.batch = run[p].batch => Accounted(p, y)
    /\ run[p].pc = "untrack" =>
         LET v == Foremost(p)[2] IN
         v \in drift \/ (v \notin schema
                         /\ \A y \in rows : v \in Needs[y.v] => Doubted(y.v))

\* Later rows are of later batches.
BatchesGrow ==
  \A x, y \in rows : x.id < y.id /\ y.v \notin drift => x.batch <= y.batch

\* What a tracked migration references was tracked before it.
ReferencesFirst ==
  \A y \in rows : \A v \in Needs[y.v] :
    \/ Doubted(v) \/ Doubted(y.v)
    \/ \E x \in rows : x.v = v /\ x.id < y.id

MigrationsInv ==
  /\ TypeOK /\ BatchesBounded
  /\ \A p \in Runs : Shape(p) /\ UpAlone(p) /\ DownAlone(p)
  /\ BatchesGrow /\ ReferencesFirst
  /\ DriftExplained

=============================================================================
