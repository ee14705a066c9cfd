------------------------------ MODULE Migrations ------------------------------
(***************************************************************************)
(* The migration runner (backend/paritran/db/migrate.py, run_migrations),  *)
(* which every api process runs before it serves.  Several processes may   *)
(* start on one database, one may die between any two statements, and the  *)
(* files may be redeployed while others start.                             *)
(*                                                                         *)
(* SHA-256 is collision free, so the digest of a file is its content.  The *)
(* session lock is freed, and an open transaction rolled back, when the    *)
(* connection that owns it ends, by the finally clause or by its death.    *)
(* Nobody removes a migration file.  The primary key on filename is not a  *)
(* guard: MigratedOnce says it never has anything to reject.               *)
(***************************************************************************)
EXTENDS Naturals, Sequences

CONSTANTS
  Api,        \* api processes: each runs the migrations when it starts
  Lexical,    \* the names of the migration files, in lexical order
  Content,    \* what a file may hold
  Shipped,    \* the files of the first deployment: a name to its content, or None
  None        \* no file, no recorded row, no lock holder

File == {Lexical[i] : i \in DOMAIN Lexical}

ASSUME MigrationAssumption ==
  /\ Lexical \in Seq(File)
  /\ \A i, j \in DOMAIN Lexical : Lexical[i] = Lexical[j] => i = j
  /\ Shipped \in [File -> Content \cup {None}]
  /\ None \notin Content \cup Api

VARIABLES
  disk,      \* the migrations directory
  recorded,  \* schema_migrations: the digest recorded for a file, or None
  schema,    \* history: the bodies whose effects are committed, in order
  base,      \* which of the app role and the bookkeeping table exist
  lock,      \* who holds the advisory lock
  step,      \* where each process stands
  known,     \* the recorded rows as the runner has read them
  todo,      \* the files its loop has still to visit
  body       \* the file its open transaction has executed, or None

databaseVars == <<recorded, schema, base>>
runnerVars == <<step, known, todo, body>>
migrationVars == <<disk, databaseVars, lock, runnerVars>>

Holding == {"role", "bookkeeping", "read", "loop", "record"}

Unread == [f \in File |-> None]

MigrationInit ==
  /\ disk = Shipped
  /\ recorded = Unread
  /\ schema = <<>>
  /\ base = {}
  /\ lock = None
  /\ step = [p \in Api |-> "down"]
  /\ known = [p \in Api |-> Unread]
  /\ todo = [p \in Api |-> {}]
  /\ body = [p \in Api |-> None]

Goto(p, from, to) == step[p] = from /\ step' = [step EXCEPT ![p] = to]

(* The runner returns or raises: its variables are gone.                   *)
Leave(p) ==
  /\ known' = [known EXCEPT ![p] = Unread]
  /\ todo' = [todo EXCEPT ![p] = {}]
  /\ body' = [body EXCEPT ![p] = None]

-----------------------------------------------------------------------------
(* SELECT pg_advisory_lock(...): waits for whoever holds it.               *)
Lock(p) ==
  /\ lock = None
  /\ Goto(p, "lock", "role")
  /\ lock' = p
  /\ UNCHANGED <<disk, databaseVars, known, todo, body>>

(* The first two transactions: CREATE ROLE and CREATE TABLE, if absent.    *)
EnsureAppRole(p) ==
  /\ Goto(p, "role", "bookkeeping")
  /\ base' = base \cup {"role"}
  /\ UNCHANGED <<disk, recorded, schema, lock, known, todo, body>>

EnsureBookkeeping(p) ==
  /\ Goto(p, "bookkeeping", "read")
  /\ base' = base \cup {"bookkeeping"}
  /\ UNCHANGED <<disk, recorded, schema, lock, known, todo, body>>

(* The recorded rows, then sorted(directory.glob("*.sql")).                *)
ReadRecorded(p) ==
  /\ Goto(p, "read", "loop")
  /\ known' = [known EXCEPT ![p] = recorded]
  /\ todo' = [todo EXCEPT ![p] = {f \in File : disk[f] # None}]
  /\ UNCHANGED <<disk, databaseVars, lock, body>>

(* One round of the loop; the file is read from disk only now.             *)
NotAfter(f, g) == \E i, j \in DOMAIN Lexical : i <= j /\ Lexical[i] = f /\ Lexical[j] = g
Visiting(p, f) == step[p] = "loop" /\ f \in todo[p] /\ \A g \in todo[p] : NotAfter(f, g)
Visited(p, f) == todo' = [todo EXCEPT ![p] = @ \ {f}]

SkipApplied(p) ==
  /\ \E f \in File :
       Visiting(p, f) /\ known[p][f] # None /\ known[p][f] = disk[f] /\ Visited(p, f)
  /\ UNCHANGED <<disk, databaseVars, lock, step, known, body>>

(* MigrationChecksumError: the finally clause unlocks, the start fails.    *)
RefuseChanged(p) ==
  /\ \E f \in File : Visiting(p, f) /\ known[p][f] # None /\ known[p][f] # disk[f]
  /\ Goto(p, "loop", "down")
  /\ lock' = None
  /\ Leave(p)
  /\ UNCHANGED <<disk, databaseVars>>

(* The body and its bookkeeping row share a transaction: Apply executes    *)
(* the one, Record inserts the other and commits both.                     *)
Apply(p) ==
  /\ \E f \in File : /\ Visiting(p, f) /\ known[p][f] = None
                     /\ body' = [body EXCEPT ![p] = [file |-> f, content |-> disk[f]]]
  /\ Goto(p, "loop", "record")
  /\ UNCHANGED <<disk, databaseVars, lock, known, todo>>

Commit(p) == schema' = Append(schema, body[p])
Bookkeep(p) == recorded' = [recorded EXCEPT ![body[p].file] = body[p].content]

(* Mutant: without conn.transaction() each statement commits by itself. *)
RecordAutocommit(p) ==
  \/ /\ Goto(p, "record", "insert")
     /\ Commit(p)
     /\ UNCHANGED <<disk, recorded, base, lock, known, todo, body>>
  \/ /\ Goto(p, "insert", "loop")
     /\ Bookkeep(p)
     /\ Visited(p, body[p].file)
     /\ body' = [body EXCEPT ![p] = None]
     /\ UNCHANGED <<disk, schema, base, lock, known>>

Record(p) ==
  /\ Goto(p, "record", "loop")
  /\ Commit(p)
  /\ Bookkeep(p)
  /\ Visited(p, body[p].file)
  /\ body' = [body EXCEPT ![p] = None]
  /\ UNCHANGED <<disk, base, lock, known>>

Unlock(p) ==
  /\ todo[p] = {}
  /\ Goto(p, "loop", "seed")
  /\ lock' = None
  /\ Leave(p)
  /\ UNCHANGED <<disk, databaseVars>>

(* Mutant: the connection outlives the process and keeps its lock. *)
EndKeepingLock(p) ==
  /\ step[p] # "down"
  /\ step' = [step EXCEPT ![p] = "down"]
  /\ Leave(p)
  /\ UNCHANGED <<disk, databaseVars, lock>>

(* The process ends: an unreachable database, a statement that fails, a    *)
(* crash, a shutdown.  PostgreSQL rolls back and frees what it held.       *)
End(p) ==
  /\ step[p] # "down"
  /\ step' = [step EXCEPT ![p] = "down"]
  /\ lock' = IF lock = p THEN None ELSE lock
  /\ Leave(p)
  /\ UNCHANGED <<disk, databaseVars>>

(* A deployment adds a file or changes one.                                *)
Deploy(f, c) ==
  /\ disk[f] # c
  /\ disk' = [disk EXCEPT ![f] = c]
  /\ UNCHANGED <<databaseVars, lock, runnerVars>>

Migrate(p) ==
  \/ Lock(p) \/ EnsureAppRole(p) \/ EnsureBookkeeping(p) \/ ReadRecorded(p)
  \/ SkipApplied(p) \/ RefuseChanged(p) \/ Apply(p) \/ Record(p) \/ Unlock(p)

-----------------------------------------------------------------------------
MigrationTypeOK ==
  /\ disk \in [File -> Content \cup {None}]
  /\ recorded \in [File -> Content \cup {None}]
  /\ schema \in Seq([file : File, content : Content])
  /\ base \subseteq {"role", "bookkeeping"}
  /\ lock \in Api \cup {None}
  /\ step \in [Api -> {"down", "lock", "seed", "serving"} \cup Holding]
  /\ known \in [Api -> [File -> Content \cup {None}]]
  /\ todo \in [Api -> SUBSET File]
  /\ body \in [Api -> [file : File, content : Content] \cup {None}]

(* Whatever dies where and whoever else starts: a file's body takes effect *)
(* at most once, and schema_migrations holds for each file exactly the     *)
(* digest of the body that took effect (migrate.py, lines 90-124).         *)
AppliedOnce ==
  \A i, j \in DOMAIN schema : schema[i].file = schema[j].file => i = j
RecordedIsApplied ==
  /\ \A i \in DOMAIN schema : recorded[schema[i].file] = schema[i].content
  /\ \A f \in File : recorded[f] # None =>
       \E i \in DOMAIN schema : schema[i] = [file |-> f, content |-> recorded[f]]
MigratedOnce == AppliedOnce /\ RecordedIsApplied
=============================================================================
