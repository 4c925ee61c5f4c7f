----------------------------- MODULE Migrations -----------------------------
(***************************************************************************)
(* The schema of the shared SQLite file and the two processes that bring   *)
(* it up to date when they start: init_db of src/src/core/db.py, called by *)
(* the API's lifespan and by the loop's main.                              *)
(*                                                                         *)
(* A script is a sequence of statements: "create" stands for CREATE ... IF *)
(* NOT EXISTS (and DROP ... IF EXISTS), which may be run again, and "add"  *)
(* for ALTER TABLE ... ADD COLUMN, which fails on a column that exists.    *)
(* Python's sqlite3 opens a transaction at the first INSERT: the           *)
(* statements before it commit one by one, the ones after it together when *)
(* the connection is left.                                                 *)
(***************************************************************************)
EXTENDS Integers, Sequences, FiniteSets

CONSTANTS Processes,    \* the processes that call init_db: the API and the loop
          Scripts,      \* the files of migrations/, a sequence of sequences of statements
          MaxCrashes    \* bound: processes that die while they migrate

ASSUME MigrationsAssumption ==
  /\ Scripts \in Seq(Seq({"create", "add"}))
  /\ MaxCrashes \in Nat

Versions == DOMAIN Scripts

\* A statement is named by its version and its place in the script.
StatementsOf(v) == {<<v, n>> : n \in DOMAIN Scripts[v]}
Statements == UNION {StatementsOf(v) : v \in Versions}

VARIABLES
  schema,        \* what is committed: the statements applied and the versions recorded
  tx,            \* the open write transaction: its owner ({} or one process) and what it holds
  boot,          \* where each process is in init_db
  bootMishaps    \* ghost: deaths within init_db so far, and whether two processes migrated at once

migrationVars == <<schema, tx, boot, bootMishaps>>

NoTx == [owner |-> {}, applied |-> {}, recorded |-> {}]

Started(done, v) == [at |-> "migrating", done |-> done, version |-> v, next |-> 1]
AtRest(where) == [at |-> where, done |-> {}, version |-> 0, next |-> 0]

\* The first script from v on that the process has not found recorded.
PendingFrom(v, done) == {w \in Versions : w >= v /\ w \notin done}
Least(S) == CHOOSE w \in S : \A u \in S : w <= u

Migrating(p) == boot[p].at = "migrating"
InInitDb(p) == boot[p].at \in {"migrating", "committing"}

\* The database a release finds: the scripts of the last one, all applied.
MigrationsInit ==
  /\ \E k \in 0 .. Len(Scripts) :
        schema = [applied |-> {s \in Statements : s[1] <= k}, recorded |-> 1 .. k]
  /\ tx = NoTx
  /\ boot = [p \in Processes |-> AtRest("down")]
  /\ bootMishaps = [crashes |-> 0, overlap |-> FALSE]

-----------------------------------------------------------------------------
(* init_db, statement by statement.                                        *)

\* What is recorded is read once, before the first script.
ReadDone(p) ==
  /\ boot[p].at \in {"down", "failed"}
  /\ LET todo == PendingFrom(1, schema.recorded)
     IN  boot' = [boot EXCEPT ![p] = IF todo = {} THEN AtRest("up")
                                     ELSE Started(schema.recorded, Least(todo))]
  /\ bootMishaps' = [bootMishaps EXCEPT !.overlap =
                        \/ @
                        \/ /\ boot'[p].at = "migrating"
                           /\ \E q \in Processes \ {p} : InInitDb(q)]
  /\ UNCHANGED <<schema, tx>>

\* connection: the exception rolls back what the transaction holds, and is raised
\* again: the process does not start.
Fail(p) ==
  /\ boot' = [boot EXCEPT ![p] = AtRest("failed")]
  /\ tx' = IF p \in tx.owner THEN NoTx ELSE tx
  /\ UNCHANGED <<schema, bootMishaps>>

\* Another process holds the write lock for longer than busy_timeout.
Locked(p) ==
  /\ Migrating(p)
  /\ tx.owner \notin {{}, {p}}
  /\ Fail(p)

\* conn.execute(statement): inside the transaction if the process has one.
Statement(p) ==
  /\ Migrating(p)
  /\ LET s == <<boot[p].version, boot[p].next>>
         seen == schema.applied \cup (IF p \in tx.owner THEN tx.applied ELSE {})
     IN  /\ s[2] \in DOMAIN Scripts[s[1]]
         /\ \/ /\ Scripts[s[1]][s[2]] = "add" /\ s \in seen
               /\ Fail(p)
            \/ /\ Scripts[s[1]][s[2]] = "create" \/ s \notin seen
               /\ s \in seen \/ tx.owner \in {{}, {p}}
               /\ boot' = [boot EXCEPT ![p].next = @ + 1]
               /\ IF p \in tx.owner
                  THEN tx' = [tx EXCEPT !.applied = @ \cup {s}] /\ UNCHANGED schema
                  ELSE schema' = [schema EXCEPT !.applied = @ \cup {s}] /\ UNCHANGED tx
               /\ UNCHANGED bootMishaps

\* Mutant: a script is taken for done after its first statement.
ScriptDone_Early(p) == boot[p].next > 1

ScriptDone(p) == boot[p].next > Len(Scripts[boot[p].version])

\* upsert into schema_migrations (INSERT OR IGNORE): the transaction begins here, if
\* not before, and the next script follows.
Record(p) ==
  /\ Migrating(p)
  /\ ScriptDone(p)
  /\ tx.owner \in {{}, {p}}
  /\ LET todo == PendingFrom(boot[p].version + 1, boot[p].done)
     IN  boot' = [boot EXCEPT ![p] = IF todo = {} THEN AtRest("committing")
                                     ELSE Started(@.done, Least(todo))]
  /\ tx' = [tx EXCEPT !.owner = {p}, !.recorded = @ \cup {boot[p].version}]
  /\ UNCHANGED <<schema, bootMishaps>>

\* connection: what the transaction holds is committed, and init_db returns.
Commit(p) ==
  /\ boot[p].at = "committing"
  /\ schema' = [applied |-> schema.applied \cup tx.applied,
                recorded |-> schema.recorded \cup tx.recorded]
  /\ tx' = NoTx
  /\ boot' = [boot EXCEPT ![p] = AtRest("up")]
  /\ UNCHANGED bootMishaps

\* The process dies, at any point; SQLite drops its transaction.
Crash(p) ==
  /\ \/ /\ InInitDb(p) /\ bootMishaps.crashes < MaxCrashes
        /\ bootMishaps' = [bootMishaps EXCEPT !.crashes = @ + 1]
     \/ boot[p].at = "up" /\ UNCHANGED bootMishaps
  /\ boot' = [boot EXCEPT ![p] = AtRest("down")]
  /\ tx' = IF p \in tx.owner THEN NoTx ELSE tx
  /\ UNCHANGED schema

MigrationsNext ==
  \E p \in Processes : ReadDone(p) \/ Statement(p) \/ Locked(p) \/ Record(p) \/ Commit(p) \/ Crash(p)

MigrationsSpec == MigrationsInit /\ [][MigrationsNext]_migrationVars

-----------------------------------------------------------------------------
MigrationsTypeOK ==
  /\ schema.applied \subseteq Statements
  /\ schema.recorded \subseteq Versions
  /\ tx.owner \in {{}} \cup {{p} : p \in Processes}
  /\ \A p \in Processes : /\ boot[p].at \in {"down", "migrating", "committing", "up", "failed"}
                          /\ Migrating(p) => boot[p].version \in Versions
  /\ bootMishaps \in [crashes : 0 .. MaxCrashes, overlap : BOOLEAN]

\* A version on record has all its statements in the schema, whatever died on the
\* way; a process that is up works on the whole schema; and a process fails to start
\* only if another one died while it migrated or migrated at the same time (init_db:
\* the record follows the statements, the commit follows both). The code promises more
\* than this: "Safe to call from both processes on startup ... a failing migration rolls
\* back atomically" (src/src/core/db.py:197).
BootedIsMigrated ==
  /\ \A v \in schema.recorded : StatementsOf(v) \subseteq schema.applied
  /\ \A p \in Processes :
        /\ boot[p].at = "up" => schema.recorded = Versions
        /\ boot[p].at = "failed" => bootMishaps.crashes > 0 \/ bootMishaps.overlap
=============================================================================
