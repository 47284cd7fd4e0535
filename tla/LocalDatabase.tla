--------------------------- MODULE LocalDatabase ----------------------------
(* The local SQLite file and the processes that open it                     *)
(* (src/core/aurorix-storage/src/database.rs and migration.rs).  A binary    *)
(* is the list of migrations it was built with; a migration's text stands   *)
(* for its name and SQL, which its checksum covers, and a row of the ledger *)
(* is the migration it records.  SQLite is external: one writer at a time,  *)
(* a transaction that is not committed leaves nothing, and a connection     *)
(* that waits for the writer may give up.                                   *)
EXTENDS Naturals, FiniteSets

CONSTANTS
  Processes,       \* processes that open the file; a crash ends one, not its name
  Migrations,      \* [version, text] records
  Binaries,        \* sets of migrations
  Creates,         \* the tables the SQL of a migration creates
  Broken,          \* migrations whose SQL is rejected half-way
  Contents,        \* what the tables may hold
  EmptyContent,
  NoProcess

ASSUME DatabaseAssumption ==
  /\ \A m \in Migrations : m.version \in Nat
  /\ Binaries \subseteq SUBSET Migrations
  /\ Broken \subseteq Migrations
  /\ DOMAIN Creates = Migrations
  /\ EmptyContent \in Contents
  /\ NoProcess \notin Processes

VARIABLES
  ledger,          \* committed rows of aurorix_schema_migrations
  tables,          \* committed tables
  content,         \* committed rows of the other tables
  writer,          \* the process whose transaction is open
  work,            \* that transaction's view of the three above
  place,           \* where each process is
  binary,          \* what each process was built with
  applied          \* versions its apply_migrations need not apply

dbVars == <<ledger, tables, content, writer, work, place, binary, applied>>

Places == {"closed", "applying", "migrated", "recorded", "ready", "writing",
           "poisoned"}
Busy   == {"migrated", "recorded", "writing"}

CommittedRows == [ledger |-> ledger, tables |-> tables, content |-> content]
View(l, t, c) == [ledger |-> l, tables |-> t, content |-> c]

NoWork        == View({}, {}, EmptyContent)

Versions(ms) == {m.version : m \in ms}

DatabaseInit ==
  /\ ledger = {} /\ tables = {} /\ content = EmptyContent
  /\ writer = NoProcess
  /\ work = NoWork
  /\ place   = [p \in Processes |-> "closed"]
  /\ binary  = [p \in Processes |-> {}]
  /\ applied = [p \in Processes |-> {}]

Move(p, there) == place' = [place EXCEPT ![p] = there]

\* The handle is gone; the name may open the file again.
Close(p) ==
  /\ Move(p, "closed")
  /\ binary'  = [binary EXCEPT ![p] = {}]
  /\ applied' = [applied EXCEPT ![p] = {}]

OnDisk         == UNCHANGED <<ledger, tables, content>>
Idle           == writer' = NoProcess /\ work' = NoWork   \* nothing is left of it

-----------------------------------------------------------------------------
(* Database::open, which reads nothing of the schema, and apply_migrations   *)
(* up to its loop                                                            *)

ValidateDefinitions(b) ==
  /\ \A m \in b : m.version > 0
  /\ \A m, n \in b : m.version = n.version => m = n

\* Mutant: the ledger's versions are compared and not its checksums.
MutantKnows(b, rows) == Versions(rows) \subseteq Versions(b)

\* Neither newer than the binary, nor unknown to it, nor changed since.
Knows(b, rows) == rows \subseteq b

\* A failed check leaves no handle.  read_applied is outside any transaction:
\* others may write before the loop does.
Open(p, b) ==
  /\ place[p] = "closed"
  /\ ValidateDefinitions(b) /\ Knows(b, ledger)
  /\ Move(p, "applying")
  /\ binary'  = [binary EXCEPT ![p] = b]
  /\ applied' = [applied EXCEPT ![p] = Versions(ledger)]
  /\ OnDisk /\ UNCHANGED <<writer, work>>

-----------------------------------------------------------------------------
(* The loop of apply_migrations: one transaction for each migration          *)

IsNext(p, m) ==
  /\ m \in binary[p] /\ m.version \notin applied[p]
  /\ \A n \in binary[p] : n.version \notin applied[p] => m.version <= n.version

Rejected(m) == m \in Broken \/ Creates[m] \cap tables # {}

\* Mutant: the SQL runs outside the transaction.
MutantRunSql(p, m) ==
  /\ place[p] = "applying" /\ writer = NoProcess
  /\ IsNext(p, m)
  /\ IF Rejected(m)
     THEN Close(p) /\ UNCHANGED <<tables, writer, work>>
     ELSE /\ Move(p, "migrated")
          /\ writer' = p
          /\ tables' = tables \cup Creates[m]
          /\ work' = View(ledger, tables', content)
          /\ UNCHANGED <<binary, applied>>
  /\ UNCHANGED <<ledger, content>>

\* A rejected statement drops the transaction, whatever it had created.
RunSql(p, m) ==
  /\ place[p] = "applying" /\ writer = NoProcess
  /\ IsNext(p, m)
  /\ IF Rejected(m)
     THEN Close(p) /\ UNCHANGED <<writer, work>>
     ELSE /\ Move(p, "migrated")
          /\ writer' = p
          /\ work' = View(ledger, tables \cup Creates[m], content)
          /\ UNCHANGED <<binary, applied>>
  /\ OnDisk

\* The version is the ledger's primary key.
RecordMigration(p, m) ==
  /\ place[p] = "migrated" /\ IsNext(p, m)
  /\ IF m.version \in Versions(work.ledger)
     THEN Close(p) /\ Idle
     ELSE /\ Move(p, "recorded")
          /\ work' = View(work.ledger \cup {m}, work.tables, work.content)
          /\ UNCHANGED <<writer, binary, applied>>
  /\ OnDisk

Publish ==
  /\ ledger' = work.ledger /\ tables' = work.tables /\ content' = work.content
  /\ Idle

CommitMigration(p, m) ==
  /\ place[p] = "recorded" /\ IsNext(p, m)
  /\ Publish
  /\ Move(p, "applying")
  /\ applied' = [applied EXCEPT ![p] = @ \cup {m.version}]
  /\ UNCHANGED binary

MigrationsApplied(p) ==
  /\ place[p] = "applying"
  /\ Versions(binary[p]) \subseteq applied[p]
  /\ Move(p, "ready")
  /\ UNCHANGED <<ledger, tables, content, writer, work, binary, applied>>

-----------------------------------------------------------------------------
(* with_write_transaction.  The threads of a process share one connection   *)
(* behind a mutex, so a process has at most one transaction.                 *)

BeginWrite(p) ==
  /\ place[p] = "ready" /\ writer = NoProcess
  /\ Move(p, "writing")
  /\ writer' = p
  /\ work' = CommittedRows
  /\ OnDisk /\ UNCHANGED <<binary, applied>>

\* A closure of one call: nobody sees its transaction open, and if it fails
\* nothing has happened.
WriteAtOnce(p, c) ==
  /\ place[p] = "ready" /\ writer = NoProcess
  /\ content' = c
  /\ UNCHANGED <<ledger, tables, writer, work, place, binary, applied>>

\* One call of a longer closure.
Write(p, c) ==
  /\ place[p] = "writing"
  /\ work' = View(work.ledger, work.tables, c)
  /\ OnDisk /\ UNCHANGED <<writer, place, binary, applied>>

CommitWrite(p) ==
  /\ place[p] = "writing"
  /\ Publish
  /\ Move(p, "ready")
  /\ UNCHANGED <<binary, applied>>

\* The closure returned an error, or the commit did.
RollBack(p) ==
  /\ place[p] = "writing"
  /\ Idle
  /\ Move(p, "ready")
  /\ OnDisk /\ UNCHANGED <<binary, applied>>

\* A closure that panics poisons the mutex: the handle writes nothing more.
Panic(p) ==
  /\ place[p] = "writing"
  /\ Idle
  /\ Move(p, "poisoned")
  /\ OnDisk /\ UNCHANGED <<binary, applied>>

\* A statement that waits for another process's transaction gives up.
GiveUp(p) ==
  /\ place[p] = "applying" /\ writer # NoProcess
  /\ Close(p)
  /\ OnDisk /\ UNCHANGED <<writer, work>>

\* The process ends, in order or not; SQLite drops what it had not committed.
Crash(p) ==
  /\ place[p] # "closed"
  /\ Close(p)
  /\ IF writer = p THEN Idle ELSE UNCHANGED <<writer, work>>
  /\ OnDisk

Migrate(p) ==
  \/ \E m \in binary[p] : RunSql(p, m) \/ RecordMigration(p, m) \/ CommitMigration(p, m)
  \/ MigrationsApplied(p)
  \/ GiveUp(p)

DatabaseNext ==
  \E p \in Processes :
    \/ \E b \in Binaries : Open(p, b)
    \/ Migrate(p)
    \/ BeginWrite(p)
    \/ \E c \in Contents : WriteAtOnce(p, c) \/ Write(p, c)
    \/ CommitWrite(p) \/ RollBack(p) \/ Panic(p)
    \/ Crash(p)

DatabaseSpec == DatabaseInit /\ [][DatabaseNext]_dbVars

-----------------------------------------------------------------------------
\* The tables are exactly those of the recorded migrations: no crash, error or
\* second process leaves a migration half applied (migration.rs,
\* apply_migrations: SQL and ledger row in one transaction).
SchemaIsTheLedger == tables = UNION {Creates[m] : m \in ledger}

\* Whoever is through apply_migrations finds every migration of its binary in
\* the file, with its own text, for as long as it runs and whatever other
\* binaries do meanwhile (migration.rs, the ledger comparison and the loop).
ReadyIsCurrent ==
  \A p \in Processes :
    place[p] \in {"ready", "writing", "poisoned"} => binary[p] \subseteq ledger
=============================================================================
